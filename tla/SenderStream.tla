---------------------------- MODULE SenderStream ----------------------------
(***************************************************************************)
(* One transfer as the desktop shows it: the session in the main process    *)
(* (streaming-sender.ts, registered in streaming-session-registry.ts), and  *)
(* the view in the renderer with one QrFrameScheduler for each code it      *)
(* displays.                                                                *)
(*                                                                         *)
(* Frames are pulled: a scheduler asks over IPC for the next one, and       *)
(* take() produces as many as its ready queue holds.  What take() does      *)
(* between two awaits of the disk is not interrupted; at those awaits the   *)
(* call of another scheduler, a cancel, or a new recovery may come in.      *)
(*                                                                         *)
(* StreamTransferView shows one code.  TwoCodeTransferView and              *)
(* FourCodeTransferView show several, each with a scheduler of its own, of  *)
(* the same session.                                                        *)
(***************************************************************************)
EXTENDS WindowContainer, SenderFigures

CONSTANTS Lanes,            \* codes on the screen: gridCount
          SegmentCount, SymbolsPerSegment, RepairPerSegment,
          ManifestInterval, \* manifestIntervalFrames
          Capacity,         \* frameQueueCapacity
          Prefetch,         \* maxPrefetchedFrames
          Compressions,     \* may the transfer be compressed, may it not be?
          MaxFaults         \* bound: reads of the file that fail

ASSUME SenderAssumption ==
  /\ Lanes \in {1, 2, 4}
  /\ {SegmentCount, SymbolsPerSegment, ManifestInterval, Capacity, Prefetch} \subseteq Nat \ {0}
  /\ RepairPerSegment \in Nat /\ MaxFaults \in Nat
  /\ Compressions \in SUBSET BOOLEAN
  /\ TransportSize = SegmentCount * SymbolsPerSegment

VARIABLES
  state, shown,    \* the sender machine, as reduced and as committed
  lane,            \* the schedulers
  canvas,          \* what each code shows
  tail,            \* StreamTransferView: recoveryStarted, finishedReported
  asked,           \* sendRecoveryFrames() of the screen
  toMain,          \* IPC requests not yet handled
  call,            \* the nextFrame() each scheduler waits for
  queue,           \* frames ready
  segment, cursor, \* the pass: segmentIndex, symbolCursor
  phase, target, left, \* recovery: its cursor, and what is left of the batch
  produced,        \* framesProduced, modulo the manifest interval
  done, disposed,
  buffer, loaded,  \* segmentBuffer, and the segment it is taken to hold
  encoding,        \* encoder.hasSegment
  compressed, container, scratch, \* the window compressor
  faults

screen  == <<state, shown, canvas, tail, asked>>
pass    == <<segment, cursor, phase, target, left, produced, done>>
memory  == <<buffer, loaded, encoding>>
packing == <<container, scratch>>
session == <<queue, pass, memory, packing, disposed>>
vars    == <<screen, lane, toMain, call, session, compressed, faults>>

Lane == 1..Lanes
Segments == 1..SegmentCount
SingleCode == Lanes = 1
SymbolsForSegment == SymbolsPerSegment + RepairPerSegment

\* The machine, from the moment frames are on the screen.  OVER is any of the
\* states that clear the session: IDLE, PREFLIGHTING, CANCELLED, FAILED.
Mounted == {"TRANSFERRING", "HELD"}
States == Mounted \cup {"STREAM_COMPLETE", "OVER"}

Transitions ==
  {<<"TRANSFERRING", "HOLD", "HELD">>, <<"HELD", "RELEASE", "TRANSFERRING">>,
   <<"STREAM_COMPLETE", "RECOVERY_REQUESTED", "TRANSFERRING">>}
  \cup {<<s, "STREAM_FINISHED", "STREAM_COMPLETE">> : s \in Mounted}
  \cup {<<s, "STREAM_FAILED", "OVER">> : s \in Mounted}
  \cup {<<s, "ENDED", "OVER">> : s \in Mounted \cup {"STREAM_COMPLETE"}}

\* reduceSender(): an event that is not listed changes nothing.
Reduce(s, e) ==
  IF \E t \in Transitions : t[1] = s /\ t[2] = e
  THEN (CHOOSE t \in Transitions : t[1] = s /\ t[2] = e)[3]
  ELSE s

\* A frame is the manifest, or a symbol whose payload is, or is not, what its
\* header says it is.
Frames == {"manifest", "right", "wrong"}

\* The bytes of a segment, and of a buffer that was wiped.
Bytes(s) == [i \in 1..SymbolsPerSegment |-> (s - 1) * SymbolsPerSegment + i - 1]
Wiped == [i \in 1..SymbolsPerSegment |-> -1]

\* symbolInto() and serializeDataFrame(): a source symbol carries its own bytes,
\* a repair symbol is made of the whole segment.
FrameOf(s, symbol) ==
  IF \/ symbol < SymbolsPerSegment /\ buffer[symbol + 1] = Bytes(s)[symbol + 1]
     \/ symbol >= SymbolsPerSegment /\ buffer = Bytes(s)
  THEN "right" ELSE "wrong"

NoCall == [pc |-> "none", segment |-> 1, next |-> "emit", filled |-> 0,
           window |-> 1, recovering |-> FALSE, frame |-> "none"]

Request(kind, l) == [kind |-> kind, lane |-> l]

NewLane == [started |-> FALSE, running |-> FALSE, stopped |-> FALSE, finished |-> FALSE,
            fetching |-> FALSE, armed |-> FALSE, painting |-> FALSE, ready |-> <<>>]

\* start() and resume(), up to the fill() they call.
Running(ln) == [ln EXCEPT !.started = TRUE, !.running = TRUE, !.armed = TRUE]

\* pause()
Paused(ln) == [ln EXCEPT !.running = FALSE, !.armed = FALSE]

\* (mutant)
OnlyDisarmed(ln) == [ln EXCEPT !.armed = FALSE]

Suspended(ln) == Paused(ln)

\* stop()
Stopped(ln) == [ln EXCEPT !.running = FALSE, !.armed = FALSE, !.stopped = TRUE, !.ready = <<>>]

\* fill() asks for a frame unless it is asking already.
Wants(ln) == /\ ~ln.fetching /\ ~ln.stopped /\ ~ln.finished
             /\ Len(ln.ready) < Prefetch

Fetching(ln) == IF Wants(ln) THEN [ln EXCEPT !.fetching = TRUE] ELSE ln

\* The request of the scheduler that begins to fetch in a step; two never do,
\* for only the view of one code releases a hold.
Asks(before, after) == {l \in Lane : after[l].fetching /\ ~before[l].fetching}
Calling(asks) == [l \in Lane |-> IF l \in asks THEN [NoCall EXCEPT !.pc = "take"] ELSE call[l]]
Takes(asks) == IF asks = {} THEN <<>> ELSE <<Request("take", CHOOSE l \in asks : TRUE)>>

Ask(before, after) ==
  /\ call' = Calling(Asks(before, after))
  /\ toMain' = toMain \o Takes(Asks(before, after))

Init ==
  /\ state = "TRANSFERRING" /\ shown = "TRANSFERRING"
  /\ lane = [l \in Lane |-> NewLane]
  /\ canvas = [l \in Lane |-> "none"]
  /\ tail = [started |-> FALSE, reported |-> FALSE]
  /\ asked = "no"
  /\ call = [l \in Lane |-> NoCall]
  /\ toMain = <<>>
  /\ queue = <<>>
  /\ segment = 1 /\ cursor = 0 /\ phase = "pass" /\ target = 1 /\ left = 0
  /\ produced = 0 /\ done = FALSE /\ disposed = FALSE
  /\ buffer = Wiped /\ loaded = 0 /\ encoding = FALSE
  /\ compressed \in Compressions /\ container = NoRecord /\ scratch = 1
  /\ faults = 0
-----------------------------------------------------------------------------
(* The screen.  What an event reduces to is committed at once when it is a   *)
(* tap, and later when it comes out of an await; the effects run then.       *)

\* The states that clear the session release it, in one effect (App.tsx).
Clears(from, to) == to = "OVER" /\ from # "OVER"

Releases(from, to) == Clears(from, to)

\* StreamTransferView starts its scheduler in an effect that runs before
\* anything else is handled.
Settled == SingleCode /\ shown \in Mounted => lane[1].started

\* The effects of a commit: the view unmounts, pauses, resumes or is new.
Effects(from, to) ==
  /\ Settled
  /\ LET after == [l \in Lane |->
           CASE from \in Mounted /\ to \notin Mounted -> Stopped(lane[l])
             [] from = "TRANSFERRING" /\ to = "HELD"  -> Suspended(lane[l])
             [] from = "HELD" /\ to = "TRANSFERRING" ->
                  IF lane[l].stopped \/ lane[l].finished \/ lane[l].running
                  THEN lane[l] ELSE Fetching(Running(lane[l]))
             [] from = "STREAM_COMPLETE" /\ to = "TRANSFERRING" -> NewLane
             [] OTHER -> lane[l]]
         asks == Asks(lane, after)
     IN  /\ lane' = after
         /\ shown' = to
         /\ tail' = IF from = "STREAM_COMPLETE" /\ to = "TRANSFERRING"
                    THEN [started |-> FALSE, reported |-> FALSE] ELSE tail
         /\ call' = Calling(asks)
         /\ toMain' = toMain \o Takes(asks)
                      \o (IF Releases(from, to) THEN <<Request("cancel", 1)>> ELSE <<>>)

Tap(e) ==
  /\ state' = Reduce(state, e)
  /\ Effects(shown, state')
  /\ UNCHANGED <<canvas, asked, session, compressed, faults>>

TapHold    == SingleCode /\ shown = "TRANSFERRING" /\ Tap("HOLD")
TapRelease == shown = "HELD" /\ Tap("RELEASE")

\* Cancel, confirmed, or another file, or back to the dashboard.
TapEnd == shown # "OVER" /\ Tap("ENDED")

Commit ==
  /\ shown # state
  /\ Effects(shown, state)
  /\ UNCHANGED <<state, canvas, asked, session, compressed, faults>>

\* sendRecoveryFrames(), up to its await and after it.
TapRecover ==
  /\ shown = "STREAM_COMPLETE" /\ asked = "no"
  /\ asked' = "sent"
  /\ toMain' = Append(toMain, Request("recover", 1))
  /\ UNCHANGED <<state, shown, canvas, tail, lane, call, session, compressed, faults>>

RecoverAnswered ==
  /\ asked \in {"begun", "refused"}
  /\ state' = Reduce(state, IF asked = "begun" THEN "RECOVERY_REQUESTED" ELSE "ENDED")
  /\ asked' = "no"
  /\ UNCHANGED <<shown, canvas, tail, lane, toMain, call, session, compressed, faults>>
-----------------------------------------------------------------------------
(* The schedulers *)

\* The one scheduler is started when the view has mounted, and each of several
\* by a timer of its own.
StartLane(l) ==
  /\ shown \in Mounted /\ ~lane[l].started /\ ~lane[l].stopped
  /\ LET after == [lane EXCEPT ![l] = Fetching(Running(@))]
     IN  lane' = after /\ Ask(lane, after)
  /\ UNCHANGED <<screen, session, compressed, faults>>

\* tick(): a wake-up during a paint arms again and changes nothing.
Tick(l) ==
  /\ lane[l].armed /\ lane[l].running /\ ~lane[l].stopped
  /\ ~lane[l].painting
  /\ LET ready == lane[l].ready
         next  == IF ready # <<>>
                  THEN [lane[l] EXCEPT !.ready = Tail(ready), !.painting = TRUE, !.armed = FALSE]
                  ELSE lane[l]
         after == [lane EXCEPT ![l] =
                     IF ready = <<>> /\ next.finished
                     THEN [next EXCEPT !.running = FALSE, !.armed = FALSE]
                     ELSE Fetching(next)]
     IN  /\ lane' = after
         /\ Ask(lane, after)
         /\ canvas' = IF ready = <<>> THEN canvas ELSE [canvas EXCEPT ![l] = Head(ready)]
  /\ UNCHANGED <<state, shown, tail, asked, session, compressed, faults>>

\* The end of tick(), painted or not.
PaintEnds(l) ==
  /\ lane[l].painting
  /\ lane' = [lane EXCEPT ![l].painting = FALSE,
                          ![l].armed = @ \/ (lane[l].running /\ ~lane[l].stopped)]
  /\ UNCHANGED <<screen, toMain, call, session, compressed, faults>>

\* fill(), when the source has answered a frame: a stopped schedule drops it.
Supplied(ln, f) ==
  IF ln.stopped THEN [ln EXCEPT !.fetching = FALSE]
  ELSE [ln EXCEPT !.ready = Append(@, f), !.fetching = Len(ln.ready) + 1 < Prefetch]

Answered(l) == call[l].pc = "reply"

ReceiveFrame(l) ==
  /\ Answered(l) /\ call[l].frame \in Frames
  /\ LET ln == Supplied(lane[l], call[l].frame)
     IN  /\ lane' = [lane EXCEPT ![l] = ln]
         /\ call' = [call EXCEPT ![l] = IF ln.fetching THEN [NoCall EXCEPT !.pc = "take"] ELSE NoCall]
         /\ toMain' = IF ln.fetching THEN Append(toMain, Request("take", l)) ELSE toMain
  /\ UNCHANGED <<screen, session, compressed, faults>>

\* The source answers null: this schedule asks for nothing more.
Finished(l) ==
  /\ lane' = [lane EXCEPT ![l].fetching = FALSE, ![l].finished = @ \/ ~lane[l].stopped]
  /\ call' = [call EXCEPT ![l] = NoCall]
  /\ UNCHANGED toMain

\* The views of several codes take whatever is not a frame for null, and
\* StreamTransferView has nobody to report an error to once it has gone.
ReceiveNothing(l) ==
  /\ Answered(l) /\ call[l].frame \notin Frames
  /\ SingleCode => lane[l].stopped /\ call[l].frame = "error" /\ ~call[l].recovering
  /\ Finished(l)
  /\ UNCHANGED <<screen, session, compressed, faults>>

\* StreamTransferView: an error is reported, ...
ReceiveError(l) ==
  /\ SingleCode /\ Answered(l) /\ call[l].frame = "error" /\ ~call[l].recovering
  /\ ~lane[l].stopped
  /\ state' = Reduce(state, "STREAM_FAILED")
  /\ Finished(l)
  /\ UNCHANGED <<shown, canvas, tail, asked, session, compressed, faults>>

\* ... the end of the pass begins the recovery tail, once, ...
ReceiveEnd(l) ==
  /\ SingleCode /\ Answered(l) /\ call[l].frame = "none" /\ ~call[l].recovering
  /\ ~tail.started
  /\ tail' = [tail EXCEPT !.started = TRUE]
  /\ call' = [call EXCEPT ![l].pc = "begin"]
  /\ toMain' = Append(toMain, Request("begin", l))
  /\ UNCHANGED <<state, shown, canvas, asked, lane, session, compressed, faults>>

\* (it pulls the first frame of the tail without asking whether it is gone), ...
ReceiveBegun(l) ==
  /\ call[l].pc = "begun"
  /\ call' = [call EXCEPT ![l].pc = "take", ![l].recovering = TRUE]
  /\ toMain' = Append(toMain, Request("take", l))
  /\ UNCHANGED <<screen, lane, session, compressed, faults>>

\* ... and when that gives nothing, an error included, the stream is finished.
ReceiveFinish(l) ==
  /\ SingleCode /\ Answered(l) /\ call[l].frame \notin Frames
  /\ call[l].recovering \/ (call[l].frame = "none" /\ tail.started)
  /\ tail' = [tail EXCEPT !.reported = TRUE]
  /\ state' = IF tail.reported \/ lane[l].stopped THEN state ELSE Reduce(state, "STREAM_FINISHED")
  /\ Finished(l)
  /\ UNCHANGED <<shown, canvas, asked, session, compressed, faults>>
-----------------------------------------------------------------------------
(* The main process.  A call that runs is not interrupted: nothing else      *)
(* happens there until it awaits the disk or has answered.                   *)

Working == {"fill", "advance", "cover", "seek", "emit", "replay"}
Quiet == \A l \in Lane : call[l].pc \notin Working

Reply(l, f) == call' = [call EXCEPT ![l].pc = "reply", ![l].frame = f]
At(l, pc) == call' = [call EXCEPT ![l].pc = pc]

Renderer == <<screen, lane>>

HandleTake ==
  /\ Quiet /\ toMain # <<>> /\ Head(toMain).kind = "take"
  /\ LET l == Head(toMain).lane
     IN  CASE disposed       -> Reply(l, "error") /\ UNCHANGED queue
           [] ~disposed /\ queue # <<>> -> Reply(l, Head(queue)) /\ queue' = Tail(queue)
           [] OTHER          -> At(l, "fill") /\ UNCHANGED queue
  /\ toMain' = Tail(toMain)
  /\ UNCHANGED <<Renderer, pass, memory, packing, disposed, compressed, faults>>

\* beginRecovery(), with no targets: every segment.  The cursor is on the last
\* one and the batch is spent, so the first symbol moves to the first.
RecoveryBegins ==
  /\ phase' = "recovery" /\ target' = SegmentCount /\ left' = 0 /\ done' = FALSE

\* (mutant)
RecoveryBeginsButIsDone ==
  /\ phase' = "recovery" /\ target' = SegmentCount /\ left' = 0 /\ UNCHANGED done

BeginRecovery == RecoveryBegins

HandleRecovery ==
  /\ Quiet /\ toMain # <<>> /\ Head(toMain).kind \in {"begin", "recover"}
  /\ LET r == Head(toMain)
     IN  /\ IF r.kind = "recover"
            THEN asked' = (IF disposed THEN "refused" ELSE "begun") /\ UNCHANGED call
            ELSE /\ UNCHANGED asked
                 /\ IF disposed
                    THEN call' = [call EXCEPT ![r.lane].pc = "reply", ![r.lane].recovering = TRUE]
                    ELSE call' = [call EXCEPT ![r.lane].pc = "begun"]
         /\ toMain' = Tail(toMain)
         /\ IF disposed THEN UNCHANGED <<phase, target, left, done>> ELSE BeginRecovery
  /\ UNCHANGED <<state, shown, canvas, tail, lane, queue, segment, cursor, produced,
                 memory, packing, disposed, compressed, faults>>

\* cancel(): the session leaves the registry and is disposed of.
HandleCancel ==
  /\ Quiet /\ toMain # <<>> /\ Head(toMain).kind = "cancel"
  /\ toMain' = Tail(toMain)
  /\ disposed' = TRUE /\ done' = TRUE
  /\ queue' = <<>> /\ buffer' = Wiped /\ loaded' = 0 /\ encoding' = FALSE
  /\ container' = NoRecord
  /\ UNCHANGED <<Renderer, call, segment, cursor, phase, target, left, produced,
                 scratch, compressed, faults>>
-----------------------------------------------------------------------------
(* take(), once its queue is empty: fill(), produce() *)

HasRoom == Len(queue) < Capacity

\* (mutant)
HasRoomForOneMore == Len(queue) <= Capacity

Room == HasRoom

FillEnds(l) ==
  /\ call[l].pc = "fill"
  /\ done \/ ~Room
  /\ Reply(l, IF queue = <<>> THEN "none" ELSE Head(queue))
  /\ queue' = IF queue = <<>> THEN <<>> ELSE Tail(queue)
  /\ UNCHANGED <<Renderer, toMain, pass, memory, packing, disposed, compressed, faults>>

Count == produced' = (produced + 1) % ManifestInterval

ProduceManifest(l) ==
  /\ call[l].pc = "fill" /\ ~done /\ Room
  /\ produced = 0
  /\ queue' = Append(queue, "manifest")
  /\ Count
  /\ UNCHANGED <<Renderer, toMain, call, segment, cursor, phase, target, left, done,
                 memory, packing, disposed, compressed, faults>>

IsLoaded(s) == loaded = s /\ encoding

\* ensureSegmentLoaded(), up to the await of the file's stat.
Need(l, s, next) ==
  call' = [call EXCEPT ![l].pc = IF IsLoaded(s) THEN next ELSE "stat",
                       ![l].segment = s, ![l].next = next, ![l].filled = 0]

ProduceRecovery(l) ==
  /\ call[l].pc = "fill" /\ ~done /\ Room
  /\ produced # 0 /\ phase = "recovery"
  /\ IF left <= 0
     THEN target' = (target % SegmentCount) + 1 /\ left' = SymbolsForSegment
     ELSE UNCHANGED <<target, left>>
  /\ Need(l, target', "replay")
  /\ UNCHANGED <<Renderer, toMain, queue, segment, cursor, phase, produced, done,
                 memory, packing, disposed, compressed, faults>>

ProducePass(l) ==
  /\ call[l].pc = "fill" /\ ~done /\ Room
  /\ produced # 0 /\ phase = "pass"
  /\ At(l, "advance")
  /\ UNCHANGED <<Renderer, toMain, session, compressed, faults>>

\* advanceToPendingSymbol(): the head of its loop, ...
Advance(l) ==
  /\ call[l].pc = "advance"
  /\ IF segment > SegmentCount
     THEN done' = TRUE /\ encoding' = FALSE /\ At(l, "fill")
     ELSE Need(l, segment, "emit") /\ UNCHANGED <<done, encoding>>
  /\ UNCHANGED <<Renderer, toMain, queue, segment, cursor, phase, target, left, produced,
                 buffer, loaded, packing, disposed, compressed, faults>>

\* ... and its end: the segment is spent, or its next symbol is made.
Emit(l) ==
  /\ call[l].pc = "emit"
  /\ IF cursor < SymbolsForSegment
     THEN /\ queue' = Append(queue, FrameOf(segment, cursor))
          /\ cursor' = cursor + 1 /\ Count
          /\ At(l, "fill") /\ UNCHANGED segment
     ELSE /\ segment' = segment + 1 /\ cursor' = 0
          /\ At(l, "advance") /\ UNCHANGED <<queue, produced>>
  /\ UNCHANGED <<Renderer, toMain, phase, target, left, done,
                 memory, packing, disposed, compressed, faults>>

\* A batch is the segment's source symbols and then fresh repair.
Replay(l) ==
  /\ call[l].pc = "replay"
  /\ queue' = Append(queue, FrameOf(call[l].segment, SymbolsForSegment - left))
  /\ left' = left - 1 /\ Count
  /\ At(l, "fill")
  /\ UNCHANGED <<Renderer, toMain, segment, cursor, phase, target, done,
                 memory, packing, disposed, compressed, faults>>
-----------------------------------------------------------------------------
(* readSegment(), from the file or through the window compressor *)

Reading == <<Renderer, toMain, queue, pass, disposed, compressed>>

\* A failed stat or read, also one of those that fill a buffer in turn, and any
\* of them on a closed file.
Fails(l) ==
  /\ Quiet /\ call[l].pc \in {"stat", "reading", "landed"}
  /\ disposed \/ faults < MaxFaults
  /\ faults' = IF disposed THEN faults ELSE faults + 1
  /\ Reply(l, "error")
  /\ UNCHANGED <<Reading, memory, packing>>

StatAnswers(l) ==
  /\ Quiet /\ call[l].pc = "stat" /\ ~disposed
  /\ At(l, IF compressed THEN "cover" ELSE "reading")
  /\ UNCHANGED <<Reading, memory, packing, faults>>

\* The disk has filled the buffer it was given; the await has yet to return.
ReadLands(l) ==
  /\ call[l].pc = "reading"
  /\ At(l, "landed")
  /\ IF compressed
     THEN scratch' = call[l].window /\ UNCHANGED buffer
     ELSE buffer' = Bytes(call[l].segment) /\ UNCHANGED scratch
  /\ UNCHANGED <<Reading, loaded, encoding, container, faults>>

\* What was marked before the read would be believed after it has failed.
Loads(l) ==
  /\ loaded' = call[l].segment /\ encoding' = TRUE
  /\ At(l, call[l].next)

ReadReturns(l) ==
  /\ Quiet /\ call[l].pc = "landed"
  /\ IF compressed
     THEN /\ container' = [container EXCEPT !.record = Record(scratch)]
          /\ At(l, "seek") /\ UNCHANGED <<loaded, encoding>>
     ELSE Loads(l) /\ UNCHANGED container
  /\ UNCHANGED <<Reading, buffer, scratch, faults>>

Wanted(l) == (call[l].segment - 1) * SymbolsPerSegment + call[l].filled

\* recordCovering(), on entry and after each window it had to compress.
Position(l) ==
  IF call[l].pc = "cover" THEN Restarted(container, Wanted(l)) ELSE container

Cover(l) ==
  /\ call[l].pc \in {"cover", "seek"}
  /\ Reaches(Position(l), Wanted(l))
  /\ container' = Position(l)
  /\ buffer' = Copied(container', Wanted(l), buffer, call[l].filled)
  /\ LET filled == call[l].filled
                   + Taken(container', Wanted(l), SymbolsPerSegment - call[l].filled)
     IN  CASE filled >= SymbolsPerSegment -> Loads(l)
           [] filled < SymbolsPerSegment /\ disposed ->
                Reply(l, "error") /\ UNCHANGED <<loaded, encoding>>
           [] OTHER ->
                /\ call' = [call EXCEPT ![l].pc = "cover", ![l].filled = filled]
                /\ UNCHANGED <<loaded, encoding>>
  /\ UNCHANGED <<Reading, scratch, faults>>

Seek(l) ==
  /\ call[l].pc \in {"cover", "seek"}
  /\ ~Reaches(Position(l), Wanted(l))
  /\ IF disposed \/ ~HasNext(Position(l))
     THEN container' = Position(l) /\ Reply(l, "error")
     ELSE /\ container' = Moved(Position(l))
          /\ call' = [call EXCEPT ![l].pc = "reading", ![l].window = container'.index]
  /\ UNCHANGED <<Reading, memory, scratch, faults>>
-----------------------------------------------------------------------------
Taps == TapHold \/ TapRelease \/ TapEnd \/ TapRecover

Schedule(l) ==
  \/ StartLane(l) \/ Tick(l) \/ PaintEnds(l)
  \/ ReceiveFrame(l) \/ ReceiveNothing(l) \/ ReceiveError(l)
  \/ ReceiveEnd(l) \/ ReceiveBegun(l) \/ ReceiveFinish(l)

Handle == HandleTake \/ HandleRecovery \/ HandleCancel

Produce(l) ==
  \/ FillEnds(l) \/ ProduceManifest(l) \/ ProduceRecovery(l) \/ ProducePass(l)
  \/ Advance(l) \/ Emit(l) \/ Replay(l)
  \/ Cover(l) \/ Seek(l)

Read(l) == StatAnswers(l) \/ ReadLands(l) \/ ReadReturns(l) \/ Fails(l)

Next ==
  \/ Taps \/ Commit \/ RecoverAnswered
  \/ Handle
  \/ \E l \in Lane : Schedule(l) \/ Produce(l) \/ Read(l)

Spec == Init /\ [][Next]_vars

\* Promises settle, timers fire, messages arrive.  People owe nothing.
FairSpec ==
  /\ Spec
  /\ WF_vars(Commit) /\ WF_vars(RecoverAnswered) /\ WF_vars(Handle)
  /\ \A l \in Lane :
       /\ WF_vars(StartLane(l)) /\ WF_vars(Tick(l)) /\ WF_vars(PaintEnds(l))
       /\ WF_vars((Answered(l) \/ call[l].pc = "begun") /\ Schedule(l))
       /\ WF_vars(Produce(l)) /\ WF_vars(Read(l))
-----------------------------------------------------------------------------
\* The variables keep their types, and the queues between the disk and the
\* canvas their bounds (memoryBudgetBytes(), maxPrefetchedFrames), with a fetch
\* under way when the other side empties them and when a hold or a release
\* comes in between.
TypeOK ==
  /\ state \in States /\ shown \in States
  /\ lane \in [Lane -> [started : BOOLEAN, running : BOOLEAN, stopped : BOOLEAN,
                        finished : BOOLEAN, fetching : BOOLEAN, armed : BOOLEAN,
                        painting : BOOLEAN, ready : Seq(Frames)]]
  /\ canvas \in [Lane -> Frames \cup {"none"}]
  /\ tail \in [started : BOOLEAN, reported : BOOLEAN]
  /\ asked \in {"no", "sent", "begun", "refused"}
  /\ toMain \in Seq([kind : {"take", "begin", "recover", "cancel"}, lane : Lane])
  /\ \A l \in Lane :
       /\ call[l].pc \in Working \cup {"none", "take", "begin", "begun", "stat", "reading", "landed", "reply"}
       /\ call[l].segment \in Segments /\ call[l].window \in Windows
       /\ call[l].filled \in 0..SymbolsPerSegment
       /\ call[l].frame \in Frames \cup {"none", "error"}
  /\ \A l \in Lane : Len(lane[l].ready) <= Prefetch
  /\ queue \in Seq(Frames) /\ Len(queue) <= Capacity
  /\ segment \in 1..(SegmentCount + 1) /\ cursor \in 0..SymbolsForSegment
  /\ phase \in {"pass", "recovery"} /\ target \in Segments /\ left \in 0..SymbolsForSegment
  /\ produced \in 0..(ManifestInterval - 1)
  /\ done \in BOOLEAN /\ disposed \in BOOLEAN /\ encoding \in BOOLEAN
  /\ loaded \in 0..SegmentCount
  /\ container.index \in 0..WindowCount /\ container.start \in 0..TransportSize
  /\ scratch \in Windows /\ faults \in 0..MaxFaults

\* Whatever is on the screen, or about to be, carries the bytes its header
\* says: through seeks of the window compressor in both directions, reads that
\* failed half way and are tried again by a recovery, and a dispose() that wipes
\* the buffers under a take() that is still reading.
FramesAreRight ==
  \A l \in Lane :
    canvas[l] # "wrong" /\ \A i \in DOMAIN lane[l].ready : lane[l].ready[i] # "wrong"

\* The figures beside the code are right as well, or withheld.
ShownIsRight == FramesAreRight /\ FiguresAreRight

\* While the screen says the stream is held no paint begins: not from the
\* wake-up a paint under way was about to arm, nor from a fetch that lands.
HeldIsStill ==
  [][shown = "HELD" /\ shown' = "HELD" =>
       \A l \in Lane : ~lane[l].painting => ~lane'[l].painting]_vars

\* A screen that says it is transferring goes on showing frames until it says
\* something else: the pass rolls into the recovery tail, a hold that is
\* released starts the schedule again, an error is told.
KeepsShowing ==
  \A l \in Lane : shown = "TRANSFERRING" ~> (shown # "TRANSFERRING" \/ lane[l].painting)

\* Every way of ending a transfer disposes of its session in the main process,
\* and so closes the file it reads.
EndedIsDisposed == (shown = "OVER") ~> disposed

\* The controls beside the code are obeyed: a hold holds, an end ends.
ControlsAreObeyed == HeldIsStill /\ EndedIsDisposed
=============================================================================
