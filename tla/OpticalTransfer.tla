---------------------------- MODULE OpticalTransfer ----------------------------
(***************************************************************************)
(* One file across the optical link, from the desktop's frame generator    *)
(* (streaming-sender.ts) to the phone's committed segments                 *)
(* (receive-pipeline.ts, frame-dedupe.ts, segmented-receiver.ts).          *)
(*                                                                         *)
(* There is no back channel.  The display holds one frame at a time, the   *)
(* camera catches it any number of times or never, and the only thing that *)
(* ever travels back is a resume code a person types.  The decoder of a    *)
(* segment is taken from SegmentRecovery.tla: what it answers is a function *)
(* of the set of symbols it holds.  The sender's ready queue and the        *)
(* scheduler's prefetch are first-in first-out and are left out.           *)
(***************************************************************************)
EXTENDS Peeling, Integers, Sequences, SequencesExt

CONSTANTS
  SegmentCount,           \* segments of the file, all of K source symbols
  RepairPerSegment,       \* Math.ceil(K * repairOverheadRatio)
  ManifestInterval,       \* config.manifestIntervalFrames
  MaxResumeRanges,        \* MAX_RESUME_RANGES
  DedupeCapacity,         \* capacity of the BoundedFingerprintSet
  MaxActiveSegments,      \* decoders alive at once
  MaxPendingEquations, MaxPendingNeighborRefs,
  MaxSenderSessions,      \* bound: how often the desktop opens the file
  MaxReceiverSessions     \* bound: how often the receiver starts afresh

ASSUME TransferAssumption ==
  /\ SegmentCount \in Nat \ {0}
  /\ RepairPerSegment \in Nat
  /\ ManifestInterval \in Nat \ {0, 1}
  /\ MaxResumeRanges \in Nat
  /\ DedupeCapacity \in Nat \ {0}
  /\ MaxActiveSegments \in Nat \ {0}
  /\ MaxSenderSessions \in Nat /\ MaxReceiverSessions \in Nat
  /\ K .. (K + RepairPerSegment - 1) \subseteq RepairIds

-----------------------------------------------------------------------------
(***************************************************************************)
(* BoundedFingerprintSet (frame-dedupe.ts) as it is kept: a set to ask, and *)
(* a ring of the same fingerprints that says which of them came first.  The *)
(* variable dedupe is the sequence it stands for.                          *)
(***************************************************************************)
\* A ring is filled with zeros, and a fingerprint may be zero.
EmptyRing(capacity) ==
  [ring |-> [i \in 0..(capacity - 1) |-> 0], head |-> 0, count |-> 0, present |-> {}]

CapacityOf(set) == Cardinality(DOMAIN set.ring)

Has(set, print) == print \in set.present

\* (mutant)
EvictsAfterWriting(set, print) ==
  LET written == [set.ring EXCEPT ![set.head] = print]
      full    == set.count = CapacityOf(set)
  IN  IF Has(set, print) THEN [known |-> TRUE, set |-> set]
      ELSE [known |-> FALSE,
            set   |-> [ring |-> written, head |-> (set.head + 1) % CapacityOf(set),
                       count   |-> IF full THEN set.count ELSE set.count + 1,
                       present |-> IF full THEN (set.present \ {written[set.head]}) \cup {print}
                                   ELSE set.present \cup {print}]]

\* observe(): whether it was known, and the set that knows it.  The oldest goes
\* from the set before its place in the ring is taken.
Observing(set, print) ==
  LET full == set.count = CapacityOf(set)
  IN  IF Has(set, print) THEN [known |-> TRUE, set |-> set]
      ELSE [known |-> FALSE,
            set   |-> [ring    |-> [set.ring EXCEPT ![set.head] = print],
                       head    |-> (set.head + 1) % CapacityOf(set),
                       count   |-> IF full THEN set.count ELSE set.count + 1,
                       present |-> (IF full THEN set.present \ {set.ring[set.head]} ELSE set.present)
                                     \cup {print}]]

\* clear()
Cleared(set) == EmptyRing(CapacityOf(set))

\* A fingerprint, or a reset of the pipeline that holds the set.
Reset == 9
Stepped(set, step) == IF step = Reset THEN Cleared(set) ELSE Observing(set, step).set
After(steps, capacity) == FoldLeft(Stepped, EmptyRing(capacity), steps)

\* What is in the ring, oldest first.
Unrolled(set) ==
  [i \in 1..set.count |-> set.ring[(set.head + CapacityOf(set) - set.count + i - 1) % CapacityOf(set)]]

\* The sequence: what is new goes to its end, and its head goes when it is full.
Remembered(steps, capacity) ==
  LET grow(queue, step) ==
        CASE step = Reset -> <<>>
          [] step # Reset /\ step \in ToSet(queue) -> queue
          [] OTHER -> Append(IF Len(queue) = capacity THEN Tail(queue) ELSE queue, step)
  IN  FoldLeft(grow, <<>>, steps)

Steps == UNION {[1..n -> {0, 1, 2, 3, Reset}] : n \in 0..5}   \* bound: frames and resets

\* A frame is answered from the set only if it was seen since the last reset,
\* and what is forgotten is what came first and nothing more than that: after
\* any frames and resets the set, its ring and its count tell of the same
\* fingerprints, in the order they came in, however often the ring went round.
ForgetsTheOldest ==
  \A capacity \in 1..3 : \A steps \in Steps :
    LET set == After(steps, capacity)
    IN  /\ Unrolled(set) = Remembered(steps, capacity)
        /\ set.present = ToSet(Unrolled(set))
        /\ set.count = Cardinality(set.present)
        /\ \A print \in 0..3 :
             Observing(set, print).known <=> print \in ToSet(Remembered(steps, capacity))
-----------------------------------------------------------------------------
VARIABLES
  \* StreamingTransferSession
  phase,                \* "pass", "recovery", or "closed" (disposed)
  segmentIndex, symbolCursor,
  framesProduced,       \* modulo ManifestInterval, the only use made of it
  resumeFromSegment,    \* first segment of the pass
  resumeTargets,        \* what a resume token said is missing; {} for null
  recoveryTargets, recoveryTarget, recoveryBatchRemaining,
  recoveryNextSymbolId, \* segment -> next fresh repair id
  senderSessions,       \* sessions opened so far
  frame,                \* what the display shows
  \* ReceivePipeline and its SegmentedReceiver
  session,              \* "none", "provisioning", "open" or "refused"
  fault,                \* sessionFault set by a refused write
  complete,
  dedupe,               \* fingerprints of the frames answered, oldest first
  active,               \* segments with a decoder, least recently touched first
  held,                 \* segment -> symbols its decoder has taken
  committed, committedCount,
  stored,               \* segments the store took, or left by a checkpoint
  receiverSessions,     \* sessions ended so far, and this one
  \* the code on the receiver's screen
  token,
  \* history
  openedWith,           \* committed when the sender's token was minted
  displayed,            \* segment -> repair ids shown by this sender session
  caught,               \* the frame on the display has been caught
  batchCaught,          \* so has every earlier frame of the recovery batch
  lost,                 \* segment -> blocks lost with an evicted decoder, whose
                        \* source frames are remembered all the same
  deprived              \* a frame of the batch was suppressed that was `lost`

senderVars == <<phase, segmentIndex, symbolCursor, framesProduced,
                resumeFromSegment, resumeTargets, recoveryTargets,
                recoveryTarget, recoveryBatchRemaining, recoveryNextSymbolId,
                senderSessions, frame, openedWith, displayed>>
receiverVars == <<session, fault, complete, dedupe, active, held, committed,
                  committedCount, stored, receiverSessions, lost>>
batchVars    == <<caught, batchCaught, deprived>>
vars         == <<senderVars, receiverVars, batchVars, token>>

Segments == 0 .. (SegmentCount - 1)

SymbolsPerSegment == K + RepairPerSegment  \* symbolsForSegment()

\* Recovery goes on above everything the pass showed of a segment.
FirstRecoveryId == SymbolsPerSegment

\* What is on the display.  Frames with equal fields have equal bytes.
Manifest    == [kind |-> "manifest", segment |-> 0, symbol |-> 0]
Data(s, id) == [kind |-> "data", segment |-> s, symbol |-> id]
Blank       == [kind |-> "blank", segment |-> 0, symbol |-> 0]
Frames      == {Manifest, Blank} \cup {Data(s, id) : s \in Segments, id \in Symbols}

Decoder == INSTANCE SegmentRecovery
             WITH taken <- {}, recovered <- {}, outcome <- "none", open <- TRUE

Missing(have) == Segments \ have

-----------------------------------------------------------------------------
(* The resume code (resume-token.ts) *)

\* (mutant) The run that reaches the end of the bitmap is not closed.
RangesWithoutLastRun(have) ==
  {r \in [start : Segments, length : 1 .. SegmentCount] :
     /\ r.start .. (r.start + r.length - 1) \subseteq Missing(have)
     /\ r.start - 1 \notin Missing(have)
     /\ r.start + r.length \in have}

\* The maximal runs of segments that are not in `have`.
MissingRanges(have) ==
  {r \in [start : Segments, length : 1 .. SegmentCount] :
     /\ r.start .. (r.start + r.length - 1) \subseteq Missing(have)
     /\ r.start - 1 \notin Missing(have)
     /\ r.start + r.length \notin Missing(have)}

FirstMissing(have) ==
  IF have = Segments THEN SegmentCount ELSE Min(Missing(have))

\* A restart point says as much as the ranges would.
DescribesATrailingRun(ranges) ==
  \/ ranges = {}
  \/ \E r \in ranges : ranges = {r} /\ r.start + r.length >= SegmentCount

\* The ranges are carried only where a restart point would not do and they fit.
EncodeToken(have) ==
  LET ranges == MissingRanges(have)
      carries == /\ ~DescribesATrailingRun(ranges)
                 /\ Cardinality(ranges) <= MaxResumeRanges
  IN  [from |-> FirstMissing(have), missing |-> IF carries THEN ranges ELSE {}]

TokenTargets(t) ==
  IF t.missing # {}
    THEN UNION {r.start .. (r.start + r.length - 1) : r \in t.missing}
    ELSE t.from .. (SegmentCount - 1)

NoToken == [from |-> -1, missing |-> {}]

\* A person reads the code, minted from the live bitmap.
ReadToken ==
  /\ session = "open"
  /\ senderSessions < MaxSenderSessions
  /\ token' = [code |-> EncodeToken(committed), had |-> committed]
  /\ UNCHANGED <<senderVars, receiverVars, batchVars>>
-----------------------------------------------------------------------------
(* The sender: take() and produce() *)

\* A data frame of the batch gives way to the next one.
NextOnDisplay(f) ==
  /\ frame' = f
  /\ caught' = FALSE
  /\ displayed' = IF f.kind = "data" /\ f.symbol \in RepairIds
                    THEN [displayed EXCEPT ![f.segment] = @ \cup {f.symbol}]
                    ELSE displayed
  /\ framesProduced' = (framesProduced + 1) % ManifestInterval

\* Did the camera miss the data frame that now leaves the display?
StillWhole == batchCaught /\ (frame.kind = "data" => caught)

ManifestDue == framesProduced = 0

ShowManifest ==
  /\ phase # "closed"
  /\ ManifestDue
  /\ NextOnDisplay(Manifest)
  /\ batchCaught' = StillWhole
  /\ UNCHANGED <<phase, segmentIndex, symbolCursor, resumeFromSegment,
                 resumeTargets, recoveryTargets, recoveryTarget,
                 recoveryBatchRemaining, recoveryNextSymbolId, senderSessions,
                 openedWith, receiverVars, token, deprived>>

\* advanceToPendingSymbol(): the segment and symbol that are due.
DueSegment == IF symbolCursor < SymbolsPerSegment THEN segmentIndex ELSE segmentIndex + 1
DueSymbol  == IF symbolCursor < SymbolsPerSegment THEN symbolCursor ELSE 0

ShowPassSymbol ==
  /\ phase = "pass" /\ ~ManifestDue
  /\ DueSegment < SegmentCount
  /\ NextOnDisplay(Data(DueSegment, DueSymbol))
  /\ segmentIndex' = DueSegment
  /\ symbolCursor' = DueSymbol + 1
  /\ UNCHANGED <<phase, resumeFromSegment, resumeTargets, recoveryTargets,
                 recoveryTarget, recoveryBatchRemaining, recoveryNextSymbolId,
                 senderSessions, openedWith, receiverVars, token, batchCaught,
                 deprived>>

\* What recovery generates for when nobody names segments.
RecoveryFallback == IF resumeTargets # {} THEN resumeTargets ELSE Segments

\* take() returns null; the view calls beginRecovery() with no targets.  The
\* cursor is left on the last target so that the first batch is the first one's.
BeginRecovery ==
  /\ phase = "pass" /\ ~ManifestDue
  /\ DueSegment = SegmentCount
  /\ phase' = "recovery"
  /\ segmentIndex' = DueSegment
  /\ symbolCursor' = DueSymbol
  /\ recoveryTargets' = RecoveryFallback
  /\ recoveryTarget' = Max(RecoveryFallback)
  /\ recoveryBatchRemaining' = 0
  /\ batchCaught' = FALSE
  /\ UNCHANGED <<framesProduced, resumeFromSegment, resumeTargets,
                 recoveryNextSymbolId, senderSessions, frame, openedWith,
                 displayed, receiverVars, token, caught, deprived>>

NextTarget ==
  LET later == {t \in recoveryTargets : t > recoveryTarget}
  IN  IF later # {} THEN Min(later) ELSE Min(recoveryTargets)

\* Source symbols first, then repair ids that climb above all shown before.
BatchSymbol(target, emitted) ==
  IF emitted < K THEN emitted ELSE recoveryNextSymbolId[target]

ShowRecoverySymbol ==
  /\ phase = "recovery" /\ ~ManifestDue
  /\ LET begins  == recoveryBatchRemaining = 0
         target  == IF begins THEN NextTarget ELSE recoveryTarget
         emitted == IF begins THEN 0 ELSE SymbolsPerSegment - recoveryBatchRemaining
         id      == BatchSymbol(target, emitted)
     IN  /\ id \in Symbols  \* bound: the repair ids of the model run out
         /\ NextOnDisplay(Data(target, id))
         /\ recoveryTarget' = target
         /\ recoveryBatchRemaining' = SymbolsPerSegment - emitted - 1
         /\ recoveryNextSymbolId' = IF id \in Blocks THEN recoveryNextSymbolId
                                      ELSE [recoveryNextSymbolId EXCEPT ![target] = id + 1]
         /\ batchCaught' = (begins \/ StillWhole)
         /\ deprived' = (~begins /\ deprived)
  /\ UNCHANGED <<phase, segmentIndex, symbolCursor, resumeFromSegment,
                 resumeTargets, recoveryTargets, senderSessions, openedWith,
                 receiverVars, token>>

\* dispose(): the transfer is cancelled at the desktop, or its file fails it.
CloseSender ==
  /\ phase # "closed"
  /\ phase' = "closed"
  /\ frame' = Blank
  /\ batchCaught' = FALSE
  /\ UNCHANGED <<segmentIndex, symbolCursor, framesProduced, resumeFromSegment,
                 resumeTargets, recoveryTargets, recoveryTarget,
                 recoveryBatchRemaining, recoveryNextSymbolId, senderSessions,
                 openedWith, displayed, receiverVars, token, caught, deprived>>

\* The same file is opened again with the code that was read.  The identity is
\* the token's, so the frames are those of the transfer it came from.
OpenResumed ==
  /\ phase = "closed"
  /\ token # NoToken
  /\ senderSessions < MaxSenderSessions
  /\ senderSessions' = senderSessions + 1
  /\ phase' = "pass"
  /\ resumeFromSegment' = IF token.code.from < SegmentCount THEN token.code.from
                                                           ELSE SegmentCount - 1
  /\ segmentIndex' = resumeFromSegment'
  /\ symbolCursor' = 0
  /\ framesProduced' = 0
  /\ resumeTargets' = TokenTargets(token.code)
  /\ recoveryTargets' = {}
  /\ recoveryTarget' = 0
  /\ recoveryBatchRemaining' = 0
  /\ recoveryNextSymbolId' = [s \in Segments |-> FirstRecoveryId]
  /\ openedWith' = token.had
  /\ displayed' = [s \in Segments |-> {}]
  /\ UNCHANGED <<frame, receiverVars, token, batchVars>>
-----------------------------------------------------------------------------
(* The receiver: submit() *)

Remembering(f) ==
  Append(IF Len(dedupe) = DedupeCapacity THEN Tail(dedupe) ELSE dedupe, f)

Observe(f) == dedupe' = Remembering(f)

\* The camera reads the frame on the display; complete and answered are the
\* two early returns of submit().
Seen == /\ frame # Blank
        /\ ~complete
        /\ frame \notin Range(dedupe)

\* History: only the batches of a recovery are followed.
Catch == caught' = (session = "open" /\ phase = "recovery")

\* A fingerprint that is known ends it, whatever has become of the symbol.
Suppress ==
  /\ frame \in Range(dedupe) /\ ~complete
  /\ Catch
  /\ deprived' = (deprived \/ (phase = "recovery" /\ frame.kind = "data" /\ frame.symbol \in lost[frame.segment]))
  /\ UNCHANGED <<senderVars, receiverVars, batchCaught, token>>

\* A manifest opens storage; while it is being opened nothing is remembered.
CatchManifest ==
  /\ Seen
  /\ frame = Manifest
  /\ session \in {"none", "open"}
  /\ session' = IF session = "none" THEN "provisioning" ELSE session
  /\ Observe(frame)
  /\ UNCHANGED <<senderVars, fault, complete, active, held, committed,
                 committedCount, stored, receiverSessions, lost, batchVars, token>>

\* (mutant) A frame that must wait is fingerprinted like any other.
AfterPendingRemembered(f) == Remembering(f)

AfterPending(f) == dedupe

\* No session to give the frame to: it waits for the manifest or for storage, or
\* storage has refused.  It is not remembered, for the sender repeats it.
CatchPending ==
  /\ Seen
  /\ session # "open"
  /\ frame = Manifest => session # "none"
  /\ dedupe' = AfterPending(frame)
  /\ UNCHANGED <<senderVars, session, fault, complete, active, held, committed,
                 committedCount, stored, receiverSessions, lost, batchVars, token>>

\* Storage answers: it adopts what a checkpoint names, or clears the directory.
Provisioned ==
  /\ session = "provisioning"
  /\ session' = "open"
  /\ stored' \in {stored, {}}
  /\ committed' = stored'
  /\ committedCount' = Cardinality(committed')
  /\ complete' = (committedCount' = SegmentCount)
  /\ UNCHANGED <<senderVars, fault, dedupe, active, held, receiverSessions, lost,
                 batchVars, token>>

\* It refuses, and so is every later manifest of this session.
ProvisionFails ==
  /\ session = "provisioning"
  /\ session' = "refused"
  /\ UNCHANGED <<senderVars, fault, complete, dedupe, active, held, committed,
                 committedCount, stored, receiverSessions, lost, batchVars, token>>

IsSegmentCommitted(s) == s \in committed

\* A symbol of a segment that is already written out.
CatchCommitted ==
  /\ Seen
  /\ session = "open" /\ frame.kind = "data"
  /\ IsSegmentCommitted(frame.segment)
  /\ Observe(frame)
  /\ Catch
  /\ UNCHANGED <<senderVars, session, fault, complete, active, held, committed,
                 committedCount, stored, receiverSessions, lost, batchCaught, deprived, token>>

Without(seq, s) == RemoveFirst(seq, s)

\* (mutant) activate() makes no room.
RoomWithoutEviction(s) == active

\* activate(): the least recently touched decoder goes when there is no slot.
Room(s) == IF s \notin Range(active) /\ Len(active) >= MaxActiveSegments
             THEN Tail(active) ELSE active

Evicted(s) == Range(active) \ Range(Room(s))

\* What the decoders hold once there is one for segment s.
HeldAround(s) == [t \in Segments |-> IF t \in Evicted(s) THEN {} ELSE held[t]]

\* (mutant) The last segment completes a session whose store has failed.
FinishedDespiteFault(failed, count) == count = SegmentCount

Finished(failed, count) == ~failed /\ count = SegmentCount

\* The sink cannot refuse: a store that does leaves a fault and a segment that
\* counts as committed.
Commit(s) ==
  /\ active' = Without(Room(s), s)
  /\ held' = [HeldAround(s) EXCEPT ![s] = {}]
  /\ committed' = committed \cup {s}
  /\ committedCount' = committedCount + 1
  /\ \E ok \in BOOLEAN : /\ stored' = IF ok THEN stored \cup {s} ELSE stored
                         /\ fault' = (fault \/ ~ok)
  /\ complete' = Finished(fault', committedCount')

\* A symbol for a segment still open, answered by its decoder.
CatchSymbol ==
  /\ Seen
  /\ session = "open" /\ frame.kind = "data"
  /\ ~IsSegmentCommitted(frame.segment)
  /\ LET s == frame.segment
     IN  \E answer \in Decoder!Answers(HeldAround(s)[s], frame.symbol) :
           LET taken == Decoder!HeldAfter(HeldAround(s)[s], frame.symbol, answer)
           IN  /\ lost' = [t \in Segments |-> {b \in Blocks :
                             /\ b \in lost[t] \/ (t \in Evicted(s) /\ b \in Solvable(held[t]))
                             /\ Data(t, b) \in Range(Remembering(frame)) \ {frame}}]
               /\ IF Complete(taken) THEN Commit(s)
                  ELSE /\ active' = Append(Without(Room(s), s), s)
                       /\ held' = [HeldAround(s) EXCEPT ![s] = taken]
                       /\ UNCHANGED <<fault, complete, committed, committedCount, stored>>
  /\ Observe(frame)
  /\ Catch
  /\ UNCHANGED <<senderVars, session, receiverSessions, batchCaught, deprived, token>>
-----------------------------------------------------------------------------
(* The receiver: the end of a session *)

\* The session is interrupted or its page dies, and what its last checkpoint
\* names is left (OpfsSegmentStore), or it is cancelled and nothing is.
ReceiverEnds ==
  /\ session # "none"
  /\ session' = "none"
  /\ receiverSessions < MaxReceiverSessions
  /\ receiverSessions' = receiverSessions + 1
  /\ stored' \in SUBSET stored
  /\ fault' = FALSE /\ complete' = FALSE
  /\ dedupe' = <<>> /\ active' = <<>>
  /\ held' = [s \in Segments |-> {}]
  /\ committed' = {} /\ committedCount' = 0
  /\ lost' = [s \in Segments |-> {}]
  /\ caught' = FALSE /\ batchCaught' = FALSE /\ deprived' = FALSE
  /\ UNCHANGED <<senderVars, token>>
-----------------------------------------------------------------------------
Init ==
  /\ phase = "pass" /\ segmentIndex = 0 /\ symbolCursor = 0
  /\ framesProduced = 0 /\ resumeFromSegment = 0
  /\ resumeTargets = {} /\ recoveryTargets = {}
  /\ recoveryTarget = 0 /\ recoveryBatchRemaining = 0
  /\ recoveryNextSymbolId = [s \in Segments |-> FirstRecoveryId]
  /\ senderSessions = 1 /\ frame = Blank
  /\ openedWith = {} /\ displayed = [s \in Segments |-> {}]
  /\ session = "none" /\ fault = FALSE /\ complete = FALSE
  /\ dedupe = <<>> /\ active = <<>>
  /\ held = [s \in Segments |-> {}]
  /\ committed = {} /\ committedCount = 0
  /\ stored = {} /\ receiverSessions = 1
  /\ lost = [s \in Segments |-> {}]
  /\ caught = FALSE /\ batchCaught = FALSE /\ deprived = FALSE
  /\ token = NoToken

Sender == ShowManifest \/ ShowPassSymbol \/ BeginRecovery \/ ShowRecoverySymbol
            \/ CloseSender \/ OpenResumed

Receiver == Suppress \/ CatchManifest \/ CatchPending \/ CatchCommitted
              \/ CatchSymbol \/ Provisioned \/ ProvisionFails \/ ReceiverEnds

Next == Sender \/ Receiver \/ ReadToken

Spec == Init /\ [][Next]_vars
-----------------------------------------------------------------------------
TypeOK ==
  /\ phase \in {"pass", "recovery", "closed"}
  /\ segmentIndex \in 0 .. SegmentCount /\ symbolCursor \in 0 .. SymbolsPerSegment
  /\ framesProduced \in 0 .. (ManifestInterval - 1)
  /\ resumeFromSegment \in Segments
  /\ resumeTargets \subseteq Segments /\ recoveryTargets \subseteq Segments
  /\ recoveryTarget \in Segments
  /\ recoveryBatchRemaining \in 0 .. SymbolsPerSegment
  /\ recoveryNextSymbolId \in [Segments -> Nat]
  /\ senderSessions \in Nat
  /\ frame \in Frames
  /\ openedWith \subseteq Segments
  /\ displayed \in [Segments -> SUBSET RepairIds]
  /\ session \in {"none", "provisioning", "open", "refused"}
  /\ {fault, complete, caught, batchCaught, deprived} \subseteq BOOLEAN
  /\ dedupe \in Seq(Frames) /\ Len(dedupe) <= DedupeCapacity
  /\ active \in Seq(Segments) /\ Len(active) <= MaxActiveSegments
  /\ held \in [Segments -> SUBSET Symbols]
  /\ committed \subseteq Segments /\ committedCount \in 0 .. SegmentCount
  /\ stored \subseteq Segments /\ receiverSessions \in Nat
  /\ lost \in [Segments -> SUBSET Blocks]
  /\ token = NoToken \/ token.had \subseteq Segments

\* isComplete compares a counter with the segment count; a segment committed
\* twice would end the session early (segmented-receiver.ts, commit() and adopt()).
CountIsExact == session = "open" => committedCount = Cardinality(committed)

\* What is handed to verification is wholly on the device, whatever the store
\* refused on the way and whatever was adopted (receive-pipeline.ts, submitV2).
CompleteMeansStored == complete => stored = Segments

\* A transfer the receiver calls complete is complete, and wholly on the device.
CompletionIsReal == CountIsExact /\ CompleteMeansStored

\* What the sender will show in the end, if nobody stops it.
WillCover == IF phase = "recovery" THEN recoveryTargets ELSE RecoveryFallback

\* A sender opened with a resume code skips nothing the receiver still needs,
\* neither in the pass nor in the recovery that repeats for ever, as long as the
\* receiver still has what it had when the code was minted (resume-token.ts).
ResumeSkipsNothing ==
  session = "open" /\ openedWith \subseteq committed =>
    Missing(committed) \subseteq WillCover \cap resumeFromSegment .. (SegmentCount - 1)

\* The last frame of a recovery batch is on the display, or has just left it for
\* a manifest, and the camera has had every frame of the batch.
BatchWhole == phase = "recovery" /\ recoveryBatchRemaining = 0 /\ StillWhole

\* A batch caught whole commits its segment, unless the fingerprint set suppressed
\* a source frame whose block went with an evicted decoder (streaming-sender.ts).
BatchCommits == BatchWhole /\ ~deprived => recoveryTarget \in committed

\* A repair symbol of the recovery is one this sender session never showed
\* before: the receiver cannot have seen and rejected it (streaming-sender.ts).
RecoveryIsFresh ==
  [][phase = "recovery" /\ frame' # frame /\ frame'.symbol \in RepairIds
       => frame'.symbol \notin displayed[frame'.segment]]_vars

\* Recovery does what the pass could not: a batch caught whole leaves its segment
\* committed, whatever its decoder held, had refused or had lost to an eviction.
\* The fingerprint set answers for the frames it saw last and for no other, so it
\* keeps no new frame from the receiver; and the algebra of the recovery is always
\* new to the receiver.
RecoveryWorks ==
  /\ [](BatchCommits /\ ForgetsTheOldest)
  /\ RecoveryIsFresh
=============================================================================
