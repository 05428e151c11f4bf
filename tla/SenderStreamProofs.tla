------------------------- MODULE SenderStreamProofs -------------------------
(***************************************************************************)
(* One code on the screen, for any file, any interval of manifests, any     *)
(* number of failed reads and whatever order the screen, its scheduler, the *)
(* session in the main process and the disk take their turns in.           *)
(*                                                                         *)
(* What is shown is right because the buffer holds the segment it is taken  *)
(* to hold, or nobody will read it before it is filled again.  StreamInv    *)
(* says which of the two: MemoryInv of the buffer, CursorInv of the record  *)
(* of the window compressor, and PassInv and TailInv of what a read that    *)
(* failed leaves for the recovery that tries it again.  ScreenInv and       *)
(* WireInv say that there is one call at a time for this, and FramesInv     *)
(* carries what was produced to the screen.                                *)
(***************************************************************************)
EXTENDS SenderStream, TLAPS, SequenceTheorems, WellFoundedInduction

LEMMA LeastNatural ==
  ASSUME NEW S \in SUBSET Nat, S # {}
  PROVE  \E m \in S : \A x \in S : m <= x
<1> DEFINE R == {ss \in Nat \X Nat : ss[1] < ss[2]}
<1>1. IsWellFoundedOn(R, Nat)
  BY NatLessThanWellFounded DEF OpToRel
<1>2. PICK m \in S : \A x \in S : ~(<<x, m>> \in R)
  <2> HIDE DEF R
  <2> QED BY <1>1, WFMin
<1>3. \A x \in S : x \in Nat /\ m \in Nat /\ ~(x < m)
  BY <1>2
<1> QED BY <1>3

\* A list of starting points that adds up the lengths, as far as n records.
Adds(f, n) ==
  /\ f \in [1..(n + 1) -> Nat]
  /\ f[1] = 0
  /\ \A w \in 1..n : f[w + 1] = f[w] + RecordLength[w]

LEMMA LengthsAreNumbers ==
  /\ WindowCount \in Nat /\ WindowCount >= 1
  /\ \A w \in Windows : RecordLength[w] \in Nat /\ RecordLength[w] >= 1
BY RecordLengthAssumption DEF WindowCount, Windows

LEMMA StartsAdd == Adds(RecordStart, WindowCount)
<1> DEFINE Short == {n \in 0..WindowCount : ~ \E f : Adds(f, n)}
<1>1. Short = {}
  <2> SUFFICES ASSUME Short # {} PROVE FALSE
    OBVIOUS
  <2>1. Short \in SUBSET Nat
    BY LengthsAreNumbers
  <2>2. PICK m \in Short : \A x \in Short : m <= x
    <3> HIDE DEF Short
    <3> QED BY <2>1, LeastNatural
  <2>3. m # 0
    <3>1. Adds([w \in 1..1 |-> 0], 0)
      BY DEF Adds
    <3> QED BY <3>1
  <2>4. m - 1 \in 0..WindowCount /\ m - 1 \notin Short /\ m \in 1..WindowCount /\ m \in Windows
    BY <2>2, <2>3, LengthsAreNumbers DEF Windows
  <2>5. PICK f : Adds(f, m - 1)
    BY <2>4
  <2> DEFINE g == [w \in 1..(m + 1) |-> IF w = m + 1 THEN f[m] + RecordLength[m] ELSE f[w]]
  <2>6. (m - 1) + 1 = m /\ f \in [1..m -> Nat] /\ f[1] = 0
    BY <2>4, <2>5 DEF Adds
  <2>7. \A w \in 1..(m - 1) : f[w + 1] = f[w] + RecordLength[w]
    BY <2>5 DEF Adds
  <2>8. RecordLength[m] \in Nat
    BY <2>4, LengthsAreNumbers
  <2>9. Adds(g, m)
    <3>1. g \in [1..(m + 1) -> Nat]
      BY <2>4, <2>6, <2>8
    <3>2. g[1] = 0
      BY <2>4, <2>6
    <3>3. ASSUME NEW w \in 1..m PROVE g[w + 1] = g[w] + RecordLength[w]
      BY <2>4, <2>6, <2>7
    <3> QED BY <3>1, <3>2, <3>3 DEF Adds
  <2> QED BY <2>9
<1>2. PICK f : Adds(f, WindowCount)
  <2>1. WindowCount \in 0..WindowCount
    BY LengthsAreNumbers
  <2> QED BY <1>1, <2>1
<1>3. f = [w \in 1..(WindowCount + 1) |-> IF w = 1 THEN 0 ELSE f[w - 1] + RecordLength[w - 1]]
  <2>1. f \in [1..(WindowCount + 1) -> Nat] /\ f[1] = 0
    BY <1>2 DEF Adds
  <2>2. ASSUME NEW w \in 1..(WindowCount + 1), w # 1
        PROVE  f[w] = f[w - 1] + RecordLength[w - 1]
    <3>1. w - 1 \in 1..WindowCount /\ (w - 1) + 1 = w
      BY <2>2, LengthsAreNumbers
    <3>2. f[(w - 1) + 1] = f[w - 1] + RecordLength[w - 1]
      BY <1>2, <3>1 DEF Adds
    <3> QED BY <3>1, <3>2
  <2> QED BY <2>1, <2>2
<1>4. RecordStart = [w \in 1..(WindowCount + 1) |->
                       IF w = 1 THEN 0 ELSE RecordStart[w - 1] + RecordLength[w - 1]]
  <2> DEFINE P(h) == h = [w \in 1..(WindowCount + 1) |->
                            IF w = 1 THEN 0 ELSE h[w - 1] + RecordLength[w - 1]]
  <2>1. P(f)
    BY <1>3
  <2>2. RecordStart = CHOOSE h : P(h)
    BY DEF RecordStart
  <2> HIDE DEF P
  <2>3. P(RecordStart)
    BY <2>1, <2>2
  <2> QED BY <2>3 DEF P
<1>5. RecordStart[1] = 0
  BY <1>4, LengthsAreNumbers
<1>6. ASSUME NEW w \in 1..WindowCount
      PROVE  RecordStart[w + 1] = RecordStart[w] + RecordLength[w]
  <2>1. w + 1 \in 1..(WindowCount + 1) /\ w + 1 # 1 /\ (w + 1) - 1 = w
    BY LengthsAreNumbers
  <2> QED BY <1>4, <2>1
<1>7. RecordStart \in [1..(WindowCount + 1) -> Nat]
  <2> DEFINE Odd == {w \in 1..(WindowCount + 1) : RecordStart[w] \notin Nat}
  <2>1. Odd = {}
    <3> SUFFICES ASSUME Odd # {} PROVE FALSE
      OBVIOUS
    <3>1. Odd \in SUBSET Nat
      OBVIOUS
    <3>2. PICK m \in Odd : \A x \in Odd : m <= x
      <4> HIDE DEF Odd
      <4> QED BY <3>1, LeastNatural
    <3>3. m # 1
      BY <1>5
    <3>4. m - 1 \in 1..WindowCount /\ m - 1 \in Windows /\ (m - 1) + 1 = m /\ m - 1 \notin Odd
      BY <3>2, <3>3, LengthsAreNumbers DEF Windows
    <3>5. RecordStart[m - 1] \in Nat
      BY <3>4, LengthsAreNumbers
    <3>6. RecordStart[m] = RecordStart[m - 1] + RecordLength[m - 1]
      BY <1>6, <3>4
    <3> QED BY <3>4, <3>5, <3>6, LengthsAreNumbers
  <2>2. RecordStart = [w \in 1..(WindowCount + 1) |-> RecordStart[w]]
    BY <1>4
  <2> QED BY <2>1, <2>2
<1> QED BY <1>5, <1>6, <1>7 DEF Adds

\* Records are not empty: they begin after one another and within the stream.
LEMMA StartsAreOrdered ==
  /\ TransportSize \in Nat
  /\ \A w \in Windows :
       /\ RecordStart[w] \in Nat /\ RecordStart[w + 1] \in Nat
       /\ RecordStart[w + 1] = RecordStart[w] + RecordLength[w]
       /\ RecordStart[w + 1] <= TransportSize
       /\ w > 1 => RecordStart[w] > 0
  /\ RecordStart[1] = 0
<1>1. /\ RecordStart \in [1..(WindowCount + 1) -> Nat] /\ RecordStart[1] = 0
      /\ \A w \in 1..WindowCount : RecordStart[w + 1] = RecordStart[w] + RecordLength[w]
  BY StartsAdd DEF Adds
<1>2. TransportSize \in Nat
  BY <1>1, LengthsAreNumbers DEF TransportSize
<1>3. ASSUME NEW w \in Windows
      PROVE  /\ RecordStart[w] \in Nat /\ RecordStart[w + 1] \in Nat
             /\ RecordStart[w + 1] = RecordStart[w] + RecordLength[w]
  BY <1>1, LengthsAreNumbers DEF Windows
<1>4. ASSUME NEW w \in Windows, w > 1 PROVE RecordStart[w] > 0
  <2>1. w - 1 \in Windows /\ (w - 1) + 1 = w
    BY <1>4, LengthsAreNumbers DEF Windows
  <2> QED BY <1>3, <2>1, LengthsAreNumbers
<1>5. \A w \in Windows : RecordStart[w + 1] <= TransportSize
  <2> DEFINE Far == {n \in 0..(WindowCount - 1) :
                       ~(RecordStart[(WindowCount - n) + 1] <= TransportSize)}
  <2>1. Far = {}
    <3> SUFFICES ASSUME Far # {} PROVE FALSE
      OBVIOUS
    <3>1. Far \in SUBSET Nat
      OBVIOUS
    <3>2. PICK m \in Far : \A x \in Far : m <= x
      <4> HIDE DEF Far
      <4> QED BY <3>1, LeastNatural
    <3>3. m # 0
      BY <1>2, LengthsAreNumbers DEF TransportSize
    <3>4. m - 1 \in 0..(WindowCount - 1) /\ m - 1 \notin Far
      BY <3>2, <3>3, LengthsAreNumbers
    <3> DEFINE w == (WindowCount - m) + 1
    <3>5. w \in Windows /\ (WindowCount - (m - 1)) + 1 = w + 1
      BY <3>3, <3>4, LengthsAreNumbers DEF Windows
    <3>6. RecordStart[w + 1] <= TransportSize
      BY <3>4, <3>5
    <3>7. RecordStart[w] <= TransportSize
      BY <1>2, <1>3, <3>5, <3>6, LengthsAreNumbers
    <3> QED BY <3>7
  <2>2. ASSUME NEW w \in Windows PROVE RecordStart[w + 1] <= TransportSize
    <3>1. WindowCount - w \in 0..(WindowCount - 1) /\ (WindowCount - (WindowCount - w)) = w
      BY LengthsAreNumbers DEF Windows
    <3> QED BY <2>1, <3>1
  <2> QED BY <2>2
<1> QED BY <1>1, <1>2, <1>3, <1>4, <1>5

LEMMA ReduceIs ==
  ASSUME NEW s \in States
  PROVE  /\ Reduce(s, "HOLD") = IF s = "TRANSFERRING" THEN "HELD" ELSE s
         /\ Reduce(s, "RELEASE") = IF s = "HELD" THEN "TRANSFERRING" ELSE s
         /\ Reduce(s, "RECOVERY_REQUESTED") = IF s = "STREAM_COMPLETE" THEN "TRANSFERRING" ELSE s
         /\ Reduce(s, "STREAM_FINISHED") = IF s \in Mounted THEN "STREAM_COMPLETE" ELSE s
         /\ Reduce(s, "STREAM_FAILED") = IF s \in Mounted THEN "OVER" ELSE s
         /\ Reduce(s, "ENDED") = IF s = "OVER" THEN s ELSE "OVER"
<1>0. Transitions =
        {<<"TRANSFERRING", "HOLD", "HELD">>, <<"HELD", "RELEASE", "TRANSFERRING">>,
         <<"STREAM_COMPLETE", "RECOVERY_REQUESTED", "TRANSFERRING">>,
         <<"TRANSFERRING", "STREAM_FINISHED", "STREAM_COMPLETE">>,
         <<"HELD", "STREAM_FINISHED", "STREAM_COMPLETE">>,
         <<"TRANSFERRING", "STREAM_FAILED", "OVER">>, <<"HELD", "STREAM_FAILED", "OVER">>,
         <<"TRANSFERRING", "ENDED", "OVER">>, <<"HELD", "ENDED", "OVER">>,
         <<"STREAM_COMPLETE", "ENDED", "OVER">>}
  BY DEF Transitions, Mounted
<1>1. ASSUME NEW e, NEW to, <<s, e, to>> \in Transitions,
             \A t \in Transitions : t[1] = s /\ t[2] = e => t[3] = to
      PROVE  Reduce(s, e) = to
  <2>1. <<s, e, to>>[1] = s /\ <<s, e, to>>[2] = e
    OBVIOUS
  <2>2. \E t \in Transitions : t[1] = s /\ t[2] = e
    BY <1>1, <2>1
  <2> QED BY <1>1, <2>2 DEF Reduce
<1>2. ASSUME NEW e, \A t \in Transitions : ~(t[1] = s /\ t[2] = e)
      PROVE  Reduce(s, e) = s
  BY <1>2 DEF Reduce
<1>3. CASE s = "TRANSFERRING"
  <2>1. /\ <<s, "HOLD", "HELD">> \in Transitions
        /\ <<s, "STREAM_FINISHED", "STREAM_COMPLETE">> \in Transitions
        /\ <<s, "STREAM_FAILED", "OVER">> \in Transitions
        /\ <<s, "ENDED", "OVER">> \in Transitions
    BY <1>0, <1>3
  <2>2. \A t \in Transitions : t[1] = s =>
           \/ t[2] = "HOLD" /\ t[3] = "HELD"
           \/ t[2] = "STREAM_FINISHED" /\ t[3] = "STREAM_COMPLETE"
           \/ t[2] = "STREAM_FAILED" /\ t[3] = "OVER"
           \/ t[2] = "ENDED" /\ t[3] = "OVER"
    BY <1>0, <1>3
  <2>3. Reduce(s, "HOLD") = "HELD"
    BY <1>1, <2>1, <2>2
  <2>4. Reduce(s, "STREAM_FINISHED") = "STREAM_COMPLETE"
    BY <1>1, <2>1, <2>2
  <2>5. Reduce(s, "STREAM_FAILED") = "OVER"
    BY <1>1, <2>1, <2>2
  <2>6. Reduce(s, "ENDED") = "OVER"
    BY <1>1, <2>1, <2>2
  <2>7. Reduce(s, "RELEASE") = s /\ Reduce(s, "RECOVERY_REQUESTED") = s
    BY <1>2, <2>2
  <2> QED BY <1>3, <2>3, <2>4, <2>5, <2>6, <2>7 DEF Mounted
<1>4. CASE s = "HELD"
  <2>1. /\ <<s, "RELEASE", "TRANSFERRING">> \in Transitions
        /\ <<s, "STREAM_FINISHED", "STREAM_COMPLETE">> \in Transitions
        /\ <<s, "STREAM_FAILED", "OVER">> \in Transitions
        /\ <<s, "ENDED", "OVER">> \in Transitions
    BY <1>0, <1>4
  <2>2. \A t \in Transitions : t[1] = s =>
           \/ t[2] = "RELEASE" /\ t[3] = "TRANSFERRING"
           \/ t[2] = "STREAM_FINISHED" /\ t[3] = "STREAM_COMPLETE"
           \/ t[2] = "STREAM_FAILED" /\ t[3] = "OVER"
           \/ t[2] = "ENDED" /\ t[3] = "OVER"
    BY <1>0, <1>4
  <2>3. Reduce(s, "RELEASE") = "TRANSFERRING"
    BY <1>1, <2>1, <2>2
  <2>4. Reduce(s, "STREAM_FINISHED") = "STREAM_COMPLETE"
    BY <1>1, <2>1, <2>2
  <2>5. Reduce(s, "STREAM_FAILED") = "OVER"
    BY <1>1, <2>1, <2>2
  <2>6. Reduce(s, "ENDED") = "OVER"
    BY <1>1, <2>1, <2>2
  <2>7. Reduce(s, "HOLD") = s /\ Reduce(s, "RECOVERY_REQUESTED") = s
    BY <1>2, <2>2
  <2> QED BY <1>4, <2>3, <2>4, <2>5, <2>6, <2>7 DEF Mounted
<1>5. CASE s = "STREAM_COMPLETE"
  <2>1. /\ <<s, "RECOVERY_REQUESTED", "TRANSFERRING">> \in Transitions
        /\ <<s, "ENDED", "OVER">> \in Transitions
    BY <1>0, <1>5
  <2>2. \A t \in Transitions : t[1] = s =>
           \/ t[2] = "RECOVERY_REQUESTED" /\ t[3] = "TRANSFERRING"
           \/ t[2] = "ENDED" /\ t[3] = "OVER"
    BY <1>0, <1>5
  <2>3. Reduce(s, "RECOVERY_REQUESTED") = "TRANSFERRING"
    BY <1>1, <2>1, <2>2
  <2>4. Reduce(s, "ENDED") = "OVER"
    BY <1>1, <2>1, <2>2
  <2>5. /\ Reduce(s, "HOLD") = s /\ Reduce(s, "RELEASE") = s
        /\ Reduce(s, "STREAM_FINISHED") = s /\ Reduce(s, "STREAM_FAILED") = s
    BY <1>2, <2>2
  <2> QED BY <1>5, <2>3, <2>4, <2>5 DEF Mounted
<1>6. CASE s = "OVER"
  <2>1. \A t \in Transitions : t[1] # s
    BY <1>0, <1>6
  <2>2. \A e : Reduce(s, e) = s
    BY <1>2, <2>1
  <2> QED BY <1>6, <2>2 DEF Mounted
<1> QED BY <1>3, <1>4, <1>5, <1>6 DEF States, Mounted

(***************************************************************************)
(* The inductive invariant                                                 *)
(***************************************************************************)
\* One code is on the screen, and the queue holds no more than one batch of a
\* recovery, as they do of the shipped profiles: two thousand symbols to a segment,
\* unless it is the only one, and a queue of thirty-two.
OneCode == SingleCode /\ Capacity <= SymbolsForSegment

c  == call[1]
ln == lane[1]

Loading   == {"stat", "reading", "landed", "cover", "seek"}
Producing == Loading \cup {"advance", "emit", "replay"}
Serving   == Producing \cup {"fill"}

CallType ==
  [pc : Working \cup {"none", "take", "begin", "begun", "stat", "reading", "landed", "reply"},
   segment : Segments, next : {"emit", "replay"}, filled : 0..SymbolsPerSegment,
   window : Windows, recovering : BOOLEAN, frame : Frames \cup {"none", "error"}]

Shapes ==
  /\ call \in [Lane -> CallType]
  /\ compressed \in BOOLEAN
  /\ container \in [record : Seq(Int), index : Int, start : Int]

\* What the view, the machine and the scheduler know of each other.
ScreenInv ==
  /\ ln.stopped <=> shown \notin Mounted
  /\ ln.stopped => ln.ready = <<>>
  /\ shown = "OVER" => state = "OVER"
  /\ shown = "STREAM_COMPLETE" => c.pc = "none"
  /\ state = "STREAM_COMPLETE" => c.pc = "none" /\ (ln.finished \/ ln.stopped)
  /\ state = "OVER" => ln.stopped \/ (ln.finished /\ c.pc = "none")
  /\ ln.fetching <=> c.pc # "none"
  /\ ln.finished => c.pc = "none"
  /\ ln.fetching /\ ~ln.stopped => Len(ln.ready) < Prefetch
  /\ shown = "HELD" => ln.started /\ ~ln.running
  /\ state = "HELD" => shown = "HELD"
  /\ asked = "refused" => shown = "OVER"

\* What is on its way to the main process: at most the request the one
\* scheduler waits for, and a recovery only ahead of it.
WireInv ==
  /\ \A i \in DOMAIN toMain : toMain[i].kind \in {"take", "begin"} => toMain[i].kind = c.pc
  /\ \A i, j \in DOMAIN toMain :
       toMain[i].kind \in {"take", "begin"} /\ toMain[j].kind \in {"take", "begin"} => i = j
  /\ \A i \in DOMAIN toMain : toMain[i].kind = "recover" => c.pc \in {"none", "take"}
  /\ \A i, j \in DOMAIN toMain :
       toMain[i].kind = "recover" /\ toMain[j].kind \in {"take", "begin"} => i < j
  /\ \A i \in DOMAIN toMain : toMain[i].kind = "cancel" => shown = "OVER"
  /\ disposed => shown = "OVER"

\* A symbol of the pass, or of a batch, is being made.
Makes(next) == c.pc = next \/ (c.pc \in Loading /\ c.next = next)

\* Where the pass and the recovery are while a call makes a frame.
PassInv ==
  /\ c.pc \in Producing => Len(queue) < Capacity
  /\ Makes("emit") => c.segment = segment
  /\ c.pc = "advance" \/ Makes("emit") => phase = "pass"
  /\ Makes("replay") => phase = "recovery" /\ left >= 1 /\ c.segment = target
  /\ ~disposed /\ done => phase = "pass" /\ ~encoding /\ c.pc \notin Producing
  /\ ~disposed /\ c.pc \in {"reply", "begin"} /\ c.frame = "none" => done /\ queue = <<>>
  /\ c.pc = "begin" => c.frame = "none"
  /\ disposed => done /\ container.index = 0 /\ container.start = 0

\* The next segment to be read is the first, and nothing is taken to be loaded.
NextIsFirst ==
  /\ ~encoding /\ phase = "recovery"
  /\ (left = 0 /\ target = SegmentCount) \/ (left = SymbolsForSegment /\ target = 1)

\* The first batch is being made, and all of it made so far is in the queue.
FirstBatch ==
  /\ encoding /\ phase = "recovery"
  /\ loaded = 1 /\ target = 1 /\ left + Len(queue) >= SymbolsForSegment

\* The first take of a recovery tail, the only one that can fail without ending
\* the transfer, reads one segment: the first.
TailInv ==
  ~disposed =>
    /\ c.recovering => phase = "recovery"
    /\ c.pc = "begun" => NextIsFirst
    /\ c.recovering /\ c.pc = "take" => NextIsFirst
    /\ c.recovering /\ c.pc = "fill" => NextIsFirst \/ FirstBatch
    /\ c.recovering /\ c.pc \in Loading => NextIsFirst /\ left = SymbolsForSegment
    /\ c.recovering /\ c.pc = "replay" => FirstBatch

\* A read has failed and the transfer ends with it.
Doomed ==
  \/ c.pc = "reply" /\ c.frame = "error" /\ ~c.recovering
  \/ c.pc = "none" /\ state = "OVER"

\* What is taken to be loaded is in the buffer.
MemoryInv ==
  ~disposed =>
    /\ buffer \in [1..SymbolsPerSegment -> Int]
    /\ encoding /\ c.pc \notin Loading => Doomed \/ (loaded \in Segments /\ buffer = Bytes(loaded))
    /\ c.pc \in {"emit", "replay"} => encoding /\ loaded = c.segment
    /\ ~compressed => c.pc \notin {"cover", "seek"} /\ (c.pc = "landed" => buffer = Bytes(c.segment))
    /\ compressed /\ c.pc \in Loading => \A i \in 1..c.filled : buffer[i] = Bytes(c.segment)[i]
    /\ c.pc \in Loading => c.filled < SymbolsPerSegment

\* The record held is that of the window it is taken to be of, ...
CursorHolds ==
  \/ container.record = <<>>
  \/ /\ container.index \in Windows
     /\ container.record = Record(container.index)
     /\ container.start = RecordStart[container.index]

\* ... or that of the one before it: the cursor of a read that has failed.
CursorIsAhead ==
  /\ container.record # <<>> /\ container.index \in 2..WindowCount
  /\ container.start = RecordStart[container.index]

CursorInv ==
  compressed /\ ~disposed =>
    IF c.pc \in {"reading", "landed"}
    THEN /\ container.index = c.window
         /\ container.start = RecordStart[c.window] /\ container.start <= Wanted(1)
         /\ container.record = <<>> \/ c.window \in 2..WindowCount
         /\ c.pc = "landed" => scratch = c.window
    ELSE IF c.pc = "seek"
    THEN container.record # <<>> /\ CursorHolds /\ container.start <= Wanted(1)
    ELSE \/ CursorHolds \/ Doomed
         \/ CursorIsAhead /\ NextIsFirst /\ (c.pc \in Loading => c.segment = 1 /\ c.filled = 0)

FramesInv ==
  /\ canvas[1] # "wrong" /\ \A i \in DOMAIN ln.ready : ln.ready[i] # "wrong"
  /\ ~disposed => c.frame # "wrong" /\ \A i \in DOMAIN queue : queue[i] # "wrong"

StreamInv ==
  /\ TypeOK /\ Shapes /\ ScreenInv /\ WireInv
  /\ PassInv /\ TailInv /\ MemoryInv /\ CursorInv /\ FramesInv
-----------------------------------------------------------------------------

LEMMA Sizes ==
  /\ {SegmentCount, SymbolsPerSegment, ManifestInterval, Capacity, Prefetch} \subseteq Nat \ {0}
  /\ RepairPerSegment \in Nat /\ MaxFaults \in Nat
  /\ SymbolsForSegment \in Nat /\ SymbolsForSegment >= SymbolsPerSegment
  /\ 1 \in Segments /\ SegmentCount \in Segments
  /\ 1 \in Windows
<1>1. /\ {SegmentCount, SymbolsPerSegment, ManifestInterval, Capacity, Prefetch} \subseteq Nat \ {0}
      /\ RepairPerSegment \in Nat /\ MaxFaults \in Nat
  BY SenderAssumption
<1> QED BY <1>1, LengthsAreNumbers DEF SymbolsForSegment, Segments, Windows

LEMMA OneLane ==
  ASSUME SingleCode
  PROVE  Lane = {1}
BY DEF SingleCode, Lane

\* What a step of the one scheduler asks for.
LEMMA AsksOfOne ==
  ASSUME SingleCode, Shapes, NEW after
  PROVE  /\ after[1].fetching /\ ~ln.fetching =>
              /\ Asks(lane, after) = {1}
              /\ Calling(Asks(lane, after)) = [l \in Lane |-> [NoCall EXCEPT !.pc = "take"]]
              /\ Takes(Asks(lane, after)) = <<Request("take", 1)>>
         /\ ~(after[1].fetching /\ ~ln.fetching) =>
              /\ Asks(lane, after) = {}
              /\ Calling(Asks(lane, after)) = call
              /\ Takes(Asks(lane, after)) = <<>>
<1>1. CASE after[1].fetching /\ ~ln.fetching
  <2>1. Asks(lane, after) = {1}
    BY <1>1, OneLane DEF Asks, ln
  <2>2. Takes({1}) = <<Request("take", 1)>>
    <3>1. (CHOOSE l \in {1} : TRUE) = 1
      OBVIOUS
    <3> QED BY <3>1 DEF Takes
  <2> QED BY <1>1, <2>1, <2>2, OneLane DEF Calling
<1>2. CASE ~(after[1].fetching /\ ~ln.fetching)
  <2>1. Asks(lane, after) = {}
    BY <1>2, OneLane DEF Asks, ln
  <2>2. call = [l \in Lane |-> call[l]]
    BY DEF Shapes
  <2>3. Calling({}) = [l \in Lane |-> call[l]]
    BY DEF Calling
  <2> QED BY <1>2, <2>1, <2>2, <2>3 DEF Takes
<1> QED BY <1>1, <1>2

\* Nothing leaves for the main process.
LEMMA NothingSent ==
  ASSUME WireInv, toMain' = toMain, disposed' = disposed, shown = "OVER" => shown' = "OVER",
         c'.pc = c.pc \/ c.pc \notin {"none", "take", "begin"}
  PROVE  WireInv'
BY DEF WireInv

\* A request leaves and the scheduler waits for its answer.
LEMMA RequestSent ==
  ASSUME NEW kind \in {"take", "begin"}, TypeOK, WireInv,
         toMain' = Append(toMain, Request(kind, 1)), disposed' = disposed,
         shown = "OVER" => shown' = "OVER", c'.pc = kind,
         c.pc \notin {"take", "begin"}, kind = "begin" => c.pc # "none"
  PROVE  WireInv'
<1>1. /\ DOMAIN toMain' = 1..(Len(toMain) + 1) /\ DOMAIN toMain = 1..Len(toMain)
      /\ Len(toMain) \in Nat
      /\ toMain'[Len(toMain) + 1] = Request(kind, 1)
      /\ \A i \in DOMAIN toMain : toMain'[i] = toMain[i]
  BY DEF TypeOK
<1>2. Request(kind, 1).kind = kind
  BY DEF Request
<1>3. \A i \in DOMAIN toMain : toMain[i].kind \notin {"take", "begin"}
  BY DEF WireInv
<1>4. \A i \in DOMAIN toMain' : toMain'[i].kind \in {"take", "begin"} => i = Len(toMain) + 1
  BY <1>1, <1>3
<1>5. \A i \in DOMAIN toMain' : toMain'[i].kind = "recover" => i \in DOMAIN toMain
  BY <1>1, <1>2
<1>6. \A i \in DOMAIN toMain' : toMain'[i].kind = "cancel" => i \in DOMAIN toMain
  BY <1>1, <1>2
<1>7. \A i \in DOMAIN toMain : toMain[i].kind = "recover" => c'.pc = "take"
  BY DEF WireInv
<1> QED BY <1>1, <1>2, <1>4, <1>5, <1>6, <1>7 DEF WireInv

\* A recovery is asked for, or the session's end.
LEMMA OtherSent ==
  ASSUME NEW kind \in {"recover", "cancel"}, TypeOK, WireInv,
         toMain' = Append(toMain, Request(kind, 1)), disposed' = disposed,
         shown = "OVER" => shown' = "OVER", c'.pc = c.pc,
         kind = "recover" => c.pc = "none", kind = "cancel" => shown' = "OVER"
  PROVE  WireInv'
<1>1. /\ DOMAIN toMain' = 1..(Len(toMain) + 1) /\ DOMAIN toMain = 1..Len(toMain)
      /\ Len(toMain) \in Nat
      /\ toMain'[Len(toMain) + 1] = Request(kind, 1)
      /\ \A i \in DOMAIN toMain : toMain'[i] = toMain[i]
  BY DEF TypeOK
<1>2. Request(kind, 1).kind = kind
  BY DEF Request
<1>3. \A i \in DOMAIN toMain' : toMain'[i].kind \in {"take", "begin"} => i \in DOMAIN toMain
  BY <1>1, <1>2
<1>4. kind = "recover" => \A i \in DOMAIN toMain : toMain[i].kind \notin {"take", "begin"}
  BY DEF WireInv
<1>5. \A i \in DOMAIN toMain' : toMain'[i].kind \in {"recover", "cancel"} =>
         i \in DOMAIN toMain \/ toMain'[i].kind = kind
  BY <1>1, <1>2
<1> QED BY <1>1, <1>2, <1>3, <1>4, <1>5 DEF WireInv

\* The renderer gives a call up, or hands it over, and leaves the session alone.
LEMMA SessionKept ==
  ASSUME Shapes, PassInv, TailInv, MemoryInv, CursorInv,
         UNCHANGED <<session, compressed>>,
         \/ call' = call
         \/ /\ c.pc \notin Serving /\ c'.pc \in {"none", "take", "begin"}
            /\ c'.recovering => c.pc = "begun"
            /\ c'.pc = "begin" => c.pc = "reply" /\ c.frame = "none" /\ c'.frame = "none",
         Doomed => Doomed'
  PROVE  PassInv' /\ TailInv' /\ MemoryInv' /\ CursorInv'
<1>1. UNCHANGED <<queue, segment, cursor, phase, target, left, produced, done, buffer, loaded,
                  encoding, container, scratch, disposed, compressed>>
  BY DEF session, pass, memory, packing
<1>2. CASE call' = call
  <2>1. UNCHANGED <<c, Wanted(1)>>
    BY <1>2 DEF c, Wanted
  <2>2. PassInv'
    BY <1>1, <2>1 DEF PassInv, Makes
  <2>3. TailInv'
    BY <1>1, <2>1 DEF TailInv, NextIsFirst, FirstBatch
  <2>4. MemoryInv'
    BY <1>1, <2>1 DEF MemoryInv, Bytes
  <2>5. CursorInv'
    BY <1>1, <2>1 DEF CursorInv, CursorHolds, CursorIsAhead, NextIsFirst
  <2> QED BY <2>2, <2>3, <2>4, <2>5
<1>3. CASE call' # call
  <2>1. /\ c.pc \notin Serving /\ c'.pc \in {"none", "take", "begin"}
        /\ c'.recovering => c.pc = "begun"
        /\ c'.pc = "begin" => c.pc = "reply" /\ c.frame = "none" /\ c'.frame = "none"
    BY <1>3
  <2>2. c'.pc \notin Serving
    BY <2>1 DEF Serving, Producing, Loading
  <2>3. PassInv'
    BY <1>1, <2>1, <2>2 DEF PassInv, Makes, Serving, Producing, Loading
  <2>4. TailInv'
    BY <1>1, <2>1, <2>2 DEF TailInv, NextIsFirst, FirstBatch, Serving, Producing, Loading
  <2>5. MemoryInv'
    BY <1>1, <2>1, <2>2 DEF MemoryInv, Bytes, Serving, Producing, Loading
  <2>6. CursorInv'
    BY <1>1, <2>1, <2>2 DEF CursorInv, CursorHolds, CursorIsAhead, NextIsFirst,
                            Serving, Producing, Loading
  <2> QED BY <2>3, <2>4, <2>5, <2>6
<1> QED BY <1>2, <1>3

\* The main process works on the call, and the renderer waits.
LEMMA RendererKept ==
  ASSUME ScreenInv, WireInv, FramesInv, UNCHANGED <<Renderer, toMain, disposed>>,
         c.pc \in Serving, c'.pc \in Serving \cup {"reply"}
  PROVE  ScreenInv' /\ WireInv'
<1>1. UNCHANGED <<state, shown, lane, canvas, tail, asked, toMain, disposed>>
  BY DEF Renderer, screen
<1>2. UNCHANGED ln
  BY <1>1 DEF ln
<1>3. c.pc \notin {"none", "take", "begin"} /\ c'.pc \notin {"none", "take", "begin"}
  BY DEF Serving, Producing, Loading
<1>4. ScreenInv'
  BY <1>1, <1>2, <1>3 DEF ScreenInv
<1>5. WireInv'
  BY <1>1, <1>3, NothingSent
<1> QED BY <1>4, <1>5

(***************************************************************************)
(* The screen                                                              *)
(***************************************************************************)
LaneType ==
  [started : BOOLEAN, running : BOOLEAN, stopped : BOOLEAN, finished : BOOLEAN,
   fetching : BOOLEAN, armed : BOOLEAN, painting : BOOLEAN, ready : Seq(Frames)]

LEMMA LaneHasType ==
  ASSUME SingleCode, TypeOK
  PROVE  ln \in LaneType
BY OneLane DEF TypeOK, ln, LaneType

\* What the renderer does to its scheduler when it leaves the session alone.
LEMMA TypesKept ==
  ASSUME SingleCode, TypeOK, Shapes,
         UNCHANGED <<session, compressed, faults>>,
         state' \in States, shown' \in States,
         lane' \in [Lane -> LaneType], Len(ln'.ready) <= Prefetch,
         canvas' \in [Lane -> Frames \cup {"none"}],
         tail' \in [started : BOOLEAN, reported : BOOLEAN],
         asked' \in {"no", "sent", "begun", "refused"},
         toMain' \in Seq([kind : {"take", "begin", "recover", "cancel"}, lane : Lane]),
         call' \in [Lane -> CallType]
  PROVE  TypeOK' /\ Shapes'
<1>1. UNCHANGED <<queue, segment, cursor, phase, target, left, produced, done, buffer, loaded,
                  encoding, container, scratch, disposed, compressed, faults>>
  BY DEF session, pass, memory, packing
<1>2. Shapes'
  BY <1>1 DEF Shapes
<1>3. \A l \in Lane :
        /\ call'[l].pc \in Working \cup {"none", "take", "begin", "begun", "stat", "reading", "landed", "reply"}
        /\ call'[l].segment \in Segments /\ call'[l].window \in Windows
        /\ call'[l].filled \in 0..SymbolsPerSegment
        /\ call'[l].frame \in Frames \cup {"none", "error"}
  BY DEF CallType
<1>4. \A l \in Lane : Len(lane'[l].ready) <= Prefetch
  BY OneLane DEF ln
<1>5. TypeOK'
  BY <1>1, <1>3, <1>4 DEF TypeOK, LaneType
<1> QED BY <1>2, <1>5

LEMMA NewCallType ==
  /\ NoCall \in CallType
  /\ [NoCall EXCEPT !.pc = "take"] \in CallType
<1>1. 0 \in 0..SymbolsPerSegment
  BY Sizes
<1>2. NoCall \in CallType
  BY <1>1, Sizes DEF NoCall, CallType
<1> QED BY <1>2 DEF CallType

LEMMA RequestType ==
  ASSUME SingleCode, NEW kind \in {"take", "begin", "recover", "cancel"}
  PROVE  Request(kind, 1) \in [kind : {"take", "begin", "recover", "cancel"}, lane : Lane]
BY OneLane DEF Request

\* What the scheduler becomes when the screen that is shown changes.
LEMMA EffectsOnLane ==
  ASSUME SingleCode, StreamInv, NEW to \in States, Effects(shown, to)
  PROVE  /\ shown' = to
         /\ \/ /\ shown \in Mounted /\ to \notin Mounted
               /\ ln' = Stopped(ln)
            \/ /\ shown = "TRANSFERRING" /\ to = "HELD" /\ ln.started
               /\ ln' = Paused(ln)
            \/ /\ shown = "HELD" /\ to = "TRANSFERRING"
               /\ ln' = IF ln.stopped \/ ln.finished \/ ln.running
                        THEN ln ELSE Fetching(Running(ln))
            \/ /\ shown = "STREAM_COMPLETE" /\ to = "TRANSFERRING"
               /\ ln' = NewLane
            \/ /\ ln' = ln
               /\ shown = to \/ (shown \notin Mounted /\ to # "TRANSFERRING") \/ shown = "OVER"
         /\ lane' = [l \in Lane |-> ln']
         /\ ln'.fetching /\ ~ln.fetching =>
              /\ call' = [l \in Lane |-> [NoCall EXCEPT !.pc = "take"]]
              /\ toMain' = Append(toMain, Request("take", 1))
         /\ ~(ln'.fetching /\ ~ln.fetching) =>
              /\ call' = call
              /\ toMain' = IF Releases(shown, to) THEN Append(toMain, Request("cancel", 1)) ELSE toMain
         /\ tail' \in {tail, [started |-> FALSE, reported |-> FALSE]}
<1> DEFINE after == [l \in Lane |->
           CASE shown \in Mounted /\ to \notin Mounted -> Stopped(lane[l])
             [] shown = "TRANSFERRING" /\ to = "HELD"  -> Suspended(lane[l])
             [] shown = "HELD" /\ to = "TRANSFERRING" ->
                  IF lane[l].stopped \/ lane[l].finished \/ lane[l].running
                  THEN lane[l] ELSE Fetching(Running(lane[l]))
             [] shown = "STREAM_COMPLETE" /\ to = "TRANSFERRING" -> NewLane
             [] OTHER -> lane[l]]
           asks == Asks(lane, after)
<1>1. /\ Settled /\ lane' = after /\ shown' = to
      /\ call' = Calling(asks)
      /\ toMain' = toMain \o Takes(asks)
                     \o (IF Releases(shown, to) THEN <<Request("cancel", 1)>> ELSE <<>>)
      /\ tail' \in {tail, [started |-> FALSE, reported |-> FALSE]}
  BY DEF Effects
<1>2. ln' = after[1] /\ 1 \in Lane /\ Lane = {1}
  BY <1>1, OneLane DEF ln
<1>3. shown \in States
  BY DEF StreamInv, TypeOK
<1>4. \/ /\ shown \in Mounted /\ to \notin Mounted
         /\ ln' = Stopped(ln)
      \/ /\ shown = "TRANSFERRING" /\ to = "HELD" /\ ln.started
         /\ ln' = Paused(ln)
      \/ /\ shown = "HELD" /\ to = "TRANSFERRING"
         /\ ln' = IF ln.stopped \/ ln.finished \/ ln.running
                  THEN ln ELSE Fetching(Running(ln))
      \/ /\ shown = "STREAM_COMPLETE" /\ to = "TRANSFERRING"
         /\ ln' = NewLane
      \/ /\ ln' = ln
         /\ shown = to \/ (shown \notin Mounted /\ to # "TRANSFERRING") \/ shown = "OVER"
  <2>1. shown = "TRANSFERRING" => ln.started
    BY <1>1 DEF Settled, Mounted, ln
  <2> QED BY <1>2, <1>3, <2>1 DEF ln, Mounted, States, Suspended
<1>5. lane' = [l \in Lane |-> ln']
  BY <1>1, <1>2
<1>6. toMain \in Seq([kind : {"take", "begin", "recover", "cancel"}, lane : Lane])
  BY DEF StreamInv, TypeOK
<1>7. ASSUME ln'.fetching, ~ln.fetching
      PROVE  /\ call' = [l \in Lane |-> [NoCall EXCEPT !.pc = "take"]]
             /\ toMain' = Append(toMain, Request("take", 1))
  <2>1. after[1].fetching
    BY <1>2, <1>7
  <2>2. /\ Calling(asks) = [l \in Lane |-> [NoCall EXCEPT !.pc = "take"]]
        /\ Takes(asks) = <<Request("take", 1)>>
    <3> HIDE DEF after
    <3> QED BY <1>7, <2>1, AsksOfOne DEF StreamInv
  <2>3. ~Releases(shown, to)
    <3>1. Stopped(ln).fetching = ln.fetching
      BY LaneHasType DEF StreamInv, Stopped, LaneType
    <3> QED BY <1>4, <1>7, <1>3, <3>1 DEF Releases, Clears, Mounted, States
  <2>4. toMain \o <<Request("take", 1)>> \o <<>> = Append(toMain, Request("take", 1))
    BY <1>6, RequestType, ConcatProperties, AppendProperties
  <2> QED BY <1>1, <2>2, <2>3, <2>4
<1>8. ASSUME ~(ln'.fetching /\ ~ln.fetching)
      PROVE  /\ call' = call
             /\ toMain' = IF Releases(shown, to) THEN Append(toMain, Request("cancel", 1)) ELSE toMain
  <2>1. ~(after[1].fetching /\ ~ln.fetching)
    BY <1>2, <1>8
  <2>2. Calling(asks) = call /\ Takes(asks) = <<>>
    <3> HIDE DEF after
    <3> QED BY <2>1, AsksOfOne DEF StreamInv
  <2>3. /\ toMain \o <<>> \o <<>> = toMain
        /\ toMain \o <<>> \o <<Request("cancel", 1)>> = Append(toMain, Request("cancel", 1))
    BY <1>6, RequestType
  <2> QED BY <1>1, <2>2, <2>3
<1> QED BY <1>1, <1>4, <1>5, <1>7, <1>8

\* A change of what the screen shows, tapped or committed.
LEMMA EffectsKeep ==
  ASSUME OneCode, StreamInv, NEW to \in States, Effects(shown, to), state' = to,
         UNCHANGED <<canvas, asked, session, compressed, faults>>,
         shown = "OVER" => to = "OVER", state = "OVER" => to = "OVER",
         to = "HELD" => shown \in {"TRANSFERRING", "HELD"},
         to = "STREAM_COMPLETE" => state = "STREAM_COMPLETE",
         shown = "STREAM_COMPLETE" => to # "STREAM_COMPLETE" \/ state' = state
  PROVE  StreamInv'
<1>0. SingleCode /\ TypeOK /\ Shapes /\ ScreenInv /\ WireInv /\ PassInv
      /\ TailInv /\ MemoryInv /\ CursorInv /\ FramesInv
  BY DEF OneCode, StreamInv
<1>1. /\ shown' = to
      /\ \/ /\ shown \in Mounted /\ to \notin Mounted
            /\ ln' = Stopped(ln)
         \/ /\ shown = "TRANSFERRING" /\ to = "HELD" /\ ln.started
            /\ ln' = Paused(ln)
         \/ /\ shown = "HELD" /\ to = "TRANSFERRING"
            /\ ln' = IF ln.stopped \/ ln.finished \/ ln.running
                     THEN ln ELSE Fetching(Running(ln))
         \/ /\ shown = "STREAM_COMPLETE" /\ to = "TRANSFERRING"
            /\ ln' = NewLane
         \/ /\ ln' = ln
            /\ shown = to \/ (shown \notin Mounted /\ to # "TRANSFERRING") \/ shown = "OVER"
      /\ lane' = [l \in Lane |-> ln']
      /\ ln'.fetching /\ ~ln.fetching =>
           /\ call' = [l \in Lane |-> [NoCall EXCEPT !.pc = "take"]]
           /\ toMain' = Append(toMain, Request("take", 1))
      /\ ~(ln'.fetching /\ ~ln.fetching) =>
           /\ call' = call
           /\ toMain' = IF Releases(shown, to) THEN Append(toMain, Request("cancel", 1)) ELSE toMain
      /\ tail' \in {tail, [started |-> FALSE, reported |-> FALSE]}
  BY <1>0, EffectsOnLane
<1>2. ln \in LaneType /\ shown \in States /\ state \in States /\ 1 \in Lane
  BY <1>0, LaneHasType, OneLane DEF TypeOK
<1>3. ln' \in LaneType
  <2>1. Stopped(ln) \in LaneType /\ Paused(ln) \in LaneType /\ NewLane \in LaneType
    <3>1. <<>> \in Seq(Frames)
      OBVIOUS
    <3>2. NewLane \in LaneType
      BY <3>1 DEF LaneType, NewLane
    <3> QED BY <1>2, <3>1, <3>2 DEF LaneType, Stopped, Paused
  <2>2. Fetching(Running(ln)) \in LaneType
    BY <1>2 DEF LaneType, Fetching, Running
  <2> QED BY <1>1, <1>2, <2>1, <2>2
<1>4. /\ Stopped(ln).stopped /\ Stopped(ln).ready = <<>> /\ Stopped(ln).finished = ln.finished
      /\ Stopped(ln).fetching = ln.fetching
      /\ Paused(ln).stopped = ln.stopped /\ Paused(ln).ready = ln.ready
      /\ Paused(ln).finished = ln.finished /\ Paused(ln).fetching = ln.fetching
      /\ Paused(ln).started = ln.started /\ ~Paused(ln).running
      /\ NewLane.stopped = FALSE /\ NewLane.ready = <<>> /\ ~NewLane.finished /\ ~NewLane.fetching
  BY <1>2 DEF LaneType, Stopped, Paused, NewLane
<1>5. /\ Fetching(Running(ln)).stopped = ln.stopped /\ Fetching(Running(ln)).ready = ln.ready
      /\ Fetching(Running(ln)).finished = ln.finished
      /\ ~ln.fetching /\ Fetching(Running(ln)).fetching =>
           ~ln.stopped /\ ~ln.finished /\ Len(ln.ready) < Prefetch
      /\ ln.fetching => Fetching(Running(ln)).fetching
  BY <1>2 DEF LaneType, Fetching, Running, Wants
<1>6. ~ln.fetching <=> c.pc = "none"
  BY <1>0 DEF ScreenInv
<1>7. c \in CallType
  BY <1>0, <1>2 DEF Shapes, c
<1>8. /\ ln'.fetching /\ ~ln.fetching =>
           /\ c.pc = "none" /\ c' = [NoCall EXCEPT !.pc = "take"]
           /\ shown = "HELD" /\ to = "TRANSFERRING"
      /\ ~(ln'.fetching /\ ~ln.fetching) => c' = c
  BY <1>1, <1>2, <1>4, <1>5, <1>6 DEF c
<1>9. /\ [NoCall EXCEPT !.pc = "take"].pc = "take"
      /\ [NoCall EXCEPT !.pc = "take"].recovering = FALSE
      /\ [NoCall EXCEPT !.pc = "take"].frame = "none"
  BY DEF NoCall
<1>10. ScreenInv'
  <2>1. c'.pc = "none" => c.pc = "none"
    BY <1>8, <1>9
  <2>2. c'.pc # "none" /\ c.pc = "none" => shown = "HELD" /\ to = "TRANSFERRING"
    BY <1>8, <1>9
  <2>3. CASE shown \in Mounted /\ to \notin Mounted /\ ln' = Stopped(ln)
    <3>1. c' = c /\ ln'.stopped /\ ln'.ready = <<>> /\ ln'.fetching = ln.fetching /\ ln'.finished = ln.finished
      BY <1>4, <1>8, <2>3
    <3> QED BY <1>0, <1>1, <2>3, <3>1 DEF ScreenInv, Mounted, States
  <2>4. CASE shown = "TRANSFERRING" /\ to = "HELD" /\ ln.started /\ ln' = Paused(ln)
    <3>1. c' = c
      BY <1>4, <1>8, <2>4
    <3> QED BY <1>0, <1>1, <1>4, <2>4, <3>1 DEF ScreenInv, Mounted
  <2>5. CASE /\ shown = "HELD" /\ to = "TRANSFERRING"
             /\ ln' = IF ln.stopped \/ ln.finished \/ ln.running
                      THEN ln ELSE Fetching(Running(ln))
    <3>1. /\ ln'.stopped = ln.stopped /\ ln'.ready = ln.ready /\ ln'.finished = ln.finished
          /\ ln.fetching => ln'.fetching
          /\ ~ln.fetching /\ ln'.fetching => ~ln.stopped /\ ~ln.finished /\ Len(ln.ready) < Prefetch
      BY <1>5, <2>5
    <3>2. ln'.fetching <=> c'.pc # "none"
      BY <1>6, <1>8, <1>9, <3>1
    <3> QED BY <1>0, <1>1, <1>8, <1>9, <2>5, <3>1, <3>2 DEF ScreenInv, Mounted
  <2>6. CASE shown = "STREAM_COMPLETE" /\ to = "TRANSFERRING" /\ ln' = NewLane
    <3>1. c' = c /\ c.pc = "none"
      BY <1>0, <1>4, <1>8, <2>6 DEF ScreenInv
    <3> QED BY <1>0, <1>1, <1>4, <2>6, <3>1 DEF ScreenInv, Mounted
  <2>7. CASE /\ ln' = ln
             /\ shown = to \/ (shown \notin Mounted /\ to # "TRANSFERRING") \/ shown = "OVER"
    <3>1. c' = c
      BY <1>8, <2>7
    <3> QED BY <1>0, <1>1, <1>2, <2>7, <3>1 DEF ScreenInv, Mounted, States
  <2> QED BY <1>1, <2>3, <2>4, <2>5, <2>6, <2>7
<1>11. WireInv'
  <2>1. disposed' = disposed
    BY DEF session
  <2>2. CASE ln'.fetching /\ ~ln.fetching
    BY <1>0, <1>1, <1>6, <1>8, <1>9, <2>1, <2>2, RequestSent
  <2>3. CASE ~(ln'.fetching /\ ~ln.fetching) /\ Releases(shown, to)
    <3>1. to = "OVER"
      BY <2>3 DEF Releases, Clears
    <3> QED BY <1>0, <1>1, <1>8, <2>1, <2>3, <3>1, OtherSent
  <2>4. CASE ~(ln'.fetching /\ ~ln.fetching) /\ ~Releases(shown, to)
    BY <1>0, <1>1, <1>8, <2>1, <2>4, NothingSent
  <2> QED BY <2>2, <2>3, <2>4
<1>12. PassInv' /\ TailInv' /\ MemoryInv' /\ CursorInv'
  <2>1. UNCHANGED <<session, compressed>>
    OBVIOUS
  <2>2. Doomed => Doomed'
    <3>1. CASE c' = c
      BY <3>1 DEF Doomed
    <3>2. CASE ~(c' = c)
      <4>1. c.pc = "none" /\ state # "OVER"
        <5>1. c.pc = "none" /\ shown = "HELD" /\ ~ln.finished /\ ~ln.stopped
          BY <1>0, <1>1, <1>2, <1>5, <1>8, <3>2 DEF ScreenInv, Mounted
        <5> QED BY <1>0, <5>1 DEF ScreenInv
      <4> QED BY <4>1 DEF Doomed
    <3> QED BY <3>1, <3>2
  <2>3. \/ call' = call
        \/ /\ c.pc \notin Serving /\ c'.pc \in {"none", "take", "begin"}
           /\ c'.recovering => c.pc = "begun"
           /\ c'.pc = "begin" => c.pc = "reply" /\ c.frame = "none" /\ c'.frame = "none"
    BY <1>1, <1>8, <1>9 DEF Serving, Producing, Loading
  <2> QED BY <1>0, <2>1, <2>2, <2>3, SessionKept
<1>13. FramesInv'
  <2>1. UNCHANGED <<queue, disposed, canvas>>
    BY DEF session
  <2>2. ln'.ready = ln.ready \/ ln'.ready = <<>>
    BY <1>1, <1>4, <1>5
  <2>3. c'.frame = c.frame \/ c'.frame = "none"
    BY <1>8, <1>9
  <2> QED BY <1>0, <2>1, <2>2, <2>3 DEF FramesInv
<1>14. TypeOK' /\ Shapes'
  <2>1. lane' \in [Lane -> LaneType]
    BY <1>1, <1>3
  <2>2. Len(ln'.ready) <= Prefetch
    <3>1. ln'.ready = ln.ready \/ ln'.ready = <<>>
      BY <1>1, <1>4, <1>5
    <3>2. Len(ln.ready) <= Prefetch /\ Prefetch \in Nat
      BY <1>0, <1>2, Sizes DEF TypeOK, ln
    <3> QED BY <3>1, <3>2
  <2>3. call' \in [Lane -> CallType]
    BY <1>0, <1>1, NewCallType DEF Shapes
  <2>4. toMain' \in Seq([kind : {"take", "begin", "recover", "cancel"}, lane : Lane])
    <3>1. toMain \in Seq([kind : {"take", "begin", "recover", "cancel"}, lane : Lane])
      BY <1>0 DEF TypeOK
    <3> DEFINE R == [kind : {"take", "begin", "recover", "cancel"}, lane : Lane]
    <3>2. Request("take", 1) \in R /\ Request("cancel", 1) \in R
      BY <1>0, RequestType
    <3> HIDE DEF R
    <3>3. Append(toMain, Request("take", 1)) \in Seq(R) /\ Append(toMain, Request("cancel", 1)) \in Seq(R)
      BY <3>1, <3>2, AppendProperties DEF R
    <3>4. toMain' \in {toMain, Append(toMain, Request("take", 1)), Append(toMain, Request("cancel", 1))}
      BY <1>1
    <3> QED BY <3>1, <3>3, <3>4 DEF R
  <2>5. /\ canvas' \in [Lane -> Frames \cup {"none"}]
        /\ tail' \in [started : BOOLEAN, reported : BOOLEAN]
        /\ asked' \in {"no", "sent", "begun", "refused"}
    <3>1. tail \in [started : BOOLEAN, reported : BOOLEAN]
      BY <1>0 DEF TypeOK
    <3>2. [started |-> FALSE, reported |-> FALSE] \in [started : BOOLEAN, reported : BOOLEAN]
      OBVIOUS
    <3>3. tail' = tail \/ tail' = [started |-> FALSE, reported |-> FALSE]
      BY <1>1
    <3>4. /\ canvas' \in [Lane -> Frames \cup {"none"}]
          /\ asked' \in {"no", "sent", "begun", "refused"}
      BY <1>0 DEF TypeOK
    <3> QED BY <3>1, <3>2, <3>3, <3>4
  <2> QED BY <1>0, <1>1, <2>1, <2>2, <2>3, <2>4, <2>5, TypesKept
<1> QED BY <1>10, <1>11, <1>12, <1>13, <1>14 DEF StreamInv

LEMMA TapKeeps ==
  ASSUME OneCode, StreamInv, TapHold \/ TapRelease \/ TapEnd
  PROVE  StreamInv'
<1>0. state \in States /\ shown \in States /\ ScreenInv
  BY DEF StreamInv, TypeOK
<1>1. CASE TapHold
  <2>1. /\ shown = "TRANSFERRING" /\ state' = Reduce(state, "HOLD")
        /\ Effects(shown, state') /\ UNCHANGED <<canvas, asked, session, compressed, faults>>
    BY <1>1 DEF TapHold, Tap
  <2>2. state' = IF state = "TRANSFERRING" THEN "HELD" ELSE state
    BY <1>0, <2>1, ReduceIs
  <2>3. state # "HELD"
    BY <1>0, <2>1 DEF ScreenInv
  <2> DEFINE to == IF state = "TRANSFERRING" THEN "HELD" ELSE state
  <2>4. to \in States
    BY <1>0 DEF States, Mounted
  <2>5. state' = to /\ Effects(shown, to)
    BY <2>1, <2>2
  <2>6. /\ shown = "OVER" => to = "OVER"
        /\ state = "OVER" => to = "OVER"
        /\ to = "STREAM_COMPLETE" => state = "STREAM_COMPLETE"
    BY <2>1
  <2> HIDE DEF to
  <2> QED BY <2>1, <2>4, <2>5, <2>6, EffectsKeep
<1>2. CASE TapRelease
  <2>1. /\ shown = "HELD" /\ state' = Reduce(state, "RELEASE")
        /\ Effects(shown, state') /\ UNCHANGED <<canvas, asked, session, compressed, faults>>
    BY <1>2 DEF TapRelease, Tap
  <2> DEFINE to == IF state = "HELD" THEN "TRANSFERRING" ELSE state
  <2>2. state' = to
    BY <1>0, <2>1, ReduceIs
  <2>4. to \in States
    BY <1>0 DEF States, Mounted
  <2>5. Effects(shown, to)
    BY <2>1, <2>2
  <2>6. /\ shown = "OVER" => to = "OVER"
        /\ state = "OVER" => to = "OVER"
        /\ to = "STREAM_COMPLETE" => state = "STREAM_COMPLETE"
    BY <2>1
  <2> HIDE DEF to
  <2> QED BY <2>1, <2>2, <2>4, <2>5, <2>6, EffectsKeep
<1>3. CASE TapEnd
  <2>1. /\ state' = Reduce(state, "ENDED")
        /\ Effects(shown, state') /\ UNCHANGED <<canvas, asked, session, compressed, faults>>
    BY <1>3 DEF TapEnd, Tap
  <2>2. state' = "OVER"
    BY <1>0, <2>1, ReduceIs
  <2>3. "OVER" \in States
    BY DEF States
  <2>4. Effects(shown, "OVER")
    BY <2>1, <2>2
  <2> QED BY <2>1, <2>2, <2>3, <2>4, EffectsKeep
<1> QED BY <1>1, <1>2, <1>3

LEMMA CommitKeeps ==
  ASSUME OneCode, StreamInv, Commit
  PROVE  StreamInv'
<1>0. state \in States /\ shown \in States /\ ScreenInv
  BY DEF StreamInv, TypeOK
<1>1. /\ shown # state /\ Effects(shown, state) /\ state' = state
      /\ UNCHANGED <<canvas, asked, session, compressed, faults>>
  BY DEF Commit
<1>2. /\ shown = "OVER" => state = "OVER"
      /\ state = "HELD" => shown = "HELD"
  BY <1>0 DEF ScreenInv
<1> QED BY <1>0, <1>1, <1>2, EffectsKeep

\* A step of the renderer: what has to be shown of it.
LEMMA FromRenderer ==
  ASSUME OneCode, StreamInv, UNCHANGED <<session, compressed, faults>>,
         state' \in States, shown' \in States,
         lane' \in [Lane -> LaneType], Len(ln'.ready) <= Prefetch,
         canvas' \in [Lane -> Frames \cup {"none"}],
         tail' \in [started : BOOLEAN, reported : BOOLEAN],
         asked' \in {"no", "sent", "begun", "refused"},
         \/ toMain' = toMain
         \/ \E kind \in {"take", "begin", "recover", "cancel"} :
              toMain' = Append(toMain, Request(kind, 1)),
         call' \in [Lane -> CallType],
         \/ call' = call
         \/ /\ c.pc \notin Serving /\ c'.pc \in {"none", "take", "begin"}
            /\ c'.recovering => c.pc = "begun"
            /\ c'.pc = "begin" => c.pc = "reply" /\ c.frame = "none" /\ c'.frame = "none",
         c'.frame \in {c.frame, "none"}, Doomed => Doomed',
         canvas'[1] # "wrong", \A i \in DOMAIN ln'.ready : ln'.ready[i] # "wrong",
         ScreenInv', WireInv'
  PROVE  StreamInv'
<1>1. SingleCode /\ TypeOK /\ Shapes
  BY DEF OneCode, StreamInv
<1> DEFINE R == [kind : {"take", "begin", "recover", "cancel"}, lane : Lane]
<1>2. toMain' \in Seq(R)
  <2>1. toMain \in Seq(R)
    BY <1>1 DEF TypeOK
  <2>2. \A kind \in {"take", "begin", "recover", "cancel"} : Request(kind, 1) \in R
    BY <1>1, RequestType
  <2>3. \A kind \in {"take", "begin", "recover", "cancel"} : Append(toMain, Request(kind, 1)) \in Seq(R)
    <3> HIDE DEF R
    <3> QED BY <2>1, <2>2, AppendProperties
  <2> QED BY <2>1, <2>3
<1>3. TypeOK' /\ Shapes'
  BY <1>1, <1>2, TypesKept
<1>4. PassInv' /\ TailInv' /\ MemoryInv' /\ CursorInv'
  BY SessionKept DEF StreamInv
<1>5. FramesInv'
  <2>1. UNCHANGED <<queue, disposed>>
    BY DEF session
  <2>2. FramesInv
    BY DEF StreamInv
  <2> QED BY <2>1, <2>2 DEF FramesInv
<1> QED BY <1>3, <1>4, <1>5 DEF StreamInv

\* What every proof about a step of the renderer needs.
LEMMA AtTheRenderer ==
  ASSUME OneCode, StreamInv
  PROVE  /\ SingleCode /\ Lane = {1}
         /\ state \in States /\ shown \in States
         /\ lane \in [Lane -> LaneType] /\ lane = [l \in Lane |-> ln] /\ ln \in LaneType
         /\ Len(ln.ready) <= Prefetch /\ ln.ready \in Seq(Frames)
         /\ canvas \in [Lane -> Frames \cup {"none"}]
         /\ tail \in [started : BOOLEAN, reported : BOOLEAN]
         /\ asked \in {"no", "sent", "begun", "refused"}
         /\ call \in [Lane -> CallType] /\ c \in CallType /\ call = [l \in Lane |-> c]
         /\ ScreenInv /\ WireInv /\ TypeOK /\ Shapes
         /\ canvas[1] # "wrong" /\ \A i \in DOMAIN ln.ready : ln.ready[i] # "wrong"
<1>1. SingleCode /\ TypeOK /\ Shapes /\ ScreenInv /\ WireInv /\ FramesInv
  BY DEF OneCode, StreamInv
<1>2. Lane = {1}
  BY <1>1, OneLane
<1>3. lane \in [Lane -> LaneType]
  BY <1>1 DEF TypeOK, LaneType
<1>4. lane = [l \in Lane |-> ln] /\ ln \in LaneType
  BY <1>2, <1>3 DEF ln
<1>5. Len(ln.ready) <= Prefetch
  BY <1>1, <1>2 DEF TypeOK, ln
<1>6. ln.ready \in Seq(Frames)
  BY <1>4 DEF LaneType
<1>7. call \in [Lane -> CallType] /\ c \in CallType /\ call = [l \in Lane |-> c]
  BY <1>1, <1>2 DEF Shapes, c
<1>8. /\ state \in States /\ shown \in States
      /\ canvas \in [Lane -> Frames \cup {"none"}]
      /\ tail \in [started : BOOLEAN, reported : BOOLEAN]
      /\ asked \in {"no", "sent", "begun", "refused"}
  BY <1>1 DEF TypeOK
<1>9. canvas[1] # "wrong" /\ \A i \in DOMAIN ln.ready : ln.ready[i] # "wrong"
  BY <1>1 DEF FramesInv
<1> QED BY <1>1, <1>2, <1>3, <1>4, <1>5, <1>6, <1>7, <1>8, <1>9

LEMMA RecoveryTapsKeep ==
  ASSUME OneCode, StreamInv, TapRecover \/ RecoverAnswered
  PROVE  StreamInv'
<1>0. /\ SingleCode /\ Lane = {1} /\ state \in States /\ shown \in States
      /\ ScreenInv /\ WireInv /\ TypeOK /\ Shapes
  BY AtTheRenderer
<1>1. /\ UNCHANGED <<shown, canvas, tail, lane, call, session, compressed, faults>>
      /\ asked' \in {"no", "sent"}
  BY DEF TapRecover, RecoverAnswered
<1>2. UNCHANGED <<c, ln, disposed>>
  BY <1>1 DEF c, ln, session
<1>3. CASE TapRecover
  <2>1. /\ shown = "STREAM_COMPLETE" /\ asked' = "sent" /\ state' = state
        /\ toMain' = Append(toMain, Request("recover", 1))
    BY <1>3 DEF TapRecover
  <2>2. c.pc = "none"
    BY <1>0, <2>1 DEF ScreenInv
  <2>3. ScreenInv'
    BY <1>0, <1>1, <1>2, <2>1 DEF ScreenInv
  <2>4. WireInv'
    BY <1>0, <1>1, <1>2, <2>1, <2>2, OtherSent
  <2>5. Doomed => Doomed'
    BY <1>2, <2>1 DEF Doomed
  <2> QED BY <1>1, <1>2, <2>1, <2>3, <2>4, <2>5, FromRenderer, AtTheRenderer
<1>4. CASE RecoverAnswered
  <2>1. /\ asked \in {"begun", "refused"} /\ asked' = "no" /\ toMain' = toMain
        /\ state' = Reduce(state, IF asked = "begun" THEN "RECOVERY_REQUESTED" ELSE "ENDED")
    BY <1>4 DEF RecoverAnswered
  <2>2. /\ state' = IF asked = "begun"
                    THEN IF state = "STREAM_COMPLETE" THEN "TRANSFERRING" ELSE state
                    ELSE "OVER"
        /\ asked # "begun" => shown = "OVER" /\ state = "OVER"
    BY <1>0, <2>1, ReduceIs DEF ScreenInv
  <2>3. state' \in States
    BY <1>0, <2>2 DEF States, Mounted
  <2>4. ScreenInv'
    BY <1>0, <1>1, <1>2, <2>1, <2>2 DEF ScreenInv
  <2>5. WireInv'
    BY <1>0, <1>1, <1>2, <2>1, NothingSent
  <2>6. Doomed => Doomed'
    BY <1>2, <2>2 DEF Doomed
  <2> QED BY <1>1, <1>2, <2>1, <2>3, <2>4, <2>5, <2>6, FromRenderer, AtTheRenderer
<1> QED BY <1>3, <1>4

\* A step of the scheduler that may ask for a frame.
LEMMA AskingKeeps ==
  ASSUME OneCode, StreamInv, NEW after \in [Lane -> LaneType],
         lane' = after, Ask(lane, after),
         UNCHANGED <<state, shown, tail, asked, session, compressed, faults>>,
         canvas' \in [Lane -> Frames \cup {"none"}], canvas'[1] # "wrong",
         after[1].stopped = ln.stopped, after[1].finished = ln.finished,
         Len(after[1].ready) <= Len(ln.ready),
         \A i \in DOMAIN after[1].ready : after[1].ready[i] # "wrong",
         ln.fetching => after[1].fetching,
         after[1].fetching /\ ~ln.fetching =>
           ~ln.stopped /\ ~ln.finished /\ Len(after[1].ready) < Prefetch,
         ln.stopped => after[1].ready = ln.ready,
         shown = "HELD" => after[1].started /\ ~after[1].running
  PROVE  StreamInv'
<1>0. /\ SingleCode /\ Lane = {1} /\ state \in States /\ shown \in States
      /\ ln \in LaneType /\ Len(ln.ready) <= Prefetch /\ ln.ready \in Seq(Frames)
      /\ ScreenInv /\ WireInv /\ TypeOK /\ Shapes
      /\ call \in [Lane -> CallType]
  BY AtTheRenderer
<1>1. ln' = after[1] /\ after[1] \in LaneType /\ after[1].ready \in Seq(Frames)
  BY <1>0 DEF ln, LaneType
<1>2. disposed' = disposed
  BY DEF session
<1>3. ASSUME after[1].fetching, ~ln.fetching
      PROVE  StreamInv'
  <2>1. /\ call' = [l \in Lane |-> [NoCall EXCEPT !.pc = "take"]]
        /\ toMain' = toMain \o <<Request("take", 1)>>
    BY <1>0, <1>3, AsksOfOne DEF Ask
  <2>2. toMain' = Append(toMain, Request("take", 1))
    <3>1. toMain \in Seq([kind : {"take", "begin", "recover", "cancel"}, lane : Lane])
      BY <1>0 DEF TypeOK
    <3> QED BY <2>1, <3>1
  <2>3. c'.pc = "take" /\ ~c'.recovering /\ c'.frame = "none"
    BY <1>0, <2>1 DEF c, NoCall
  <2>4. c.pc = "none" /\ state # "OVER"
    BY <1>0, <1>3 DEF ScreenInv
  <2>12. /\ ~ln.stopped /\ ~ln.finished /\ shown \in Mounted /\ state # "STREAM_COMPLETE"
         /\ Len(ln'.ready) < Prefetch
    BY <1>0, <1>1, <1>3 DEF ScreenInv
  <2>13. ~ln'.stopped /\ ~ln'.finished /\ ln'.fetching
    BY <1>1, <1>3, <2>12
  <2>14. shown' = shown /\ state' = state /\ asked' = asked
    OBVIOUS
  <2>5. ScreenInv'
    BY <1>0, <1>1, <2>3, <2>4, <2>12, <2>13, <2>14 DEF ScreenInv, Mounted
  <2>6. WireInv'
    BY <1>0, <1>2, <2>2, <2>3, <2>4, RequestSent
  <2>7. Doomed => Doomed'
    BY <2>4 DEF Doomed
  <2>8. call' \in [Lane -> CallType]
    BY <2>1, NewCallType
  <2>9. c.pc \notin Serving
    BY <2>4 DEF Serving, Producing, Loading
  <2>10. Len(ln'.ready) <= Prefetch
    BY <1>0, <1>1, Sizes
  <2>11. \E kind \in {"take", "begin", "recover", "cancel"} :
              toMain' = Append(toMain, Request(kind, 1))
    BY <2>2
  <2> QED BY <1>0, <1>1, <2>3, <2>5, <2>6, <2>7, <2>8, <2>9, <2>10, <2>11, FromRenderer, AtTheRenderer
<1>4. ASSUME ~(after[1].fetching /\ ~ln.fetching)
      PROVE  StreamInv'
  <2>1. call' = call /\ toMain' = toMain \o <<>>
    BY <1>0, <1>4, AsksOfOne DEF Ask
  <2>2. toMain' = toMain
    <3>1. toMain \in Seq([kind : {"take", "begin", "recover", "cancel"}, lane : Lane])
      BY <1>0 DEF TypeOK
    <3> QED BY <2>1, <3>1
  <2>3. c' = c
    BY <2>1 DEF c
  <2>4. ln'.fetching = ln.fetching
    BY <1>0, <1>1, <1>4 DEF LaneType
  <2>5. ln.fetching /\ ~ln.stopped => Len(ln'.ready) < Prefetch
    BY <1>0, <1>1, Sizes DEF ScreenInv
  <2>6. ScreenInv'
    BY <1>0, <1>1, <2>3, <2>4, <2>5 DEF ScreenInv
  <2>7. WireInv'
    BY <1>0, <1>2, <2>2, <2>3, NothingSent
  <2>8. Doomed => Doomed'
    BY <2>3 DEF Doomed
  <2>9. Len(ln'.ready) <= Prefetch
    BY <1>0, <1>1, Sizes
  <2> QED BY <1>0, <1>1, <2>1, <2>2, <2>3, <2>6, <2>7, <2>8, <2>9, FromRenderer, AtTheRenderer
<1> QED BY <1>3, <1>4

LEMMA FetchingIs ==
  ASSUME NEW x \in LaneType
  PROVE  /\ Fetching(x) \in LaneType
         /\ Fetching(x).stopped = x.stopped /\ Fetching(x).finished = x.finished
         /\ Fetching(x).started = x.started /\ Fetching(x).running = x.running
         /\ Fetching(x).ready = x.ready /\ Fetching(x).painting = x.painting
         /\ x.fetching => Fetching(x).fetching
         /\ Fetching(x).fetching /\ ~x.fetching =>
              ~x.stopped /\ ~x.finished /\ Len(x.ready) < Prefetch
BY DEF Fetching, Wants, LaneType

LEMMA IdleIs ==
  ASSUME NEW x \in LaneType
  PROVE  LET y == [x EXCEPT !.running = FALSE, !.armed = FALSE]
         IN  /\ y \in LaneType
             /\ y.stopped = x.stopped /\ y.finished = x.finished
             /\ y.ready = x.ready /\ y.fetching = x.fetching
BY DEF LaneType

LEMMA StartKeeps ==
  ASSUME OneCode, StreamInv, StartLane(1)
  PROVE  StreamInv'
<1>0. /\ Lane = {1} /\ lane \in [Lane -> LaneType] /\ ln \in LaneType /\ ScreenInv
      /\ canvas \in [Lane -> Frames \cup {"none"}]
      /\ canvas[1] # "wrong" /\ \A i \in DOMAIN ln.ready : ln.ready[i] # "wrong"
      /\ ln.ready \in Seq(Frames)
  BY AtTheRenderer
<1> DEFINE after == [lane EXCEPT ![1] = Fetching(Running(@))]
<1>1. /\ lane' = after /\ Ask(lane, after) /\ UNCHANGED <<screen, session, compressed, faults>>
      /\ ~ln.started
  BY DEF StartLane, ln
<1>2. /\ Running(ln) \in LaneType /\ Running(ln).stopped = ln.stopped
      /\ Running(ln).finished = ln.finished /\ Running(ln).ready = ln.ready
      /\ Running(ln).fetching = ln.fetching
  BY <1>0 DEF Running, LaneType
<1>3. after[1] = Fetching(Running(ln)) /\ after \in [Lane -> LaneType]
  BY <1>0, <1>2, FetchingIs DEF ln
<1>4. shown # "HELD"
  BY <1>0, <1>1 DEF ScreenInv
<1>5. UNCHANGED <<state, shown, canvas, tail, asked>>
  BY <1>1 DEF screen
<1>6. /\ after[1].stopped = ln.stopped /\ after[1].finished = ln.finished
      /\ after[1].ready = ln.ready
      /\ ln.fetching => after[1].fetching
      /\ after[1].fetching /\ ~ln.fetching => ~ln.stopped /\ ~ln.finished /\ Len(ln.ready) < Prefetch
  BY <1>2, <1>3, FetchingIs
<1>7. Len(after[1].ready) <= Len(ln.ready)
  BY <1>0, <1>6
<1> HIDE DEF after
<1> QED BY <1>0, <1>1, <1>3, <1>4, <1>5, <1>6, <1>7, AskingKeeps

LEMMA TickKeeps ==
  ASSUME OneCode, StreamInv, Tick(1)
  PROVE  StreamInv'
<1>0. /\ Lane = {1} /\ lane \in [Lane -> LaneType] /\ ln \in LaneType /\ ScreenInv
      /\ canvas \in [Lane -> Frames \cup {"none"}]
      /\ canvas[1] # "wrong" /\ \A i \in DOMAIN ln.ready : ln.ready[i] # "wrong"
      /\ ln.ready \in Seq(Frames)
  BY AtTheRenderer
<1> DEFINE next == IF ln.ready # <<>>
                   THEN [ln EXCEPT !.ready = Tail(ln.ready), !.painting = TRUE, !.armed = FALSE]
                   ELSE ln
           after == [lane EXCEPT ![1] =
                       IF ln.ready = <<>> /\ next.finished
                       THEN [next EXCEPT !.running = FALSE, !.armed = FALSE]
                       ELSE Fetching(next)]
<1>1. /\ lane' = after /\ Ask(lane, after)
      /\ UNCHANGED <<state, shown, tail, asked, session, compressed, faults>>
      /\ canvas' = IF ln.ready = <<>> THEN canvas ELSE [canvas EXCEPT ![1] = Head(ln.ready)]
      /\ ln.running /\ ~ln.stopped
  BY DEF Tick, ln
<1>2. /\ next \in LaneType /\ next.stopped = ln.stopped /\ next.finished = ln.finished
      /\ next.fetching = ln.fetching /\ next.running = ln.running
      /\ next.ready = IF ln.ready = <<>> THEN ln.ready ELSE Tail(ln.ready)
  <2>1. CASE ln.ready = <<>>
    BY <1>0, <2>1
  <2>2. CASE ln.ready # <<>>
    <3>1. Tail(ln.ready) \in Seq(Frames)
      BY <1>0, <2>2
    <3> QED BY <1>0, <2>2, <3>1 DEF LaneType
  <2> QED BY <2>1, <2>2
<1>3. /\ next.ready \in Seq(Frames) /\ Len(next.ready) <= Len(ln.ready)
      /\ \A i \in DOMAIN next.ready : next.ready[i] # "wrong"
  <2>1. CASE ln.ready = <<>>
    <3>1. next.ready = ln.ready
      BY <1>2, <2>1
    <3> HIDE DEF next
    <3> QED BY <1>0, <3>1
  <2>2. CASE ln.ready # <<>>
    <3>1. /\ Tail(ln.ready) \in Seq(Frames) /\ Len(Tail(ln.ready)) = Len(ln.ready) - 1
          /\ \A i \in DOMAIN Tail(ln.ready) : i + 1 \in DOMAIN ln.ready /\ Tail(ln.ready)[i] = ln.ready[i + 1]
      BY <1>0, <2>2
    <3> QED BY <1>0, <1>2, <2>2, <3>1
  <2> QED BY <2>1, <2>2
<1> HIDE DEF next
<1>4. shown # "HELD"
  BY <1>0, <1>1 DEF ScreenInv
<1>5. /\ after \in [Lane -> LaneType]
      /\ after[1].stopped = ln.stopped /\ after[1].finished = ln.finished
      /\ after[1].ready = next.ready
      /\ ln.fetching => after[1].fetching
      /\ after[1].fetching /\ ~ln.fetching =>
           ~ln.stopped /\ ~ln.finished /\ Len(next.ready) < Prefetch
  <2>1. CASE ln.ready = <<>> /\ next.finished
    <3>1. after[1] = [next EXCEPT !.running = FALSE, !.armed = FALSE]
      BY <1>0, <2>1
    <3>2. /\ [next EXCEPT !.running = FALSE, !.armed = FALSE] \in LaneType
          /\ after[1].stopped = next.stopped /\ after[1].finished = next.finished
          /\ after[1].ready = next.ready /\ after[1].fetching = next.fetching
      BY <1>2, <3>1, IdleIs
    <3> QED BY <1>0, <1>2, <2>1, <3>1, <3>2
  <2>2. CASE ~(ln.ready = <<>> /\ next.finished)
    <3>1. after[1] = Fetching(next) /\ after \in [Lane -> LaneType]
      BY <1>0, <1>2, <2>2, FetchingIs
    <3> QED BY <1>2, <3>1, FetchingIs
  <2> QED BY <2>1, <2>2
<1>6. canvas' \in [Lane -> Frames \cup {"none"}] /\ canvas'[1] # "wrong"
  <2>1. CASE ln.ready = <<>>
    BY <1>0, <1>1, <2>1
  <2>2. CASE ln.ready # <<>>
    <3>1. Head(ln.ready) \in Frames /\ Head(ln.ready) # "wrong"
      BY <1>0, <2>2
    <3> QED BY <1>0, <1>1, <2>2, <3>1
  <2> QED BY <2>1, <2>2
<1> HIDE DEF after
<1> QED BY <1>1, <1>3, <1>4, <1>5, <1>6, AskingKeeps

LEMMA PaintEndsKeeps ==
  ASSUME OneCode, StreamInv, PaintEnds(1)
  PROVE  StreamInv'
<1>0. /\ SingleCode /\ Lane = {1} /\ lane \in [Lane -> LaneType] /\ ln \in LaneType
      /\ ScreenInv /\ WireInv
  BY AtTheRenderer
<1>1. /\ UNCHANGED <<screen, toMain, call, session, compressed, faults>>
      /\ lane' = [lane EXCEPT ![1].painting = FALSE,
                              ![1].armed = @ \/ (lane[1].running /\ ~lane[1].stopped)]
  BY DEF PaintEnds
<1>2. UNCHANGED <<state, shown, canvas, tail, asked, c, disposed>>
  BY <1>1 DEF screen, session, c
<1>3. /\ lane' \in [Lane -> LaneType]
      /\ ln'.stopped = ln.stopped /\ ln'.ready = ln.ready /\ ln'.finished = ln.finished
      /\ ln'.fetching = ln.fetching /\ ln'.started = ln.started /\ ln'.running = ln.running
  BY <1>0, <1>1 DEF ln, LaneType
<1>4. ScreenInv'
  BY <1>0, <1>2, <1>3 DEF ScreenInv
<1>5. WireInv'
  BY <1>0, <1>1, <1>2, NothingSent
<1>6. Doomed => Doomed'
  BY <1>2 DEF Doomed
<1> QED BY <1>1, <1>2, <1>3, <1>4, <1>5, <1>6, FromRenderer, AtTheRenderer

(***************************************************************************)
(* What the scheduler makes of an answer                                   *)
(***************************************************************************)
\* A call that is not the scheduler's last: the next one, or none.
LEMMA NextCall ==
  ASSUME OneCode, StreamInv, NEW x \in CallType, call' = [call EXCEPT ![1] = x]
  PROVE  call' \in [Lane -> CallType] /\ c' = x
BY AtTheRenderer DEF c

LEMMA ReceiveFrameKeeps ==
  ASSUME OneCode, StreamInv, ReceiveFrame(1)
  PROVE  StreamInv'
<1>0. /\ SingleCode /\ Lane = {1} /\ lane \in [Lane -> LaneType] /\ ln \in LaneType
      /\ ScreenInv /\ WireInv /\ c \in CallType /\ ln.ready \in Seq(Frames)
      /\ Len(ln.ready) <= Prefetch /\ state \in States /\ shown \in States
      /\ \A i \in DOMAIN ln.ready : ln.ready[i] # "wrong"
  BY AtTheRenderer
<1> DEFINE x == Supplied(ln, c.frame)
           answer == IF x.fetching THEN [NoCall EXCEPT !.pc = "take"] ELSE NoCall
<1>1. /\ c.pc = "reply" /\ c.frame \in Frames
      /\ lane' = [lane EXCEPT ![1] = x]
      /\ call' = [call EXCEPT ![1] = answer]
      /\ toMain' = IF x.fetching THEN Append(toMain, Request("take", 1)) ELSE toMain
      /\ UNCHANGED <<screen, session, compressed, faults>>
  BY DEF ReceiveFrame, Answered, c, ln
<1>2. UNCHANGED <<state, shown, canvas, tail, asked, disposed>>
  BY <1>1 DEF screen, session
<1>3. ln.fetching /\ ~ln.finished /\ state # "STREAM_COMPLETE" /\ (state = "OVER" => ln.stopped)
  BY <1>0, <1>1 DEF ScreenInv
<1>4. Append(ln.ready, c.frame) \in Seq(Frames) /\ Len(Append(ln.ready, c.frame)) = Len(ln.ready) + 1
      /\ \A i \in DOMAIN Append(ln.ready, c.frame) :
           Append(ln.ready, c.frame)[i] = c.frame \/
             (i \in DOMAIN ln.ready /\ Append(ln.ready, c.frame)[i] = ln.ready[i])
  BY <1>0, <1>1
<1>5. /\ x \in LaneType /\ x.stopped = ln.stopped /\ x.finished = ln.finished
      /\ x.started = ln.started /\ x.running = ln.running
      /\ ln.stopped => x.ready = ln.ready /\ ~x.fetching
      /\ ~ln.stopped => x.ready = Append(ln.ready, c.frame)
                        /\ x.fetching = (Len(ln.ready) + 1 < Prefetch)
  <2>1. CASE ln.stopped
    <3>1. x = [ln EXCEPT !.fetching = FALSE]
      BY <2>1 DEF Supplied
    <3> QED BY <1>0, <2>1, <3>1 DEF LaneType
  <2>2. CASE ~ln.stopped
    <3>1. x = [ln EXCEPT !.ready = Append(ln.ready, c.frame),
                         !.fetching = Len(ln.ready) + 1 < Prefetch]
      BY <2>2 DEF Supplied
    <3> HIDE DEF x
    <3>2. x \in LaneType
      <4> DEFINE more == Append(ln.ready, c.frame)
                 asks == Len(ln.ready) + 1 < Prefetch
      <4>1. more \in Seq(Frames) /\ asks \in BOOLEAN
        BY <1>4
      <4> HIDE DEF more, asks
      <4> QED BY <1>0, <3>1, <4>1 DEF LaneType, more, asks
    <3> QED BY <1>0, <2>2, <3>1, <3>2 DEF LaneType
  <2> QED BY <2>1, <2>2
<1> HIDE DEF x
<1>6. ln' = x /\ lane' \in [Lane -> LaneType]
  BY <1>0, <1>1, <1>5 DEF ln
<1>7. ~ln.stopped => c.frame # "wrong"
  <2>1. ~ln.stopped => ~disposed
    BY <1>0 DEF ScreenInv, WireInv, Mounted
  <2> QED BY <2>1 DEF StreamInv, FramesInv
<1>8. \A i \in DOMAIN ln'.ready : ln'.ready[i] # "wrong"
  BY <1>0, <1>4, <1>5, <1>6, <1>7
<1>9. Len(ln'.ready) <= Prefetch
  <2>1. ~ln.stopped => Len(ln.ready) < Prefetch
    BY <1>0, <1>3 DEF ScreenInv
  <2> QED BY <1>0, <1>4, <1>5, <1>6, <2>1, Sizes
<1>10. answer \in CallType /\ answer.recovering = FALSE /\ answer.frame = "none"
       /\ answer.pc = IF x.fetching THEN "take" ELSE "none"
  <2>1. NoCall \in CallType /\ [NoCall EXCEPT !.pc = "take"] \in CallType
    BY NewCallType
  <2> QED BY <2>1 DEF NoCall
<1> HIDE DEF answer
<1>11. c' = answer /\ call' \in [Lane -> CallType]
  BY <1>1, <1>10, NextCall
<1>12. ScreenInv'
  <2>1. /\ ln'.stopped = ln.stopped /\ ln'.finished = ln.finished
        /\ ln'.started = ln.started /\ ln'.running = ln.running
        /\ ln'.stopped => ln'.ready = <<>>
    BY <1>0, <1>5, <1>6 DEF ScreenInv
  <2>2. ln'.fetching <=> c'.pc # "none"
    BY <1>6, <1>10, <1>11
  <2>3. ln'.fetching /\ ~ln'.stopped => Len(ln'.ready) < Prefetch
    BY <1>4, <1>5, <1>6
  <2>4. shown = "STREAM_COMPLETE" => c'.pc = "none"
    BY <1>0, <1>1 DEF ScreenInv
  <2> QED BY <1>0, <1>2, <1>3, <2>1, <2>2, <2>3, <2>4 DEF ScreenInv
<1>13. WireInv'
  <2>1. CASE x.fetching
    BY <1>0, <1>1, <1>2, <1>10, <1>11, <2>1, RequestSent, AtTheRenderer
  <2>2. CASE ~x.fetching
    BY <1>0, <1>1, <1>2, <2>2, NothingSent
  <2> QED BY <2>1, <2>2
<1>14. ~Doomed
  BY <1>1 DEF Doomed, Frames
<1>15. c.pc \notin Serving
  BY <1>1 DEF Serving, Producing, Loading
<1>16. \/ toMain' = toMain
       \/ \E kind \in {"take", "begin", "recover", "cancel"} :
            toMain' = Append(toMain, Request(kind, 1))
  BY <1>1
<1> QED BY <1>0, <1>1, <1>2, <1>6, <1>8, <1>9, <1>10, <1>11, <1>12, <1>13, <1>14, <1>15, <1>16,
           FromRenderer, AtTheRenderer

\* The schedule ends: nothing, or an error, is all that was answered.
LEMMA FinishedKeeps ==
  ASSUME OneCode, StreamInv, Finished(1), c.pc = "reply",
         UNCHANGED <<shown, canvas, asked, session, compressed, faults>>,
         tail' \in [started : BOOLEAN, reported : BOOLEAN],
         state' \in States, shown = "OVER" => state' = "OVER",
         state' = "HELD" => shown = "HELD",
         Doomed => state' = "OVER"
  PROVE  StreamInv'
<1>0. /\ SingleCode /\ Lane = {1} /\ lane \in [Lane -> LaneType] /\ ln \in LaneType
      /\ ScreenInv /\ WireInv /\ state \in States /\ shown \in States
      /\ Len(ln.ready) <= Prefetch
      /\ \A i \in DOMAIN ln.ready : ln.ready[i] # "wrong"
  BY AtTheRenderer
<1>1. /\ lane' = [lane EXCEPT ![1].fetching = FALSE, ![1].finished = @ \/ ~lane[1].stopped]
      /\ call' = [call EXCEPT ![1] = NoCall]
      /\ toMain' = toMain
  BY DEF Finished
<1>2. c' = NoCall /\ call' \in [Lane -> CallType]
  BY <1>1, NewCallType, NextCall
<1>3. NoCall.pc = "none" /\ NoCall.recovering = FALSE /\ NoCall.frame = "none"
  BY DEF NoCall
<1>4. /\ lane' \in [Lane -> LaneType]
      /\ ln'.stopped = ln.stopped /\ ln'.ready = ln.ready /\ ~ln'.fetching
      /\ ln'.started = ln.started /\ ln'.running = ln.running
      /\ ln'.finished \/ ln'.stopped
  BY <1>0, <1>1 DEF ln, LaneType
<1>5. disposed' = disposed
  BY DEF session
<1>6. ScreenInv'
  BY <1>0, <1>2, <1>3, <1>4 DEF ScreenInv
<1>7. WireInv'
  BY <1>0, <1>1, <1>5, NothingSent
<1>8. Doomed => Doomed'
  BY <1>2, <1>3 DEF Doomed
<1>9. c.pc \notin Serving
  BY DEF Serving, Producing, Loading
<1> QED BY <1>0, <1>1, <1>2, <1>3, <1>4, <1>6, <1>7, <1>8, <1>9, FromRenderer, AtTheRenderer

LEMMA ReceiveLastKeeps ==
  ASSUME OneCode, StreamInv, ReceiveNothing(1) \/ ReceiveError(1) \/ ReceiveFinish(1)
  PROVE  StreamInv'
<1>0. /\ SingleCode /\ Lane = {1} /\ ln \in LaneType /\ ScreenInv
      /\ state \in States /\ shown \in States
      /\ tail \in [started : BOOLEAN, reported : BOOLEAN]
  BY AtTheRenderer
<1>1. /\ c.pc = "reply" /\ Finished(1)
      /\ UNCHANGED <<shown, canvas, asked, session, compressed, faults>>
  BY DEF ReceiveNothing, ReceiveError, ReceiveFinish, Answered, c, screen
<1>2. \* Whoever still waits is either on a screen that goes on, or gone.
      /\ ln.stopped => shown = "OVER"
      /\ ~ln.stopped => state \in Mounted
      /\ shown = "OVER" => ln.stopped
  BY <1>0, <1>1 DEF ScreenInv, States, Mounted
<1>3. CASE ReceiveNothing(1)
  <2>1. ln.stopped /\ state' = state /\ tail' = tail
    BY <1>0, <1>3 DEF ReceiveNothing, ln, screen
  <2> QED BY <1>0, <1>1, <1>2, <2>1, FinishedKeeps DEF ScreenInv
<1>4. CASE ReceiveError(1)
  <2>1. ~ln.stopped /\ state' = Reduce(state, "STREAM_FAILED") /\ tail' = tail
    BY <1>4 DEF ReceiveError, ln
  <2>2. state' = "OVER"
    BY <1>0, <1>2, <2>1, ReduceIs
  <2> QED BY <1>0, <1>1, <1>2, <2>1, <2>2, FinishedKeeps DEF States
<1>5. CASE ReceiveFinish(1)
  <2>1. /\ tail' = [tail EXCEPT !.reported = TRUE]
        /\ state' = IF tail.reported \/ ln.stopped THEN state ELSE Reduce(state, "STREAM_FINISHED")
        /\ c.recovering \/ c.frame = "none"
    BY <1>5 DEF ReceiveFinish, ln, c
  <2>2. tail' \in [started : BOOLEAN, reported : BOOLEAN]
    BY <1>0, <2>1
  <2>3. state' \in {state, "STREAM_COMPLETE"} /\ (ln.stopped => state' = state)
    BY <1>0, <1>2, <2>1, ReduceIs
  <2>4. ~Doomed
    BY <1>1, <2>1 DEF Doomed
  <2> QED BY <1>0, <1>1, <1>2, <2>2, <2>3, <2>4, FinishedKeeps DEF ScreenInv, States
<1> QED BY <1>3, <1>4, <1>5

LEMMA ReceiveTailKeeps ==
  ASSUME OneCode, StreamInv, ReceiveEnd(1) \/ ReceiveBegun(1)
  PROVE  StreamInv'
<1>0. /\ SingleCode /\ Lane = {1} /\ lane \in [Lane -> LaneType] /\ ln \in LaneType
      /\ ScreenInv /\ WireInv /\ TypeOK /\ state \in States /\ shown \in States
      /\ tail \in [started : BOOLEAN, reported : BOOLEAN]
      /\ call \in [Lane -> CallType] /\ c \in CallType
  BY AtTheRenderer
<1>1. CASE ReceiveEnd(1)
  <2>1. /\ c.pc = "reply" /\ c.frame = "none" /\ ~c.recovering
        /\ tail' = [tail EXCEPT !.started = TRUE]
        /\ call' = [call EXCEPT ![1].pc = "begin"]
        /\ toMain' = Append(toMain, Request("begin", 1))
        /\ UNCHANGED <<state, shown, canvas, asked, lane, session, compressed, faults>>
    BY <1>1 DEF ReceiveEnd, Answered, c
  <2>2. /\ call' \in [Lane -> CallType] /\ c'.pc = "begin"
        /\ c'.recovering = c.recovering /\ c'.frame = c.frame
    BY <1>0, <2>1 DEF c, CallType
  <2>3. tail' \in [started : BOOLEAN, reported : BOOLEAN]
    BY <1>0, <2>1
  <2>4. UNCHANGED <<ln, disposed>>
    BY <2>1 DEF ln, session
  <2>5. ScreenInv'
    BY <1>0, <2>1, <2>2, <2>4 DEF ScreenInv
  <2>6. WireInv'
    BY <1>0, <2>1, <2>2, <2>4, RequestSent
  <2>7. ~Doomed
    BY <2>1 DEF Doomed
  <2>8. c.pc \notin Serving
    BY <2>1 DEF Serving, Producing, Loading
  <2>9. \E kind \in {"take", "begin", "recover", "cancel"} : toMain' = Append(toMain, Request(kind, 1))
    BY <2>1
  <2> QED BY <2>1, <2>2, <2>3, <2>4, <2>5, <2>6, <2>7, <2>8, <2>9, FromRenderer, AtTheRenderer
<1>2. CASE ReceiveBegun(1)
  <2>1. /\ c.pc = "begun"
        /\ call' = [call EXCEPT ![1].pc = "take", ![1].recovering = TRUE]
        /\ toMain' = Append(toMain, Request("take", 1))
        /\ UNCHANGED <<screen, lane, session, compressed, faults>>
    BY <1>2 DEF ReceiveBegun, c
  <2>2. /\ call' \in [Lane -> CallType] /\ c'.pc = "take" /\ c'.frame = c.frame
    BY <1>0, <2>1 DEF c, CallType
  <2>4. UNCHANGED <<ln, disposed, state, shown, canvas, tail, asked>>
    BY <2>1 DEF ln, session, screen
  <2>5. ScreenInv'
    BY <1>0, <2>1, <2>2, <2>4 DEF ScreenInv
  <2>6. WireInv'
    BY <1>0, <2>1, <2>2, <2>4, RequestSent
  <2>7. ~Doomed
    BY <2>1 DEF Doomed
  <2>8. c.pc \notin Serving
    BY <2>1 DEF Serving, Producing, Loading
  <2>9. \E kind \in {"take", "begin", "recover", "cancel"} : toMain' = Append(toMain, Request(kind, 1))
    BY <2>1
  <2> QED BY <2>1, <2>2, <2>4, <2>5, <2>6, <2>7, <2>8, <2>9, FromRenderer, AtTheRenderer
<1> QED BY <1>1, <1>2

(***************************************************************************)
(* The main process                                                        *)
(***************************************************************************)
SessionType ==
  /\ queue \in Seq(Frames) /\ Len(queue) <= Capacity
  /\ segment \in 1..(SegmentCount + 1) /\ cursor \in 0..SymbolsForSegment
  /\ phase \in {"pass", "recovery"} /\ target \in Segments /\ left \in 0..SymbolsForSegment
  /\ produced \in 0..(ManifestInterval - 1)
  /\ done \in BOOLEAN /\ disposed \in BOOLEAN /\ encoding \in BOOLEAN
  /\ loaded \in 0..SegmentCount
  /\ container \in [record : Seq(Int), index : 0..WindowCount, start : 0..TransportSize]
  /\ scratch \in Windows /\ faults \in 0..MaxFaults

Requests == Seq([kind : {"take", "begin", "recover", "cancel"}, lane : Lane])

LEMMA SessionTypes ==
  ASSUME SingleCode, TypeOK, Shapes, UNCHANGED <<state, shown, lane, canvas, tail, compressed>>,
         asked' \in {"no", "sent", "begun", "refused"}, toMain' \in Requests,
         call' \in [Lane -> CallType], SessionType'
  PROVE  TypeOK' /\ Shapes'
<1>1. container' \in [record : Seq(Int), index : Int, start : Int]
  BY LengthsAreNumbers, StartsAreOrdered DEF SessionType
<1>2. Shapes'
  BY <1>1 DEF Shapes
<1>3. \A l \in Lane :
        /\ call'[l].pc \in Working \cup {"none", "take", "begin", "begun", "stat", "reading", "landed", "reply"}
        /\ call'[l].segment \in Segments /\ call'[l].window \in Windows
        /\ call'[l].filled \in 0..SymbolsPerSegment
        /\ call'[l].frame \in Frames \cup {"none", "error"}
  BY DEF CallType
<1>4. container'.index \in 0..WindowCount /\ container'.start \in 0..TransportSize
  BY DEF SessionType
<1>5. TypeOK'
  BY <1>3, <1>4 DEF TypeOK, SessionType, Requests
<1> QED BY <1>2, <1>5

\* What every proof about a step of the main process needs.
LEMMA AtTheSession ==
  ASSUME OneCode, StreamInv
  PROVE  /\ SingleCode /\ Lane = {1} /\ Capacity <= SymbolsForSegment
         /\ SessionType /\ toMain \in Requests
         /\ asked \in {"no", "sent", "begun", "refused"}
         /\ call \in [Lane -> CallType] /\ c \in CallType
         /\ TypeOK /\ Shapes /\ ScreenInv /\ WireInv
         /\ PassInv /\ TailInv /\ MemoryInv /\ CursorInv /\ FramesInv
<1>1. /\ SingleCode /\ Capacity <= SymbolsForSegment
      /\ TypeOK /\ Shapes /\ ScreenInv /\ WireInv
      /\ PassInv /\ TailInv /\ MemoryInv /\ CursorInv /\ FramesInv
  BY DEF OneCode, StreamInv
<1>2. Lane = {1}
  BY <1>1, OneLane
<1>3. container \in [record : Seq(Int), index : 0..WindowCount, start : 0..TransportSize]
  BY <1>1 DEF TypeOK, Shapes
<1>4. SessionType
  BY <1>1, <1>3 DEF TypeOK, SessionType
<1>5. call \in [Lane -> CallType] /\ c \in CallType
  BY <1>1, <1>2 DEF Shapes, c
<1>6. toMain \in Requests /\ asked \in {"no", "sent", "begun", "refused"}
  BY <1>1 DEF TypeOK, Requests
<1> QED BY <1>1, <1>2, <1>4, <1>5, <1>6

\* The request at the head of the queue is handled.
LEMMA HeadHandled ==
  ASSUME TypeOK, WireInv, toMain # <<>>, toMain' = Tail(toMain), shown' = shown,
         disposed' => shown = "OVER",
         Head(toMain).kind \in {"take", "begin"} \/ c'.pc = c.pc
  PROVE  WireInv' /\ (toMain \in Requests => toMain' \in Requests)
<1> DEFINE R == [kind : {"take", "begin", "recover", "cancel"}, lane : Lane]
<1>0. toMain \in Seq(R)
  BY DEF TypeOK
<1>1. /\ DOMAIN toMain' = 1..(Len(toMain) - 1) /\ DOMAIN toMain = 1..Len(toMain)
      /\ Len(toMain) \in Nat /\ Len(toMain) >= 1
      /\ \A i \in DOMAIN toMain' : toMain'[i] = toMain[i + 1]
      /\ Head(toMain) = toMain[1] /\ Tail(toMain) \in Seq(R)
  <2> HIDE DEF R
  <2> QED BY <1>0, HeadTailProperties, LenProperties
<1>2. \A i \in DOMAIN toMain' : i + 1 \in DOMAIN toMain /\ i + 1 # 1
  BY <1>1
<1>3. CASE Head(toMain).kind \in {"take", "begin"}
  <2>1. 1 \in DOMAIN toMain
    BY <1>1
  <2>2. \A i \in DOMAIN toMain' : toMain'[i].kind \notin {"take", "begin", "recover"}
    <3> SUFFICES ASSUME NEW i \in DOMAIN toMain'
                 PROVE  toMain[i + 1].kind \notin {"take", "begin", "recover"}
      BY <1>1
    <3>1. toMain[i + 1].kind \notin {"take", "begin"}
      BY <1>1, <1>2, <1>3, <2>1 DEF WireInv
    <3>2. toMain[i + 1].kind # "recover"
      BY <1>1, <1>2, <1>3, <2>1 DEF WireInv
    <3> QED BY <3>1, <3>2
  <2>3. \A i \in DOMAIN toMain' : toMain'[i].kind = "cancel" => shown' = "OVER"
    BY <1>1, <1>2 DEF WireInv
  <2> QED BY <1>1, <2>2, <2>3 DEF WireInv, Requests
<1>4. CASE c'.pc = c.pc
  <2>1. \A i \in DOMAIN toMain' : toMain'[i].kind \in {"take", "begin"} => toMain'[i].kind = c'.pc
    BY <1>1, <1>2, <1>4 DEF WireInv
  <2>2. \A i, j \in DOMAIN toMain' :
          toMain'[i].kind \in {"take", "begin"} /\ toMain'[j].kind \in {"take", "begin"} => i = j
    <3> SUFFICES ASSUME NEW i \in DOMAIN toMain', NEW j \in DOMAIN toMain',
                        toMain'[i].kind \in {"take", "begin"}, toMain'[j].kind \in {"take", "begin"}
                 PROVE  i = j
      OBVIOUS
    <3>1. i + 1 = j + 1
      BY <1>1, <1>2 DEF WireInv
    <3> QED BY <1>1, <3>1
  <2>3. \A i \in DOMAIN toMain' : toMain'[i].kind = "recover" => c'.pc \in {"none", "take"}
    BY <1>1, <1>2, <1>4 DEF WireInv
  <2>4. \A i, j \in DOMAIN toMain' :
          toMain'[i].kind = "recover" /\ toMain'[j].kind \in {"take", "begin"} => i < j
    <3> SUFFICES ASSUME NEW i \in DOMAIN toMain', NEW j \in DOMAIN toMain',
                        toMain'[i].kind = "recover", toMain'[j].kind \in {"take", "begin"}
                 PROVE  i < j
      OBVIOUS
    <3>1. i + 1 < j + 1
      BY <1>1, <1>2 DEF WireInv
    <3> QED BY <1>1, <3>1
  <2>5. \A i \in DOMAIN toMain' : toMain'[i].kind = "cancel" => shown' = "OVER"
    BY <1>1, <1>2 DEF WireInv
  <2> QED BY <1>1, <2>1, <2>2, <2>3, <2>4, <2>5 DEF WireInv, Requests
<1> QED BY <1>3, <1>4

\* A step of the main process for the call it works on: what has to be shown.
LEMMA Served ==
  ASSUME OneCode, StreamInv, c.pc \in Serving,
         UNCHANGED <<Renderer, toMain, disposed, compressed>>,
         call' \in [Lane -> CallType], c'.pc \in Serving \cup {"reply"},
         SessionType', PassInv', TailInv', MemoryInv', CursorInv',
         ~disposed => c'.frame # "wrong" /\ \A i \in DOMAIN queue' : queue'[i] # "wrong"
  PROVE  StreamInv'
<1>1. SingleCode /\ TypeOK /\ Shapes /\ ScreenInv /\ WireInv /\ FramesInv
      /\ asked \in {"no", "sent", "begun", "refused"} /\ toMain \in Requests
  BY AtTheSession
<1>2. UNCHANGED <<state, shown, lane, canvas, tail, asked>>
  BY DEF Renderer, screen
<1>3. ScreenInv' /\ WireInv'
  BY <1>1, RendererKept
<1>4. TypeOK' /\ Shapes'
  BY <1>1, <1>2, SessionTypes DEF Requests
<1>5. FramesInv'
  BY <1>1, <1>2 DEF FramesInv, ln
<1> QED BY <1>3, <1>4, <1>5 DEF StreamInv

Pcs == Working \cup {"none", "take", "begin", "begun", "stat", "reading", "landed", "reply"}

LEMMA AtIs ==
  ASSUME OneCode, StreamInv, NEW pc \in Pcs, At(1, pc)
  PROVE  /\ call' \in [Lane -> CallType] /\ c'.pc = pc
         /\ c'.segment = c.segment /\ c'.next = c.next /\ c'.filled = c.filled
         /\ c'.window = c.window /\ c'.recovering = c.recovering /\ c'.frame = c.frame
BY AtTheSession DEF At, c, CallType, Pcs

LEMMA ReplyIs ==
  ASSUME OneCode, StreamInv, NEW f \in Frames \cup {"none", "error"}, Reply(1, f)
  PROVE  /\ call' \in [Lane -> CallType] /\ c'.pc = "reply" /\ c'.frame = f
         /\ c'.segment = c.segment /\ c'.next = c.next /\ c'.filled = c.filled
         /\ c'.window = c.window /\ c'.recovering = c.recovering
BY AtTheSession DEF Reply, c, CallType

LEMMA NeedIs ==
  ASSUME OneCode, StreamInv, NEW s \in Segments, NEW next \in {"emit", "replay"}, Need(1, s, next)
  PROVE  /\ call' \in [Lane -> CallType] /\ c'.pc = IF IsLoaded(s) THEN next ELSE "stat"
         /\ c'.segment = s /\ c'.next = next /\ c'.filled = 0
         /\ c'.window = c.window /\ c'.recovering = c.recovering /\ c'.frame = c.frame
<1>1. call' = [call EXCEPT ![1].pc = IF IsLoaded(s) THEN next ELSE "stat",
                           ![1].segment = s, ![1].next = next, ![1].filled = 0]
  BY DEF Need
<1>2. 0 \in 0..SymbolsPerSegment /\ (IF IsLoaded(s) THEN next ELSE "stat") \in Pcs
  BY Sizes DEF Pcs, Working
<1> QED BY <1>1, <1>2, AtTheSession DEF c, CallType, Pcs

\* The request at the head is the one the scheduler waits for.
LEMMA HeadIs ==
  ASSUME OneCode, StreamInv, toMain # <<>>
  PROVE  /\ Head(toMain).lane = 1
         /\ Head(toMain).kind \in {"take", "begin"} => c.pc = Head(toMain).kind
         /\ Head(toMain).kind = "recover" => c.pc \in {"none", "take"}
         /\ Head(toMain).kind = "cancel" => shown = "OVER"
<1> DEFINE R == [kind : {"take", "begin", "recover", "cancel"}, lane : Lane]
<1>1. toMain \in Seq(R) /\ Lane = {1} /\ WireInv
  BY AtTheSession DEF Requests
<1>2. 1 \in DOMAIN toMain /\ Head(toMain) = toMain[1] /\ toMain[1] \in R
  <2> HIDE DEF R
  <2> QED BY <1>1, HeadTailProperties, LenProperties, EmptySeq
<1> QED BY <1>1, <1>2 DEF WireInv

LEMMA TakeKeeps ==
  ASSUME OneCode, StreamInv, HandleTake
  PROVE  StreamInv'
<1>0. /\ SingleCode /\ Lane = {1} /\ SessionType /\ toMain \in Requests
      /\ asked \in {"no", "sent", "begun", "refused"}
      /\ TypeOK /\ Shapes /\ ScreenInv /\ WireInv
      /\ PassInv /\ TailInv /\ MemoryInv /\ CursorInv /\ FramesInv
  BY AtTheSession
<1>1. /\ toMain # <<>> /\ Head(toMain).kind = "take" /\ toMain' = Tail(toMain)
      /\ UNCHANGED <<Renderer, pass, memory, packing, disposed, compressed, faults>>
  BY DEF HandleTake
<1>2. c.pc = "take" /\ Head(toMain).lane = 1
  BY <1>1, HeadIs
<1>3. UNCHANGED <<state, shown, canvas, tail, asked, lane, segment, cursor, phase, target, left,
                  produced, done, buffer, loaded, encoding, container, scratch, disposed,
                  compressed, faults>>
  BY <1>1 DEF Renderer, screen, pass, memory, packing
<1>4. \/ disposed /\ Reply(1, "error") /\ queue' = queue
      \/ ~disposed /\ queue # <<>> /\ Reply(1, Head(queue)) /\ queue' = Tail(queue)
      \/ ~disposed /\ queue = <<>> /\ At(1, "fill") /\ queue' = queue
  BY <1>2 DEF HandleTake
<1>5. queue \in Seq(Frames) /\ Len(queue) <= Capacity /\ Capacity \in Nat
  BY <1>0, Sizes DEF SessionType
<1>6. queue # <<>> =>
        /\ Head(queue) \in Frames /\ Tail(queue) \in Seq(Frames) /\ Len(Tail(queue)) = Len(queue) - 1
        /\ ~disposed => Head(queue) # "wrong" /\ \A i \in DOMAIN Tail(queue) : Tail(queue)[i] # "wrong"
  <2> SUFFICES ASSUME queue # <<>>
               PROVE  /\ Head(queue) \in Frames /\ Tail(queue) \in Seq(Frames)
                      /\ Len(Tail(queue)) = Len(queue) - 1
                      /\ ~disposed => /\ Head(queue) # "wrong"
                                      /\ \A i \in DOMAIN Tail(queue) : Tail(queue)[i] # "wrong"
    OBVIOUS
  <2>1. /\ Head(queue) \in Frames /\ Tail(queue) \in Seq(Frames)
        /\ Len(Tail(queue)) = Len(queue) - 1 /\ Head(queue) = queue[1] /\ 1 \in DOMAIN queue
        /\ \A i \in DOMAIN Tail(queue) : i + 1 \in DOMAIN queue /\ Tail(queue)[i] = queue[i + 1]
    BY <1>5
  <2>2. ~disposed => \A i \in DOMAIN queue : queue[i] # "wrong"
    BY <1>0 DEF FramesInv
  <2> QED BY <2>1, <2>2
<1>7. /\ call' \in [Lane -> CallType] /\ c'.recovering = c.recovering
      /\ \/ disposed /\ c'.pc = "reply" /\ c'.frame = "error" /\ queue' = queue
         \/ /\ ~disposed /\ queue # <<>> /\ c'.pc = "reply" /\ c'.frame = Head(queue)
            /\ queue' = Tail(queue)
         \/ ~disposed /\ queue = <<>> /\ c'.pc = "fill" /\ c'.frame = c.frame /\ queue' = queue
  <2>1. CASE disposed /\ Reply(1, "error") /\ queue' = queue
    BY <2>1, ReplyIs
  <2>2. CASE ~disposed /\ queue # <<>> /\ Reply(1, Head(queue)) /\ queue' = Tail(queue)
    BY <1>6, <2>2, ReplyIs
  <2>3. CASE ~disposed /\ queue = <<>> /\ At(1, "fill") /\ queue' = queue
    BY <2>3, AtIs DEF Pcs, Working
  <2> QED BY <1>4, <2>1, <2>2, <2>3
<1>8. queue' \in Seq(Frames) /\ Len(queue') <= Capacity
  BY <1>5, <1>6, <1>7
<1>9. TypeOK' /\ Shapes'
  <2>1. SessionType'
    BY <1>0, <1>3, <1>8 DEF SessionType
  <2>2. toMain' \in Requests
    BY <1>0, <1>1, <1>3, HeadHandled DEF WireInv
  <2> QED BY <1>0, <1>3, <1>7, <2>1, <2>2, SessionTypes
<1>10. ScreenInv'
  BY <1>0, <1>2, <1>3, <1>7 DEF ScreenInv, ln
<1>11. WireInv'
  BY <1>0, <1>1, <1>3, HeadHandled DEF WireInv
<1>12. PassInv'
  BY <1>0, <1>2, <1>3, <1>6, <1>7 DEF PassInv, Makes, Producing, Loading, Frames
<1>13. TailInv'
  <2>1. NextIsFirst => NextIsFirst'
    BY <1>3 DEF NextIsFirst
  <2> QED BY <1>0, <1>2, <1>3, <1>7, <2>1 DEF TailInv, Loading
<1>14. ~Doomed
  BY <1>2 DEF Doomed
<1>15. MemoryInv'
  BY <1>0, <1>2, <1>3, <1>7, <1>14 DEF MemoryInv, Loading, Bytes
<1>16. CursorInv'
  BY <1>0, <1>2, <1>3, <1>7, <1>14 DEF CursorInv, CursorHolds, CursorIsAhead, NextIsFirst, Loading
<1>17. FramesInv'
  BY <1>0, <1>3, <1>6, <1>7 DEF FramesInv, ln
<1> QED BY <1>9, <1>10, <1>11, <1>12, <1>13, <1>15, <1>16, <1>17 DEF StreamInv

LEMMA RecoveryKeeps ==
  ASSUME OneCode, StreamInv, HandleRecovery
  PROVE  StreamInv'
<1>0. /\ SingleCode /\ Lane = {1} /\ SessionType /\ toMain \in Requests
      /\ asked \in {"no", "sent", "begun", "refused"}
      /\ call \in [Lane -> CallType] /\ c \in CallType
      /\ TypeOK /\ Shapes /\ ScreenInv /\ WireInv
      /\ PassInv /\ TailInv /\ MemoryInv /\ CursorInv /\ FramesInv
  BY AtTheSession
<1>1. /\ toMain # <<>> /\ Head(toMain).kind \in {"begin", "recover"} /\ toMain' = Tail(toMain)
      /\ UNCHANGED <<state, shown, canvas, tail, lane, queue, segment, cursor, produced,
                     memory, packing, disposed, compressed, faults>>
  BY DEF HandleRecovery
<1>2. UNCHANGED <<buffer, loaded, encoding, container, scratch, ln>>
  BY <1>1 DEF memory, packing, ln
<1>3. \/ disposed /\ UNCHANGED <<phase, target, left, done>>
      \/ /\ ~disposed /\ phase' = "recovery" /\ target' = SegmentCount /\ left' = 0 /\ done' = FALSE
  BY DEF HandleRecovery, BeginRecovery, RecoveryBegins
<1>4. \/ /\ Head(toMain).kind = "recover" /\ c.pc \in {"none", "take"}
         /\ call' = call /\ c' = c /\ asked' = IF disposed THEN "refused" ELSE "begun"
      \/ /\ Head(toMain).kind = "begin" /\ c.pc = "begin" /\ asked' = asked
         /\ call' \in [Lane -> CallType] /\ c'.frame = c.frame
         /\ c'.pc = IF disposed THEN "reply" ELSE "begun"
  <2>1. CASE Head(toMain).kind = "recover"
    BY <1>1, <2>1, HeadIs DEF HandleRecovery, c
  <2>2. CASE Head(toMain).kind = "begin"
    <3>1. Head(toMain).lane = 1 /\ c.pc = "begin"
      BY <1>1, <2>2, HeadIs
    <3>2. /\ asked' = asked
          /\ IF disposed
             THEN call' = [call EXCEPT ![1].pc = "reply", ![1].recovering = TRUE]
             ELSE call' = [call EXCEPT ![1].pc = "begun"]
      BY <2>2, <3>1 DEF HandleRecovery
    <3> QED BY <1>0, <2>2, <3>1, <3>2 DEF c, CallType
  <2> QED BY <1>1, <2>1, <2>2
<1>5. c.pc = "begin" /\ ~disposed => ~encoding
  BY <1>0 DEF PassInv
<1>6. TypeOK' /\ Shapes'
  <2>1. SessionType'
    <3>1. SegmentCount \in Segments /\ 0 \in 0..SymbolsForSegment
      BY Sizes
    <3> QED BY <1>0, <1>1, <1>2, <1>3, <3>1 DEF SessionType
  <2>2. toMain' \in Requests
    BY <1>0, <1>1, <1>4, HeadHandled DEF WireInv
  <2>3. call' \in [Lane -> CallType] /\ asked' \in {"no", "sent", "begun", "refused"}
    BY <1>0, <1>4
  <2> QED BY <1>0, <1>1, <2>1, <2>2, <2>3, SessionTypes
<1>7. ScreenInv'
  BY <1>0, <1>1, <1>2, <1>4 DEF ScreenInv, WireInv
<1>8. WireInv'
  BY <1>0, <1>1, <1>4, HeadHandled DEF WireInv
<1>9. c'.pc \notin Serving
  BY <1>4 DEF Serving, Producing, Loading
<1>10. PassInv'
  BY <1>0, <1>1, <1>2, <1>3, <1>4, <1>9 DEF PassInv, Makes, Serving, Producing, Loading
<1>11. TailInv'
  <2>1. ~disposed /\ ~encoding => NextIsFirst'
    BY <1>2, <1>3 DEF NextIsFirst
  <2>2. ~disposed /\ c.recovering /\ c.pc = "take" => ~encoding
    BY <1>0 DEF TailInv, NextIsFirst
  <2> QED BY <1>0, <1>1, <1>3, <1>4, <1>5, <1>9, <2>1, <2>2
          DEF TailInv, Serving, Producing, Loading
<1>12. Doomed => Doomed'
  BY <1>1, <1>4 DEF Doomed
<1>13. MemoryInv'
  <2>1. c.pc \notin Serving
    BY <1>4 DEF Serving, Producing, Loading
  <2> QED BY <1>0, <1>1, <1>2, <1>9, <1>12, <2>1 DEF MemoryInv, Serving, Producing, Loading, Bytes
<1>14. CursorInv'
  <2>1. c.pc \notin Serving
    BY <1>4 DEF Serving, Producing, Loading
  <2>2. ~disposed /\ NextIsFirst => NextIsFirst'
    BY <1>2, <1>3 DEF NextIsFirst
  <2> QED BY <1>0, <1>1, <1>2, <1>9, <1>12, <2>1, <2>2
          DEF CursorInv, CursorHolds, CursorIsAhead, Serving, Producing, Loading
<1>15. FramesInv'
  BY <1>0, <1>1, <1>2, <1>4 DEF FramesInv
<1> QED BY <1>6, <1>7, <1>8, <1>10, <1>11, <1>13, <1>14, <1>15 DEF StreamInv

LEMMA CancelKeeps ==
  ASSUME OneCode, StreamInv, HandleCancel
  PROVE  StreamInv'
<1>0. /\ SingleCode /\ Lane = {1} /\ SessionType /\ toMain \in Requests
      /\ asked \in {"no", "sent", "begun", "refused"}
      /\ call \in [Lane -> CallType]
      /\ TypeOK /\ Shapes /\ ScreenInv /\ WireInv /\ PassInv /\ FramesInv
  BY AtTheSession
<1>1. /\ toMain # <<>> /\ Head(toMain).kind = "cancel" /\ toMain' = Tail(toMain)
      /\ disposed' /\ done' = TRUE /\ queue' = <<>> /\ loaded' = 0 /\ encoding' = FALSE
      /\ disposed' \in BOOLEAN /\ container' = NoRecord
      /\ UNCHANGED <<Renderer, call, segment, cursor, phase, target, left, produced,
                     scratch, compressed, faults>>
  BY DEF HandleCancel
<1>2. UNCHANGED <<state, shown, canvas, tail, asked, lane, ln, c>> /\ shown = "OVER"
  BY <1>1, HeadIs DEF Renderer, screen, ln, c
<1>3. Len(queue') = 0 /\ queue' \in Seq(Frames) /\ Capacity \in Nat /\ Capacity > 0
  <2>1. <<>> \in Seq(Frames) /\ Len(<<>>) = 0
    OBVIOUS
  <2> QED BY <1>1, <2>1, Sizes
<1>4. TypeOK' /\ Shapes'
  <2>1. NoRecord \in [record : Seq(Int), index : 0..WindowCount, start : 0..TransportSize]
    <3>1. <<>> \in Seq(Int)
      OBVIOUS
    <3>2. 0 \in 0..WindowCount /\ 0 \in 0..TransportSize
      BY LengthsAreNumbers, StartsAreOrdered
    <3> QED BY <3>1, <3>2 DEF NoRecord
  <2>2. 0 \in 0..SegmentCount
    BY Sizes
  <2>3. SessionType'
    <3>1. container' \in [record : Seq(Int), index : 0..WindowCount, start : 0..TransportSize]
      BY <1>1, <2>1
    <3>2. done' \in BOOLEAN /\ encoding' \in BOOLEAN /\ loaded' \in 0..SegmentCount
      BY <1>1, <2>2
    <3>3. Len(queue') <= Capacity
      BY <1>3
    <3> QED BY <1>0, <1>1, <1>3, <3>1, <3>2, <3>3 DEF SessionType
  <2>4. toMain' \in Requests
    BY <1>0, <1>1, <1>2, HeadHandled
  <2> QED BY <1>0, <1>1, <1>2, <2>3, <2>4, SessionTypes
<1>5. ScreenInv'
  BY <1>0, <1>2 DEF ScreenInv
<1>6. WireInv'
  BY <1>0, <1>1, <1>2, HeadHandled
<1>7. PassInv'
  <2>1. container'.index = 0 /\ container'.start = 0
    BY <1>1 DEF NoRecord
  <2> QED BY <1>0, <1>1, <1>2, <1>3, <2>1 DEF PassInv, Makes
<1>8. TailInv' /\ MemoryInv' /\ CursorInv'
  BY <1>1 DEF TailInv, MemoryInv, CursorInv
<1>9. FramesInv'
  BY <1>0, <1>1, <1>2 DEF FramesInv
<1> QED BY <1>4, <1>5, <1>6, <1>7, <1>8, <1>9 DEF StreamInv

(***************************************************************************)
(* take(): what it produces                                                *)
(***************************************************************************)
\* What a step that produces leaves alone of the renderer's.
LEMMA Untouched ==
  ASSUME UNCHANGED <<Renderer, toMain>>
  PROVE  UNCHANGED <<state, shown, canvas, tail, asked, lane, toMain, ln>>
BY DEF Renderer, screen, ln

LEMMA FillEndsKeeps ==
  ASSUME OneCode, StreamInv, FillEnds(1)
  PROVE  StreamInv'
<1>0. /\ SessionType /\ c \in CallType
      /\ PassInv /\ TailInv /\ MemoryInv /\ CursorInv /\ FramesInv
  BY AtTheSession
<1>1. /\ c.pc = "fill" /\ (done \/ ~(Len(queue) < Capacity))
      /\ Reply(1, IF queue = <<>> THEN "none" ELSE Head(queue))
      /\ queue' = (IF queue = <<>> THEN <<>> ELSE Tail(queue))
      /\ UNCHANGED <<Renderer, toMain, pass, memory, packing, disposed, compressed, faults>>
  BY DEF FillEnds, Room, HasRoom, c
<1>2. UNCHANGED <<segment, cursor, phase, target, left, produced, done, buffer, loaded, encoding,
                  container, scratch, disposed, compressed, faults>>
  BY <1>1 DEF pass, memory, packing
<1>3. queue \in Seq(Frames) /\ Len(queue) <= Capacity /\ Capacity \in Nat /\ Capacity > 0
  BY <1>0, Sizes DEF SessionType
<1>4. queue # <<>> =>
        /\ Head(queue) \in Frames /\ queue' \in Seq(Frames) /\ Len(queue') = Len(queue) - 1
        /\ ~disposed => Head(queue) # "wrong" /\ \A i \in DOMAIN queue' : queue'[i] # "wrong"
  <2> SUFFICES ASSUME queue # <<>>
               PROVE  /\ Head(queue) \in Frames /\ Tail(queue) \in Seq(Frames)
                      /\ Len(Tail(queue)) = Len(queue) - 1
                      /\ ~disposed => /\ Head(queue) # "wrong"
                                      /\ \A i \in DOMAIN Tail(queue) : Tail(queue)[i] # "wrong"
    BY <1>1
  <2>1. /\ Head(queue) \in Frames /\ Tail(queue) \in Seq(Frames)
        /\ Len(Tail(queue)) = Len(queue) - 1 /\ Head(queue) = queue[1] /\ 1 \in DOMAIN queue
        /\ \A i \in DOMAIN Tail(queue) : i + 1 \in DOMAIN queue /\ Tail(queue)[i] = queue[i + 1]
    BY <1>3
  <2>2. ~disposed => \A i \in DOMAIN queue : queue[i] # "wrong"
    BY <1>0 DEF FramesInv
  <2> QED BY <2>1, <2>2
<1>5. queue = <<>> => queue' = <<>> /\ Len(queue) = 0 /\ done
  BY <1>1, <1>3
<1>6. /\ call' \in [Lane -> CallType] /\ c'.recovering = c.recovering /\ c'.pc = "reply"
      /\ c'.frame = IF queue = <<>> THEN "none" ELSE Head(queue)
  <2> DEFINE f == IF queue = <<>> THEN "none" ELSE Head(queue)
  <2>1. Reply(1, f) /\ f \in Frames \cup {"none", "error"}
    BY <1>1, <1>4
  <2> HIDE DEF f
  <2>2. call' \in [Lane -> CallType] /\ c'.recovering = c.recovering /\ c'.pc = "reply" /\ c'.frame = f
    BY <2>1, ReplyIs
  <2> QED BY <2>2 DEF f
<1>7. SessionType'
  <2>1. queue' \in Seq(Frames) /\ Len(queue') <= Capacity
    BY <1>3, <1>4, <1>5
  <2> QED BY <1>0, <1>2, <2>1 DEF SessionType
<1>8. PassInv'
  BY <1>0, <1>1, <1>2, <1>4, <1>5, <1>6 DEF PassInv, Makes, Producing, Loading, Frames
<1>9. TailInv'
  BY <1>0, <1>1, <1>2, <1>6 DEF TailInv, Loading
<1>10. ~Doomed
  BY <1>1 DEF Doomed
<1>11. MemoryInv'
  BY <1>0, <1>1, <1>2, <1>6, <1>10 DEF MemoryInv, Loading, Bytes
<1>12. CursorInv'
  BY <1>0, <1>1, <1>2, <1>6, <1>10 DEF CursorInv, CursorHolds, CursorIsAhead, NextIsFirst, Loading
<1>13. ~disposed => c'.frame # "wrong" /\ \A i \in DOMAIN queue' : queue'[i] # "wrong"
  <2>1. DOMAIN <<>> = {}
    OBVIOUS
  <2> QED BY <1>4, <1>5, <1>6, <2>1
<1>14. c.pc \in Serving
  BY <1>1 DEF Serving
<1> QED BY <1>1, <1>6, <1>7, <1>8, <1>9, <1>11, <1>12, <1>13, <1>14, Served

LEMMA CountIs ==
  ASSUME SessionType, Count
  PROVE  produced' \in 0..(ManifestInterval - 1)
<1>1. produced \in Nat /\ ManifestInterval \in Nat \ {0}
  BY Sizes DEF SessionType
<1> QED BY <1>1 DEF Count

\* A frame is added to a queue that has room.
LEMMA FrameAdded ==
  ASSUME OneCode, StreamInv, Len(queue) < Capacity, NEW f \in Frames, queue' = Append(queue, f)
  PROVE  /\ queue' \in Seq(Frames) /\ Len(queue') <= Capacity /\ Len(queue') = Len(queue) + 1
         /\ ~disposed /\ f # "wrong" => \A i \in DOMAIN queue' : queue'[i] # "wrong"
         /\ ~disposed => \A i \in DOMAIN queue : queue[i] # "wrong"
<1>1. queue \in Seq(Frames) /\ Capacity \in Nat /\ FramesInv
  BY AtTheSession, Sizes DEF SessionType
<1>2. ~disposed => \A i \in DOMAIN queue : queue[i] # "wrong"
  BY <1>1 DEF FramesInv
<1>3. /\ queue' \in Seq(Frames) /\ Len(queue') = Len(queue) + 1
      /\ \A i \in DOMAIN queue' : queue'[i] = f \/ (i \in DOMAIN queue /\ queue'[i] = queue[i])
  BY <1>1
<1> QED BY <1>1, <1>2, <1>3

LEMMA ProduceManifestKeeps ==
  ASSUME OneCode, StreamInv, ProduceManifest(1)
  PROVE  StreamInv'
<1>0. /\ SessionType /\ c \in CallType /\ call \in [Lane -> CallType]
      /\ PassInv /\ TailInv /\ MemoryInv /\ CursorInv /\ FramesInv
  BY AtTheSession
<1>1. /\ c.pc = "fill" /\ ~done /\ Len(queue) < Capacity
      /\ queue' = Append(queue, "manifest") /\ Count
      /\ UNCHANGED <<Renderer, toMain, call, segment, cursor, phase, target, left, done,
                     memory, packing, disposed, compressed, faults>>
  BY DEF ProduceManifest, Room, HasRoom, c
<1>2. UNCHANGED <<buffer, loaded, encoding, container, scratch, c>>
  BY <1>1 DEF memory, packing, c
<1>3. /\ queue' \in Seq(Frames) /\ Len(queue') <= Capacity /\ Len(queue') = Len(queue) + 1
      /\ ~disposed => \A i \in DOMAIN queue' : queue'[i] # "wrong"
  BY <1>1, FrameAdded DEF Frames
<1>4. SessionType'
  BY <1>0, <1>1, <1>2, <1>3, CountIs DEF SessionType
<1>5. PassInv'
  BY <1>0, <1>1, <1>2 DEF PassInv, Makes, Producing, Loading
<1>6. TailInv'
  <2>1. NextIsFirst => NextIsFirst'
    BY <1>1, <1>2 DEF NextIsFirst
  <2>2. left \in Nat /\ Len(queue) \in Nat /\ SymbolsForSegment \in Nat
    BY <1>0, Sizes DEF SessionType
  <2>3. FirstBatch => FirstBatch'
    BY <1>1, <1>2, <1>3, <2>2 DEF FirstBatch
  <2> QED BY <1>0, <1>1, <1>2, <2>1, <2>3 DEF TailInv, Loading
<1>7. ~Doomed
  BY <1>1 DEF Doomed
<1>8. MemoryInv'
  BY <1>0, <1>1, <1>2, <1>7 DEF MemoryInv, Loading, Bytes
<1>9. CursorInv'
  BY <1>0, <1>1, <1>2, <1>7 DEF CursorInv, CursorHolds, CursorIsAhead, NextIsFirst, Loading
<1>10. ~disposed => c.frame # "wrong"
  BY <1>0 DEF FramesInv
<1>11. c.pc \in Serving
  BY <1>1 DEF Serving
<1> QED BY <1>0, <1>1, <1>2, <1>3, <1>4, <1>5, <1>6, <1>8, <1>9, <1>10, <1>11, Served

LEMMA ProducePassKeeps ==
  ASSUME OneCode, StreamInv, ProducePass(1)
  PROVE  StreamInv'
<1>0. /\ SessionType /\ c \in CallType
      /\ PassInv /\ TailInv /\ MemoryInv /\ CursorInv /\ FramesInv
  BY AtTheSession
<1>1. /\ c.pc = "fill" /\ ~done /\ Len(queue) < Capacity /\ phase = "pass" /\ At(1, "advance")
      /\ UNCHANGED <<Renderer, toMain, session, compressed, faults>>
  BY DEF ProducePass, Room, HasRoom, c
<1>2. UNCHANGED <<queue, segment, cursor, phase, target, left, produced, done, buffer, loaded,
                  encoding, container, scratch, disposed, compressed, faults>>
  BY <1>1 DEF session, pass, memory, packing
<1>3. /\ call' \in [Lane -> CallType] /\ c'.pc = "advance"
      /\ c'.recovering = c.recovering /\ c'.frame = c.frame
  BY <1>1, AtIs DEF Pcs, Working
<1>4. SessionType'
  BY <1>0, <1>2 DEF SessionType
<1>5. PassInv'
  BY <1>0, <1>1, <1>2, <1>3 DEF PassInv, Makes, Producing, Loading
<1>6. TailInv'
  BY <1>0, <1>1, <1>2, <1>3 DEF TailInv, Loading
<1>7. ~Doomed
  BY <1>1 DEF Doomed
<1>8. MemoryInv'
  BY <1>0, <1>1, <1>2, <1>3, <1>7 DEF MemoryInv, Loading, Bytes
<1>9. CursorInv'
  BY <1>0, <1>1, <1>2, <1>3, <1>7 DEF CursorInv, CursorHolds, NextIsFirst, Loading
<1>10. c.pc \in Serving /\ c'.pc \in Serving
  BY <1>1, <1>3 DEF Serving, Producing
<1>11. ~disposed => c'.frame # "wrong" /\ \A i \in DOMAIN queue' : queue'[i] # "wrong"
  BY <1>0, <1>2, <1>3 DEF FramesInv
<1>12. UNCHANGED disposed
  BY <1>2
<1> QED BY <1>1, <1>3, <1>4, <1>5, <1>6, <1>8, <1>9, <1>10, <1>11, <1>12, Served

LEMMA ProduceRecoveryKeeps ==
  ASSUME OneCode, StreamInv, ProduceRecovery(1)
  PROVE  StreamInv'
<1>0. /\ SessionType /\ c \in CallType /\ Capacity <= SymbolsForSegment
      /\ PassInv /\ TailInv /\ MemoryInv /\ CursorInv /\ FramesInv
  BY AtTheSession
<1>1. /\ c.pc = "fill" /\ ~done /\ Len(queue) < Capacity /\ phase = "recovery"
      /\ IF left <= 0
         THEN target' = (target % SegmentCount) + 1 /\ left' = SymbolsForSegment
         ELSE target' = target /\ left' = left
      /\ Need(1, target', "replay")
      /\ UNCHANGED <<Renderer, toMain, queue, segment, cursor, phase, produced, done,
                     memory, packing, disposed, compressed, faults>>
  BY DEF ProduceRecovery, Room, HasRoom, c
<1>2. UNCHANGED <<buffer, loaded, encoding, container, scratch>>
  BY <1>1 DEF memory, packing
<1>3. /\ SegmentCount \in Nat /\ SegmentCount > 0 /\ target \in 1..SegmentCount
      /\ SymbolsPerSegment \in Nat /\ SymbolsPerSegment > 0
      /\ SymbolsForSegment \in Nat /\ SymbolsForSegment > 0
      /\ left \in 0..SymbolsForSegment /\ Len(queue) \in Nat /\ Capacity \in Nat
  BY <1>0, Sizes DEF SessionType, Segments
<1>4. target % SegmentCount \in 0..(SegmentCount - 1) /\ SegmentCount % SegmentCount = 0
  BY <1>3
<1>5. target' \in Segments /\ left' \in 1..SymbolsForSegment
  BY <1>1, <1>3, <1>4 DEF Segments
<1>6. ~disposed
  BY <1>0, <1>1 DEF PassInv
<1>7. /\ call' \in [Lane -> CallType] /\ c'.pc = IF loaded = target' /\ encoding THEN "replay" ELSE "stat"
      /\ c'.segment = target' /\ c'.next = "replay" /\ c'.filled = 0
      /\ c'.recovering = c.recovering /\ c'.frame = c.frame
  BY <1>1, <1>5, NeedIs DEF IsLoaded
<1>8. NextIsFirst => NextIsFirst' /\ left' = SymbolsForSegment /\ target' = 1 /\ c'.pc = "stat"
  <2> SUFFICES ASSUME NextIsFirst
               PROVE  NextIsFirst' /\ left' = SymbolsForSegment /\ target' = 1 /\ c'.pc = "stat"
    OBVIOUS
  <2>1. ~encoding /\ ((left = 0 /\ target = SegmentCount) \/ (left = SymbolsForSegment /\ target = 1))
    BY DEF NextIsFirst
  <2>2. left' = SymbolsForSegment /\ target' = 1
    BY <1>1, <1>3, <1>4, <2>1
  <2> QED BY <1>1, <1>2, <1>7, <2>1, <2>2 DEF NextIsFirst
<1>9. FirstBatch => FirstBatch' /\ c'.pc = "replay"
  <2> SUFFICES ASSUME FirstBatch PROVE FirstBatch' /\ c'.pc = "replay"
    OBVIOUS
  <2>1. encoding /\ loaded = 1 /\ target = 1 /\ left + Len(queue) >= SymbolsForSegment
    BY DEF FirstBatch
  <2>2. target' = 1 /\ left' = left
    BY <1>0, <1>1, <1>3, <2>1
  <2> QED BY <1>1, <1>2, <1>7, <2>1, <2>2 DEF FirstBatch
<1>10. SessionType'
  BY <1>0, <1>1, <1>2, <1>5 DEF SessionType
<1>11. PassInv'
  <2>1. c'.pc \in {"replay", "stat"} /\ left' >= 1
    BY <1>5, <1>7
  <2>2. done' = FALSE /\ ~disposed'
    BY <1>0, <1>1, <1>6 DEF SessionType
  <2> QED BY <1>1, <1>7, <2>1, <2>2 DEF PassInv, Makes, Producing, Loading
<1>12. c.recovering => (NextIsFirst \/ FirstBatch) /\ phase = "recovery"
  BY <1>0, <1>1, <1>6 DEF TailInv
<1>13. TailInv'
  BY <1>1, <1>7, <1>8, <1>9, <1>12 DEF TailInv, Loading
<1>14. ~Doomed
  BY <1>1 DEF Doomed
<1>15. MemoryInv'
  <2>1. /\ buffer \in [1..SymbolsPerSegment -> Int]
        /\ encoding => loaded \in Segments /\ buffer = Bytes(loaded)
    BY <1>0, <1>1, <1>6, <1>14 DEF MemoryInv, Loading
  <2>2. c'.filled < SymbolsPerSegment /\ \A i \in 1..c'.filled : FALSE
    BY <1>3, <1>7
  <2> QED BY <1>2, <1>7, <2>1, <2>2 DEF MemoryInv, Loading, Bytes
<1>16. CursorInv'
  BY <1>0, <1>1, <1>2, <1>6, <1>7, <1>8, <1>14 DEF CursorInv, CursorHolds, CursorIsAhead, Loading
<1>17. c.pc \in Serving /\ c'.pc \in Serving
  BY <1>1, <1>7 DEF Serving, Producing, Loading
<1>18. c'.frame # "wrong" /\ \A i \in DOMAIN queue' : queue'[i] # "wrong"
  BY <1>0, <1>1, <1>6, <1>7 DEF FramesInv
<1> QED BY <1>1, <1>7, <1>10, <1>11, <1>13, <1>15, <1>16, <1>17, <1>18, Served

LEMMA AdvanceKeeps ==
  ASSUME OneCode, StreamInv, Advance(1)
  PROVE  StreamInv'
<1>0. /\ SessionType /\ c \in CallType
      /\ PassInv /\ TailInv /\ MemoryInv /\ CursorInv /\ FramesInv
  BY AtTheSession
<1>1. /\ c.pc = "advance"
      /\ \/ segment > SegmentCount /\ done' = TRUE /\ encoding' = FALSE /\ At(1, "fill")
         \/ ~(segment > SegmentCount) /\ Need(1, segment, "emit") /\ done' = done /\ encoding' = encoding
      /\ UNCHANGED <<Renderer, toMain, queue, segment, cursor, phase, target, left, produced,
                     buffer, loaded, packing, disposed, compressed, faults>>
  BY DEF Advance, c
<1>2. UNCHANGED <<container, scratch>>
  BY <1>1 DEF packing
<1>3. phase = "pass" /\ Len(queue) < Capacity /\ (~disposed => ~done)
  BY <1>0, <1>1 DEF PassInv, Producing
<1>4. ~(segment > SegmentCount) => segment \in Segments
  BY <1>0, Sizes DEF SessionType, Segments
<1>5. /\ call' \in [Lane -> CallType] /\ c'.recovering = c.recovering /\ c'.frame = c.frame
      /\ \/ done' = TRUE /\ encoding' = FALSE /\ c'.pc = "fill"
         \/ /\ done' = done /\ encoding' = encoding
            /\ c'.pc = IF loaded = segment /\ encoding THEN "emit" ELSE "stat"
            /\ c'.segment = segment /\ c'.next = "emit" /\ c'.filled = 0
  <2>1. CASE segment > SegmentCount /\ done' = TRUE /\ encoding' = FALSE /\ At(1, "fill")
    BY <2>1, AtIs DEF Pcs, Working
  <2>2. CASE ~(segment > SegmentCount) /\ Need(1, segment, "emit") /\ done' = done /\ encoding' = encoding
    BY <1>4, <2>2, NeedIs DEF IsLoaded
  <2> QED BY <1>1, <2>1, <2>2
<1>6. SessionType'
  <2>1. done' \in BOOLEAN /\ encoding' \in BOOLEAN
    BY <1>0, <1>5 DEF SessionType
  <2> QED BY <1>0, <1>1, <1>2, <2>1 DEF SessionType
<1>7. PassInv'
  BY <1>0, <1>1, <1>2, <1>3, <1>5 DEF PassInv, Makes, Producing, Loading
<1>8. ~disposed => ~c.recovering
  BY <1>0, <1>3 DEF TailInv
<1>9. TailInv'
  BY <1>1, <1>5, <1>8 DEF TailInv
<1>10. ~Doomed
  BY <1>1 DEF Doomed
<1>11. MemoryInv'
  <2>1. ~disposed =>
          /\ buffer \in [1..SymbolsPerSegment -> Int]
          /\ encoding => loaded \in Segments /\ buffer = Bytes(loaded)
    BY <1>0, <1>1, <1>10 DEF MemoryInv, Loading
  <2>2. c'.pc # "fill" => c'.filled < SymbolsPerSegment /\ \A i \in 1..c'.filled : FALSE
    BY <1>5, Sizes
  <2> QED BY <1>1, <1>2, <1>5, <2>1, <2>2 DEF MemoryInv, Loading, Bytes
<1>12. CursorInv'
  BY <1>0, <1>1, <1>2, <1>3, <1>5, <1>10 DEF CursorInv, CursorHolds, NextIsFirst, Loading
<1>13. c.pc \in Serving /\ c'.pc \in Serving
  BY <1>1, <1>5 DEF Serving, Producing, Loading
<1>14. ~disposed => c'.frame # "wrong" /\ \A i \in DOMAIN queue' : queue'[i] # "wrong"
  BY <1>0, <1>1, <1>5 DEF FramesInv
<1> QED BY <1>1, <1>5, <1>6, <1>7, <1>9, <1>11, <1>12, <1>13, <1>14, Served

\* A symbol of the segment that is loaded is what its header says.
LEMMA SymbolIsRight ==
  ASSUME OneCode, StreamInv, c.pc \in {"emit", "replay"},
         NEW symbol \in Nat
  PROVE  FrameOf(c.segment, symbol) \in Frames
         /\ (~disposed => FrameOf(c.segment, symbol) = "right")
<1>1. MemoryInv
  BY AtTheSession
<1>2. ~disposed => buffer = Bytes(c.segment)
  BY <1>1 DEF MemoryInv, Doomed, Loading
<1>3. symbol < SymbolsPerSegment \/ symbol >= SymbolsPerSegment
  BY Sizes
<1> QED BY <1>2, <1>3 DEF FrameOf, Frames

LEMMA EmitKeeps ==
  ASSUME OneCode, StreamInv, Emit(1)
  PROVE  StreamInv'
<1>0. /\ SessionType /\ c \in CallType
      /\ PassInv /\ TailInv /\ MemoryInv /\ CursorInv /\ FramesInv
  BY AtTheSession
<1>1. /\ c.pc = "emit"
      /\ \/ /\ cursor < SymbolsForSegment /\ queue' = Append(queue, FrameOf(segment, cursor))
            /\ cursor' = cursor + 1 /\ Count /\ At(1, "fill") /\ segment' = segment
         \/ /\ ~(cursor < SymbolsForSegment) /\ segment' = segment + 1 /\ cursor' = 0
            /\ At(1, "advance") /\ queue' = queue /\ produced' = produced
      /\ UNCHANGED <<Renderer, toMain, phase, target, left, done,
                     memory, packing, disposed, compressed, faults>>
  BY DEF Emit, c
<1>2. UNCHANGED <<buffer, loaded, encoding, container, scratch>>
  BY <1>1 DEF memory, packing
<1>3. phase = "pass" /\ Len(queue) < Capacity /\ (~disposed => ~done) /\ c.segment = segment
  BY <1>0, <1>1 DEF PassInv, Producing, Makes
<1>4. cursor \in Nat /\ segment \in 1..SegmentCount /\ SymbolsForSegment \in Nat /\ SegmentCount \in Nat
  BY <1>0, <1>3, Sizes DEF SessionType, CallType, Segments
<1>5. /\ call' \in [Lane -> CallType] /\ c'.recovering = c.recovering /\ c'.frame = c.frame
      /\ c'.pc \in {"fill", "advance"}
  BY <1>1, AtIs DEF Pcs, Working
<1>6. /\ queue' \in Seq(Frames) /\ Len(queue') <= Capacity
      /\ ~disposed => \A i \in DOMAIN queue' : queue'[i] # "wrong"
      /\ c'.pc = "advance" => Len(queue') < Capacity
  <2> DEFINE f == FrameOf(segment, cursor)
  <2>1. f \in Frames /\ (~disposed => f = "right")
    BY <1>1, <1>3, <1>4, SymbolIsRight
  <2>2. CASE queue' = Append(queue, f) /\ At(1, "fill")
    <3> HIDE DEF f
    <3>1. c'.pc = "fill"
      BY <2>2, AtIs DEF Pcs, Working
    <3> QED BY <1>3, <2>1, <2>2, <3>1, FrameAdded
  <2>3. CASE queue' = queue
    BY <1>0, <1>3, <2>3 DEF SessionType, FramesInv
  <2> QED BY <1>1, <2>2, <2>3
<1>7. SessionType'
  <2>1. /\ segment' \in 1..(SegmentCount + 1) /\ cursor' \in 0..SymbolsForSegment
        /\ produced' \in 0..(ManifestInterval - 1)
    <3>1. CASE cursor < SymbolsForSegment /\ cursor' = cursor + 1 /\ Count /\ segment' = segment
      BY <1>0, <1>4, <3>1, CountIs
    <3>2. CASE segment' = segment + 1 /\ cursor' = 0 /\ produced' = produced
      BY <1>0, <1>4, <3>2 DEF SessionType
    <3> QED BY <1>1, <3>1, <3>2
  <2> QED BY <1>0, <1>1, <1>2, <1>6, <2>1 DEF SessionType
<1>8. PassInv'
  BY <1>0, <1>1, <1>2, <1>3, <1>5, <1>6 DEF PassInv, Makes, Producing, Loading
<1>9. ~disposed => ~c.recovering
  BY <1>0, <1>3 DEF TailInv
<1>10. TailInv'
  BY <1>1, <1>5, <1>9 DEF TailInv
<1>11. ~Doomed
  BY <1>1 DEF Doomed
<1>12. MemoryInv'
  BY <1>0, <1>1, <1>2, <1>5, <1>11 DEF MemoryInv, Loading, Bytes
<1>13. CursorInv'
  BY <1>0, <1>1, <1>2, <1>3, <1>5, <1>11 DEF CursorInv, CursorHolds, NextIsFirst, Loading
<1>14. c.pc \in Serving /\ c'.pc \in Serving
  BY <1>1, <1>5 DEF Serving, Producing, Loading
<1>15. ~disposed => c'.frame # "wrong"
  BY <1>0, <1>5 DEF FramesInv
<1> QED BY <1>1, <1>5, <1>6, <1>7, <1>8, <1>10, <1>12, <1>13, <1>14, <1>15, Served

LEMMA ReplayKeeps ==
  ASSUME OneCode, StreamInv, Replay(1)
  PROVE  StreamInv'
<1>0. /\ SessionType /\ c \in CallType
      /\ PassInv /\ TailInv /\ MemoryInv /\ CursorInv /\ FramesInv
  BY AtTheSession
<1> DEFINE f == FrameOf(c.segment, SymbolsForSegment - left)
<1>1. /\ c.pc = "replay" /\ queue' = Append(queue, f) /\ left' = left - 1 /\ Count /\ At(1, "fill")
      /\ UNCHANGED <<Renderer, toMain, segment, cursor, phase, target, done,
                     memory, packing, disposed, compressed, faults>>
  BY DEF Replay, c
<1>2. UNCHANGED <<buffer, loaded, encoding, container, scratch>>
  BY <1>1 DEF memory, packing
<1>3. phase = "recovery" /\ left >= 1 /\ Len(queue) < Capacity /\ (~disposed => ~done)
  BY <1>0, <1>1 DEF PassInv, Producing, Makes
<1>4. left \in Nat /\ SymbolsForSegment \in Nat /\ SymbolsForSegment - left \in Nat
      /\ left - 1 \in 0..SymbolsForSegment /\ Len(queue) \in Nat
  BY <1>0, <1>3, Sizes DEF SessionType
<1>5. f \in Frames /\ (~disposed => f = "right")
  BY <1>1, <1>4, SymbolIsRight
<1> HIDE DEF f
<1>6. /\ call' \in [Lane -> CallType] /\ c'.recovering = c.recovering /\ c'.frame = c.frame
      /\ c'.pc = "fill"
  BY <1>1, AtIs DEF Pcs, Working
<1>7. /\ queue' \in Seq(Frames) /\ Len(queue') <= Capacity /\ Len(queue') = Len(queue) + 1
      /\ ~disposed => \A i \in DOMAIN queue' : queue'[i] # "wrong"
  BY <1>1, <1>3, <1>5, FrameAdded
<1>8. SessionType'
  BY <1>0, <1>1, <1>2, <1>4, <1>7, CountIs DEF SessionType
<1>9. PassInv'
  BY <1>0, <1>1, <1>2, <1>3, <1>6 DEF PassInv, Makes, Producing, Loading
<1>10. TailInv'
  <2>1. FirstBatch => FirstBatch'
    BY <1>1, <1>2, <1>4, <1>7 DEF FirstBatch
  <2> QED BY <1>0, <1>1, <1>6, <2>1 DEF TailInv, Loading
<1>11. ~Doomed /\ (~disposed => encoding)
  BY <1>0, <1>1 DEF Doomed, MemoryInv
<1>12. MemoryInv'
  BY <1>0, <1>1, <1>2, <1>6, <1>11 DEF MemoryInv, Loading, Bytes
<1>13. CursorInv'
  BY <1>0, <1>1, <1>2, <1>6, <1>11 DEF CursorInv, CursorHolds, NextIsFirst, Loading
<1>14. c.pc \in Serving /\ c'.pc \in Serving
  BY <1>1, <1>6 DEF Serving, Producing, Loading
<1>15. ~disposed => c'.frame # "wrong"
  BY <1>0, <1>6 DEF FramesInv
<1> QED BY <1>1, <1>6, <1>7, <1>8, <1>9, <1>10, <1>12, <1>13, <1>14, <1>15, Served

(***************************************************************************)
(* readSegment()                                                           *)
(***************************************************************************)
\* What a step of a reading that does not end it leaves alone.
LEMMA ReadingIs ==
  ASSUME UNCHANGED Reading
  PROVE  UNCHANGED <<Renderer, toMain, queue, segment, cursor, phase, target, left, produced, done,
                     disposed, compressed>>
BY DEF Reading, pass

\* The frame a call holds while the main process works on it is of no weight.
LEMMA FramesKept ==
  ASSUME FramesInv, UNCHANGED queue, c'.frame \in {c.frame, "error"}
  PROVE  ~disposed => c'.frame # "wrong" /\ \A i \in DOMAIN queue' : queue'[i] # "wrong"
BY DEF FramesInv

LEMMA StatKeeps ==
  ASSUME OneCode, StreamInv, StatAnswers(1)
  PROVE  StreamInv'
<1>0. /\ SessionType /\ c \in CallType
      /\ PassInv /\ TailInv /\ MemoryInv /\ CursorInv /\ FramesInv
  BY AtTheSession
<1>1. /\ c.pc = "stat" /\ ~disposed /\ At(1, IF compressed THEN "cover" ELSE "reading")
      /\ UNCHANGED <<Reading, memory, packing, faults>>
  BY DEF StatAnswers, c
<1>2. /\ UNCHANGED <<Renderer, toMain, queue, segment, cursor, phase, target, left, produced, done,
                     disposed, compressed, buffer, loaded, encoding, container, scratch, faults>>
  BY <1>1, ReadingIs DEF memory, packing
<1>3. /\ call' \in [Lane -> CallType] /\ c'.pc = IF compressed THEN "cover" ELSE "reading"
      /\ c'.segment = c.segment /\ c'.next = c.next /\ c'.filled = c.filled
      /\ c'.recovering = c.recovering /\ c'.frame = c.frame
  <2> DEFINE pc == IF compressed THEN "cover" ELSE "reading"
  <2>1. At(1, pc) /\ pc \in Pcs
    BY <1>1 DEF Pcs, Working
  <2> HIDE DEF pc
  <2>2. /\ call' \in [Lane -> CallType] /\ c'.pc = pc
        /\ c'.segment = c.segment /\ c'.next = c.next /\ c'.filled = c.filled
        /\ c'.recovering = c.recovering /\ c'.frame = c.frame
    BY <2>1, AtIs
  <2> QED BY <2>2 DEF pc
<1>4. SessionType'
  BY <1>0, <1>2 DEF SessionType
<1>5. PassInv'
  BY <1>0, <1>1, <1>2, <1>3 DEF PassInv, Makes, Producing, Loading
<1>6. TailInv'
  BY <1>0, <1>1, <1>2, <1>3 DEF TailInv, NextIsFirst, Loading
<1>7. MemoryInv'
  BY <1>0, <1>1, <1>2, <1>3 DEF MemoryInv, Loading, Bytes
<1>8. ~Doomed
  BY <1>1 DEF Doomed
<1>9. CursorInv'
  BY <1>0, <1>1, <1>2, <1>3, <1>8 DEF CursorInv, CursorHolds, CursorIsAhead, NextIsFirst, Loading
<1>10. c.pc \in Serving /\ c'.pc \in Serving
  BY <1>1, <1>3 DEF Serving, Producing, Loading
<1> QED BY <1>0, <1>2, <1>3, <1>4, <1>5, <1>6, <1>7, <1>9, <1>10, FramesKept, Served

LEMMA LandsKeeps ==
  ASSUME OneCode, StreamInv, ReadLands(1)
  PROVE  StreamInv'
<1>0. /\ SessionType /\ c \in CallType
      /\ PassInv /\ TailInv /\ MemoryInv /\ CursorInv /\ FramesInv
  BY AtTheSession
<1>1. /\ c.pc = "reading" /\ At(1, "landed")
      /\ IF compressed THEN scratch' = c.window /\ buffer' = buffer
                       ELSE buffer' = Bytes(c.segment) /\ scratch' = scratch
      /\ UNCHANGED <<Reading, loaded, encoding, container, faults>>
  BY DEF ReadLands, c
<1>2. /\ UNCHANGED <<Renderer, toMain, queue, segment, cursor, phase, target, left, produced, done,
                     disposed, compressed>>
  BY <1>1, ReadingIs
<1>3. /\ call' \in [Lane -> CallType] /\ c'.pc = "landed"
      /\ c'.segment = c.segment /\ c'.next = c.next /\ c'.filled = c.filled /\ c'.window = c.window
      /\ c'.recovering = c.recovering /\ c'.frame = c.frame
  BY <1>1, AtIs DEF Pcs, Working
<1>4. SessionType'
  <2>1. scratch' \in Windows
    BY <1>0, <1>1 DEF SessionType, CallType
  <2> QED BY <1>0, <1>1, <1>2, <2>1 DEF SessionType
<1>5. PassInv'
  BY <1>0, <1>1, <1>2, <1>3 DEF PassInv, Makes, Producing, Loading
<1>6. TailInv'
  BY <1>0, <1>1, <1>2, <1>3 DEF TailInv, NextIsFirst, Loading
<1>7. MemoryInv'
  <2>1. Bytes(c.segment) \in [1..SymbolsPerSegment -> Int]
    <3>1. c.segment \in Nat /\ SymbolsPerSegment \in Nat
      BY <1>0, Sizes DEF CallType, Segments
    <3> DEFINE base == (c.segment - 1) * SymbolsPerSegment
    <3>2. base \in Int
      BY <3>1
    <3> HIDE DEF base
    <3>3. \A i \in 1..SymbolsPerSegment : base + i - 1 \in Int
      BY <3>2
    <3> QED BY <3>3 DEF Bytes, base
  <2>2. ~disposed => buffer' \in [1..SymbolsPerSegment -> Int]
    BY <1>0, <1>1, <2>1 DEF MemoryInv
  <2>3. ~compressed => buffer' = Bytes(c.segment)
    BY <1>1
  <2>4. compressed => buffer' = buffer
    BY <1>1
  <2> QED BY <1>0, <1>1, <1>2, <1>3, <2>2, <2>3, <2>4 DEF MemoryInv, Loading, Bytes
<1>8. CursorInv'
  <2>1. Wanted(1)' = Wanted(1)
    BY <1>3 DEF Wanted, c
  <2> QED BY <1>0, <1>1, <1>2, <1>3, <2>1 DEF CursorInv
<1>9. c.pc \in Serving /\ c'.pc \in Serving
  BY <1>1, <1>3 DEF Serving, Producing, Loading
<1> QED BY <1>0, <1>2, <1>3, <1>4, <1>5, <1>6, <1>7, <1>8, <1>9, FramesKept, Served

LEMMA RecordIs ==
  ASSUME NEW w \in Windows
  PROVE  /\ Record(w) \in Seq(Int) /\ Record(w) # <<>>
         /\ Len(Record(w)) = RecordLength[w] /\ RecordLength[w] \in Nat /\ RecordLength[w] >= 1
         /\ \A i \in 1..RecordLength[w] : Record(w)[i] = RecordStart[w] + i - 1
<1>1. RecordLength[w] \in Nat /\ RecordLength[w] >= 1 /\ RecordStart[w] \in Nat
  BY LengthsAreNumbers, StartsAreOrdered
<1>2. \A i \in 1..RecordLength[w] : RecordStart[w] + i - 1 \in Int
  BY <1>1
<1>3. Record(w) \in [1..RecordLength[w] -> Int]
  BY <1>2 DEF Record
<1>4. Record(w) \in Seq(Int) /\ Len(Record(w)) = RecordLength[w]
  <2> DEFINE r == Record(w)
             n == RecordLength[w]
  <2>1. r \in [1..n -> Int] /\ n \in Nat
    BY <1>1, <1>3
  <2> HIDE DEF r, n
  <2>2. r \in Seq(Int) /\ Len(r) = n
    BY <2>1
  <2> QED BY <2>2 DEF r, n
<1>5. \A i \in 1..RecordLength[w] : Record(w)[i] = RecordStart[w] + i - 1
  BY DEF Record
<1>6. Record(w) # <<>>
  BY <1>1, <1>4
<1> QED BY <1>1, <1>4, <1>5, <1>6

\* What was read is believed: the segment it was asked for is in the buffer.
LEMMA LoadsKeep ==
  ASSUME OneCode, StreamInv, c.pc \in Loading, Loads(1), disposed \/ buffer' = Bytes(c.segment),
         UNCHANGED <<Reading, faults, scratch>>,
         container' \in [record : Seq(Int), index : 0..WindowCount, start : 0..TransportSize],
         disposed => container'.index = 0 /\ container'.start = 0,
         compressed /\ ~disposed => CursorHolds'
  PROVE  StreamInv'
<1>0. /\ SessionType /\ c \in CallType
      /\ PassInv /\ TailInv /\ MemoryInv /\ CursorInv /\ FramesInv
  BY AtTheSession
<1>1. loaded' = c.segment /\ encoding' = TRUE /\ At(1, c.next) /\ c.next \in {"emit", "replay"}
      /\ c.segment \in Segments
  BY <1>0 DEF Loads, c, CallType
<1>2. /\ UNCHANGED <<Renderer, toMain, queue, segment, cursor, phase, target, left, produced, done,
                     disposed, compressed>>
  BY ReadingIs
<1>3. /\ call' \in [Lane -> CallType] /\ c'.pc = c.next
      /\ c'.segment = c.segment /\ c'.next = c.next
      /\ c'.recovering = c.recovering /\ c'.frame = c.frame
  BY <1>1, AtIs DEF Pcs, Working
<1>4. c'.pc \in {"emit", "replay"} /\ Makes(c'.pc) /\ c.pc \in Producing /\ c'.pc \in Producing
  BY <1>1, <1>3 DEF Makes, Producing
<1>5. SessionType'
  <2>1. loaded' \in 0..SegmentCount
    BY <1>1, Sizes DEF Segments
  <2> QED BY <1>0, <1>1, <1>2, <2>1 DEF SessionType
<1>6. ~disposed => ~done
  BY <1>0, <1>4 DEF PassInv
<1>7. PassInv'
  BY <1>0, <1>1, <1>2, <1>3, <1>4, <1>6 DEF PassInv, Makes, Loading
<1>8. TailInv'
  <2> SUFFICES ASSUME ~disposed, c.recovering PROVE phase = "recovery" /\ c'.pc = "replay" /\ FirstBatch'
    BY <1>2, <1>3, <1>4 DEF TailInv, Loading
  <2>1. NextIsFirst /\ left = SymbolsForSegment /\ phase = "recovery"
    BY <1>0 DEF TailInv
  <2>2. c'.pc = "replay" /\ c.segment = target
    BY <1>0, <1>4, <2>1 DEF PassInv
  <2>3. left \in Nat /\ left >= 1 /\ Len(queue) \in Nat
    BY <1>0, <2>1, Sizes DEF SessionType
  <2>4. target = 1
    BY <2>1, <2>3 DEF NextIsFirst
  <2> QED BY <1>1, <1>2, <2>1, <2>2, <2>3, <2>4 DEF FirstBatch
<1>9. MemoryInv'
  <2>1. c.segment \in Nat /\ SymbolsPerSegment \in Nat
    BY <1>1, Sizes DEF Segments
  <2> DEFINE base == (c.segment - 1) * SymbolsPerSegment
  <2>2. base \in Int
    BY <2>1
  <2> HIDE DEF base
  <2>3. \A i \in 1..SymbolsPerSegment : base + i - 1 \in Int
    BY <2>2
  <2>4. Bytes(c.segment) \in [1..SymbolsPerSegment -> Int]
    BY <2>3 DEF Bytes, base
  <2>5. disposed \/ buffer' = Bytes(loaded')
    BY <1>1
  <2>6. disposed \/ (buffer' \in [1..SymbolsPerSegment -> Int] /\ loaded' \in Segments)
    BY <1>1, <2>4
  <2> QED BY <1>1, <1>2, <1>3, <1>4, <2>5, <2>6 DEF MemoryInv, Loading
<1>10. CursorInv'
  BY <1>2, <1>4 DEF CursorInv
<1>11. c.pc \in Serving /\ c'.pc \in Serving
  BY <1>4 DEF Serving
<1> QED BY <1>0, <1>2, <1>3, <1>5, <1>7, <1>8, <1>9, <1>10, <1>11, FramesKept, Served

LEMMA ReturnsKeeps ==
  ASSUME OneCode, StreamInv, ReadReturns(1)
  PROVE  StreamInv'
<1>0. /\ SessionType /\ c \in CallType
      /\ PassInv /\ TailInv /\ MemoryInv /\ CursorInv /\ FramesInv
  BY AtTheSession
<1>1. /\ c.pc = "landed" /\ UNCHANGED <<Reading, buffer, scratch, faults>>
      /\ IF compressed
         THEN /\ container' = [container EXCEPT !.record = Record(scratch)]
              /\ At(1, "seek") /\ loaded' = loaded /\ encoding' = encoding
         ELSE Loads(1) /\ container' = container
  BY DEF ReadReturns, c
<1>2. /\ UNCHANGED <<Renderer, toMain, queue, segment, cursor, phase, target, left, produced, done,
                     disposed, compressed>>
  BY <1>1, ReadingIs
<1>3. c.pc \in Loading
  BY <1>1 DEF Loading
<1>4. CASE ~compressed
  <2>1. disposed \/ buffer' = Bytes(c.segment)
    BY <1>0, <1>1, <1>4 DEF MemoryInv
  <2>2. disposed => container.index = 0 /\ container.start = 0
    BY <1>0 DEF PassInv
  <2> QED BY <1>0, <1>1, <1>3, <1>4, <2>1, <2>2, LoadsKeep DEF SessionType
<1>5. CASE compressed
  <2>1. /\ call' \in [Lane -> CallType] /\ c'.pc = "seek"
        /\ c'.segment = c.segment /\ c'.next = c.next /\ c'.filled = c.filled /\ c'.window = c.window
        /\ c'.recovering = c.recovering /\ c'.frame = c.frame
    BY <1>1, <1>5, AtIs DEF Pcs, Working
  <2>2. /\ container'.record = Record(scratch) /\ container'.index = container.index
        /\ container'.start = container.start
        /\ container' \in [record : Seq(Int), index : 0..WindowCount, start : 0..TransportSize]
    <3>1. scratch \in Windows
      BY <1>0 DEF SessionType
    <3>2. Record(scratch) \in Seq(Int)
      BY <3>1, RecordIs
    <3> QED BY <1>0, <1>1, <1>5, <3>2 DEF SessionType
  <2>3. SessionType'
    BY <1>0, <1>1, <1>2, <1>5, <2>2 DEF SessionType
  <2>4. PassInv'
    BY <1>0, <1>1, <1>2, <1>5, <2>1, <2>2 DEF PassInv, Makes, Producing, Loading
  <2>5. TailInv'
    BY <1>0, <1>1, <1>2, <1>5, <2>1 DEF TailInv, NextIsFirst, Loading
  <2>6. MemoryInv'
    BY <1>0, <1>1, <1>2, <1>5, <2>1 DEF MemoryInv, Loading, Bytes
  <2>7. CursorInv'
    <3> SUFFICES ASSUME ~disposed
                 PROVE  container'.record # <<>> /\ CursorHolds' /\ container'.start <= Wanted(1)'
      BY <1>2, <2>1 DEF CursorInv
    <3>1. /\ container.index = c.window /\ scratch = c.window
          /\ container.start = RecordStart[c.window] /\ container.start <= Wanted(1)
      BY <1>0, <1>1, <1>5 DEF CursorInv
    <3>2. c.window \in Windows /\ Record(c.window) # <<>>
      BY <1>0, RecordIs DEF CallType
    <3>3. Wanted(1)' = Wanted(1)
      BY <2>1 DEF Wanted, c
    <3> QED BY <2>2, <3>1, <3>2, <3>3 DEF CursorHolds
  <2>8. c.pc \in Serving /\ c'.pc \in Serving
    BY <1>1, <2>1 DEF Serving, Producing, Loading
  <2> QED BY <1>0, <1>2, <2>1, <2>3, <2>4, <2>5, <2>6, <2>7, <2>8, FramesKept, Served
<1> QED BY <1>4, <1>5

\* A read fails: the transfer ends, or it was the first of a recovery tail.
LEMMA FailedKeeps ==
  ASSUME OneCode, StreamInv, c.pc \in Loading, Reply(1, "error"),
         UNCHANGED <<Reading, loaded, encoding, scratch>>, disposed \/ buffer' = buffer,
         faults' \in 0..MaxFaults,
         container' \in [record : Seq(Int), index : 0..WindowCount, start : 0..TransportSize],
         disposed => container'.index = 0 /\ container'.start = 0,
         compressed /\ ~disposed => CursorHolds' \/ CursorIsAhead'
  PROVE  StreamInv'
<1>0. /\ SessionType /\ c \in CallType
      /\ PassInv /\ TailInv /\ MemoryInv /\ CursorInv /\ FramesInv
  BY AtTheSession
<1>1. /\ UNCHANGED <<Renderer, toMain, queue, segment, cursor, phase, target, left, produced, done,
                     disposed, compressed, loaded, encoding, scratch>>
  BY ReadingIs
<1>2. /\ call' \in [Lane -> CallType] /\ c'.pc = "reply" /\ c'.frame = "error"
      /\ c'.recovering = c.recovering
  BY ReplyIs
<1>3. c.pc \in Producing /\ c.pc \in Serving /\ (~disposed => ~done)
  BY <1>0 DEF Producing, Serving, PassInv
<1>4. SessionType'
  BY <1>0, <1>1 DEF SessionType
<1>5. PassInv'
  BY <1>0, <1>1, <1>2, <1>3 DEF PassInv, Makes, Producing, Loading
<1>6. TailInv'
  BY <1>0, <1>1, <1>2 DEF TailInv, Loading
<1>7. ~disposed /\ c.recovering => NextIsFirst'
  BY <1>0, <1>1 DEF TailInv, NextIsFirst
<1>8. ~c.recovering => Doomed'
  BY <1>2 DEF Doomed
<1>9. MemoryInv'
  BY <1>0, <1>1, <1>2, <1>7, <1>8 DEF MemoryInv, Loading, NextIsFirst
<1>10. CursorInv'
  BY <1>1, <1>2, <1>7, <1>8 DEF CursorInv, Loading
<1> QED BY <1>0, <1>1, <1>2, <1>3, <1>4, <1>5, <1>6, <1>9, <1>10, FramesKept, Served

LEMMA FailsKeeps ==
  ASSUME OneCode, StreamInv, Fails(1)
  PROVE  StreamInv'
<1>0. SessionType /\ c \in CallType /\ PassInv /\ CursorInv
  BY AtTheSession
<1>1. /\ c.pc \in {"stat", "reading", "landed"} /\ Reply(1, "error")
      /\ disposed \/ faults < MaxFaults
      /\ faults' = (IF disposed THEN faults ELSE faults + 1)
      /\ UNCHANGED <<Reading, memory, packing>>
  BY DEF Fails, c
<1>2. UNCHANGED <<container, scratch, buffer, loaded, encoding>>
  BY <1>1 DEF packing, memory
<1>3. c.pc \in Loading
  BY <1>1 DEF Loading
<1>4. faults' \in 0..MaxFaults
  <2>1. faults \in 0..MaxFaults /\ MaxFaults \in Nat
    BY <1>0, Sizes DEF SessionType
  <2> QED BY <1>1, <2>1
<1>5. compressed /\ ~disposed => CursorHolds \/ CursorIsAhead
  <2>1. CASE c.pc = "stat"
    BY <1>0, <2>1 DEF CursorInv, Doomed
  <2>2. CASE c.pc # "stat"
    BY <1>0, <1>1, <2>2 DEF CursorInv, CursorHolds, CursorIsAhead
  <2> QED BY <2>1, <2>2
<1>6. compressed /\ ~disposed => CursorHolds' \/ CursorIsAhead'
  BY <1>2, <1>5 DEF CursorHolds, CursorIsAhead
<1>7. disposed => container'.index = 0 /\ container'.start = 0
  BY <1>0, <1>2 DEF PassInv
<1> QED BY <1>0, <1>1, <1>2, <1>3, <1>4, <1>6, <1>7, FailedKeeps DEF SessionType

\* recordCovering() on entry: a read behind the record starts over.
LEMMA PositionIs ==
  ASSUME OneCode, StreamInv, c.pc \in {"cover", "seek"}
  PROVE  /\ Position(1) = container \/ (Position(1) = NoRecord /\ Position(1).record = <<>>)
         /\ Position(1) \in [record : Seq(Int), index : 0..WindowCount, start : 0..TransportSize]
         /\ disposed => Position(1).index = 0 /\ Position(1).start = 0
         /\ Wanted(1) \in Nat /\ (c.segment - 1) * SymbolsPerSegment \in Nat
         /\ ~disposed => compressed /\ (Position(1) = container => CursorHolds \/ CursorIsAhead)
         /\ ~disposed /\ Position(1).record # <<>> =>
              Position(1) = container /\ CursorHolds /\ container.start <= Wanted(1)
<1>0. SessionType /\ c \in CallType /\ PassInv /\ MemoryInv /\ CursorInv
  BY AtTheSession
<1>1. NoRecord.record = <<>> /\ NoRecord.index = 0 /\ NoRecord.start = 0
  BY DEF NoRecord
<1>2. NoRecord \in [record : Seq(Int), index : 0..WindowCount, start : 0..TransportSize]
  <2>1. <<>> \in Seq(Int)
    OBVIOUS
  <2>2. 0 \in 0..WindowCount /\ 0 \in 0..TransportSize
    BY LengthsAreNumbers, StartsAreOrdered
  <2> QED BY <2>1, <2>2 DEF NoRecord
<1>3. Position(1) = IF c.pc = "cover" /\ container.record # <<>> /\ Wanted(1) < container.start
                    THEN NoRecord ELSE container
  BY DEF Position, Restarted, Rewound, c
<1>4. (c.segment - 1) * SymbolsPerSegment \in Nat /\ Wanted(1) \in Nat
  <2>1. c.segment - 1 \in Nat /\ SymbolsPerSegment \in Nat /\ c.filled \in Nat
    BY <1>0, Sizes DEF CallType, Segments
  <2>2. (c.segment - 1) * SymbolsPerSegment \in Nat
    BY <2>1
  <2> QED BY <2>1, <2>2 DEF Wanted, c
<1>5. ~disposed => compressed
  BY <1>0 DEF MemoryInv
<1>6. ~disposed => CursorHolds \/ (c.pc = "cover" /\ CursorIsAhead /\ Wanted(1) = 0)
  <2> SUFFICES ASSUME ~disposed, ~CursorHolds
               PROVE  c.pc = "cover" /\ CursorIsAhead /\ Wanted(1) = 0
    OBVIOUS
  <2>1. ~Doomed
    BY DEF Doomed
  <2>2. c.pc = "cover" /\ CursorIsAhead /\ c.segment = 1 /\ c.filled = 0
    BY <1>0, <1>5, <2>1 DEF CursorInv, Loading
  <2>3. (1 - 1) * SymbolsPerSegment = 0
    BY Sizes
  <2> QED BY <2>2, <2>3 DEF Wanted, c
<1>7. container.start \in Nat
  BY <1>0, StartsAreOrdered DEF SessionType
<1>8. ASSUME ~disposed, Position(1).record # <<>>
      PROVE  Position(1) = container /\ CursorHolds /\ container.start <= Wanted(1)
  <2>1. Position(1) = container /\ ~(c.pc = "cover" /\ Wanted(1) < container.start)
    BY <1>1, <1>3, <1>8
  <2>2. CursorIsAhead => container.start > 0
    <3> SUFFICES ASSUME CursorIsAhead PROVE container.start > 0
      OBVIOUS
    <3>1. container.index \in Windows /\ container.index > 1 /\ container.start = RecordStart[container.index]
      BY LengthsAreNumbers DEF CursorIsAhead, Windows
    <3> QED BY <3>1, StartsAreOrdered
  <2>3. CursorHolds
    BY <1>6, <1>7, <1>8, <2>1, <2>2
  <2>4. c.pc = "seek" => container.start <= Wanted(1)
    BY <1>0, <1>5, <1>8 DEF CursorInv
  <2> QED BY <1>4, <1>7, <2>1, <2>3, <2>4
<1> QED BY <1>0, <1>1, <1>2, <1>3, <1>4, <1>5, <1>6, <1>8 DEF SessionType, PassInv

\* The record of window w covers the offset, ...
Covering(cur, w, offset) ==
  /\ w \in Windows /\ cur.record = Record(w) /\ cur.start = RecordStart[w]
  /\ offset \in Nat /\ RecordStart[w] <= offset /\ offset < RecordStart[w] + RecordLength[w]

\* ... and one turn of readTransport() copies from it: what follows what is
\* filled is the stream from the offset on.
Copies(cur, offset, into, filled, size) ==
  LET out   == Copied(cur, offset, into, filled)
      taken == Taken(cur, offset, size - filled)
  IN  /\ taken \in 1..(size - filled)
      /\ out \in [1..size -> Int]
      /\ \A i \in 1..filled : out[i] = into[i]
      /\ \A i \in (filled + 1)..(filled + taken) : out[i] = offset + (i - filled) - 1

LEMMA CopiedIs ==
  ASSUME NEW cur, NEW w, NEW offset, Covering(cur, w, offset),
         NEW size \in Nat, NEW filled \in Nat, filled < size,
         NEW into \in [1..size -> Int]
  PROVE  Copies(cur, offset, into, filled, size)
<1>0. /\ w \in Windows /\ cur.record = Record(w) /\ cur.start = RecordStart[w]
      /\ offset \in Nat /\ RecordStart[w] <= offset /\ offset < RecordStart[w] + RecordLength[w]
  BY DEF Covering
<1> DEFINE r == Record(w)
           n == RecordLength[w]
           start == RecordStart[w]
<1>1. /\ r \in Seq(Int) /\ Len(r) = n /\ n \in Nat /\ n >= 1
      /\ start \in Nat /\ start <= offset /\ offset < start + n
      /\ \A i \in 1..n : r[i] = start + i - 1
  BY <1>0, RecordIs, StartsAreOrdered
<1>2. cur.record = r /\ cur.start = start /\ offset \in Nat
  BY <1>0
<1> HIDE DEF r, n, start
<1> DEFINE from == offset - start
           taken == IF n - from < size - filled THEN n - from ELSE size - filled
           piece == SubSeq(r, from + 1, from + taken)
<1>3. /\ from \in Nat /\ from < n /\ taken \in Nat /\ taken >= 1 /\ taken <= size - filled
      /\ from + taken <= n /\ from + taken \in Nat /\ size - filled \in Nat
  <2>1. from \in Nat /\ from < n /\ n - from \in Nat /\ n - from >= 1
    <3>1. \A s, o, k \in Nat : s <= o /\ o < s + k =>
            o - s \in Nat /\ o - s < k /\ k - (o - s) \in Nat /\ k - (o - s) >= 1
      OBVIOUS
    <3> QED BY <1>1, <1>2, <3>1
  <2>2. size - filled \in Nat /\ size - filled >= 1
    OBVIOUS
  <2> HIDE DEF from
  <2>3. CASE n - from < size - filled
    <3>1. taken = n - from
      BY <2>3
    <3> HIDE DEF taken
    <3> QED BY <1>1, <2>1, <2>2, <2>3, <3>1
  <2>4. CASE ~(n - from < size - filled)
    <3>1. taken = size - filled
      BY <2>4
    <3> HIDE DEF taken
    <3> QED BY <1>1, <2>1, <2>2, <2>4, <3>1
  <2> QED BY <2>3, <2>4
<1>4. Taken(cur, offset, size - filled) = taken
  BY <1>1, <1>2 DEF Taken
<1>5. Slice(r, from, from + taken) = piece
  <2> DEFINE to == from + taken
             at(k) == IF k >= 0 THEN (IF k > Len(r) THEN Len(r) ELSE k)
                      ELSE (IF Len(r) + k < 0 THEN 0 ELSE Len(r) + k)
  <2>1. at(from) = from
    BY <1>1, <1>3
  <2>2. at(to) = to
    <3>1. to >= 0 /\ ~(to > Len(r))
      BY <1>1, <1>3
    <3> HIDE DEF to
    <3> QED BY <3>1
  <2>3. Slice(r, from, to) = SubSeq(r, at(from) + 1, at(to))
    BY DEF Slice
  <2> HIDE DEF at
  <2> QED BY <2>1, <2>2, <2>3
<1>6. Len(into) = size /\ DOMAIN into = 1..size
  <2>1. into \in Seq(Int)
    OBVIOUS
  <2> QED BY <2>1
<1>7. Copied(cur, offset, into, filled) =
        [i \in 1..size |-> IF i > filled /\ i - filled <= Len(piece) THEN piece[i - filled] ELSE into[i]]
  BY <1>2, <1>4, <1>5, <1>6 DEF Copied
<1>8. /\ Len(piece) = taken
      /\ \A k \in 1..taken : piece[k] = r[from + k] /\ from + k \in 1..n
  <2>1. r \in Seq(Int) /\ Len(r) = n /\ from \in Nat /\ taken \in Nat /\ from + taken <= n
    BY <1>1, <1>3
  <2> HIDE DEF from, taken
  <2>2. /\ Len(SubSeq(r, from + 1, from + taken)) = taken
        /\ \A k \in 1..taken : SubSeq(r, from + 1, from + taken)[k] = r[from + k]
    BY <2>1
  <2>3. \A k \in 1..taken : from + k \in 1..n
    <3>1. \A a, b, m \in Nat : a + b <= m => \A k \in 1..b : a + k \in 1..m
      OBVIOUS
    <3> QED BY <1>1, <2>1, <3>1
  <2> QED BY <2>2, <2>3
<1>9. \A k \in 1..taken : piece[k] = offset + k - 1
  <2> SUFFICES ASSUME NEW k \in 1..taken PROVE piece[k] = offset + k - 1
    OBVIOUS
  <2>1. piece[k] = r[from + k] /\ from + k \in 1..n
    BY <1>8
  <2>2. r[from + k] = start + (from + k) - 1
    BY <1>1, <2>1
  <2>3. start + (from + k) - 1 = offset + k - 1
    BY <1>1, <1>2, <1>3
  <2> QED BY <2>1, <2>2, <2>3
<1>10. taken \in Nat /\ taken >= 1 /\ filled + taken <= size
  BY <1>3
<1> DEFINE out == Copied(cur, offset, into, filled)
<1> HIDE DEF piece, taken, from
<1>11. out = [i \in 1..size |-> IF i > filled /\ i - filled <= taken THEN offset + (i - filled) - 1 ELSE into[i]]
  <2>1. \A i \in 1..size : i > filled /\ i - filled <= taken => i - filled \in 1..taken
    BY <1>10
  <2> QED BY <1>7, <1>8, <1>9, <2>1
<1> HIDE DEF out
<1>12. /\ out \in [1..size -> Int]
       /\ \A i \in 1..filled : out[i] = into[i]
       /\ \A i \in (filled + 1)..(filled + taken) : out[i] = offset + (i - filled) - 1
  BY <1>2, <1>10, <1>11
<1>13. taken \in 1..(size - filled)
  BY <1>3
<1> QED BY <1>4, <1>12, <1>13 DEF out, Copies

LEMMA CoverKeeps ==
  ASSUME OneCode, StreamInv, Cover(1)
  PROVE  StreamInv'
<1>0. /\ SessionType /\ c \in CallType
      /\ PassInv /\ TailInv /\ MemoryInv /\ CursorInv /\ FramesInv
  BY AtTheSession
<1> DEFINE room == SymbolsPerSegment - c.filled
           filled == c.filled + Taken(Position(1), Wanted(1), room)
<1>1. /\ c.pc \in {"cover", "seek"} /\ Reaches(Position(1), Wanted(1))
      /\ container' = Position(1)
      /\ buffer' = Copied(Position(1), Wanted(1), buffer, c.filled)
      /\ UNCHANGED <<Reading, scratch, faults>>
  BY DEF Cover, c
<1>2. /\ UNCHANGED <<Renderer, toMain, queue, segment, cursor, phase, target, left, produced, done,
                     disposed, compressed>>
  BY <1>1, ReadingIs
<1>3. c.pc \in Loading /\ c.pc \in Serving
  BY <1>1 DEF Loading, Serving, Producing
<1>4. /\ Position(1).record # <<>> /\ Position(1) = container /\ container' = container
      /\ container \in [record : Seq(Int), index : 0..WindowCount, start : 0..TransportSize]
      /\ disposed => container.index = 0 /\ container.start = 0
      /\ Wanted(1) \in Nat /\ (c.segment - 1) * SymbolsPerSegment \in Nat
      /\ ~disposed => compressed /\ CursorHolds /\ container.start <= Wanted(1)
                      /\ Wanted(1) < container.start + Len(container.record)
  BY <1>1, PositionIs DEF Reaches
<1>5. CursorHolds' <=> CursorHolds
  BY <1>4 DEF CursorHolds
<1>6. \* (a disposed buffer has been wiped, and is of no weight)
      ~disposed =>
        /\ filled \in (c.filled + 1)..SymbolsPerSegment
        /\ buffer' \in [1..SymbolsPerSegment -> Int]
        /\ \A i \in 1..filled : buffer'[i] = Bytes(c.segment)[i]
        /\ filled >= SymbolsPerSegment => buffer' = Bytes(c.segment)
  <2> SUFFICES ASSUME ~disposed
               PROVE  /\ filled \in (c.filled + 1)..SymbolsPerSegment
                      /\ buffer' \in [1..SymbolsPerSegment -> Int]
                      /\ \A i \in 1..filled : buffer'[i] = Bytes(c.segment)[i]
                      /\ filled >= SymbolsPerSegment => buffer' = Bytes(c.segment)
    OBVIOUS
  <2>1. /\ container.index \in Windows /\ container.record = Record(container.index)
        /\ container.start = RecordStart[container.index] /\ container.start \in Nat
    BY <1>4, StartsAreOrdered DEF CursorHolds
  <2>2. PICK w \in Windows : w = container.index
    BY <2>1
  <2>3. container.record = Record(w) /\ container.start = RecordStart[w]
    BY <2>1, <2>2
  <2>4. Len(container.record) = RecordLength[w]
    BY <2>1, <2>2, RecordIs
  <2>5. /\ c.filled \in Nat /\ SymbolsPerSegment \in Nat /\ c.filled < SymbolsPerSegment
        /\ buffer \in [1..SymbolsPerSegment -> Int]
        /\ \A i \in 1..c.filled : buffer[i] = Bytes(c.segment)[i]
    BY <1>0, <1>3, <1>4, Sizes DEF MemoryInv, CallType
  <2> DEFINE taken == Taken(container, Wanted(1), SymbolsPerSegment - c.filled)
             out   == Copied(container, Wanted(1), buffer, c.filled)
  <2>6. /\ taken \in 1..(SymbolsPerSegment - c.filled)
        /\ out \in [1..SymbolsPerSegment -> Int]
        /\ \A i \in 1..c.filled : out[i] = buffer[i]
        /\ \A i \in (c.filled + 1)..(c.filled + taken) : out[i] = Wanted(1) + (i - c.filled) - 1
    <3>1. RecordStart[w] <= Wanted(1) /\ Wanted(1) < RecordStart[w] + RecordLength[w]
      BY <1>4, <2>3, <2>4
    <3>2. Covering(container, w, Wanted(1))
      BY <1>4, <2>3, <3>1 DEF Covering
    <3>3. Copies(container, Wanted(1), buffer, c.filled, SymbolsPerSegment)
      BY <2>5, <3>2, CopiedIs
    <3> QED BY <3>3 DEF Copies
  <2>7. filled = c.filled + taken /\ buffer' = out
    BY <1>1, <1>4
  <2> HIDE DEF taken, out, filled
  <2> DEFINE base == (c.segment - 1) * SymbolsPerSegment
  <2>8. Wanted(1) = base + c.filled /\ base \in Nat
    BY <1>4 DEF Wanted, c
  <2>9. \A i \in 1..SymbolsPerSegment : Bytes(c.segment)[i] = base + i - 1
    BY DEF Bytes
  <2> HIDE DEF base
  <2>10. taken \in Nat /\ taken >= 1 /\ c.filled + taken <= SymbolsPerSegment
    BY <2>5, <2>6
  <2>11. \A i \in 1..filled : buffer'[i] = Bytes(c.segment)[i]
    <3> SUFFICES ASSUME NEW i \in 1..filled PROVE out[i] = Bytes(c.segment)[i]
      BY <2>7
    <3>1. CASE i \in 1..c.filled
      BY <2>5, <2>6, <3>1
    <3>2. CASE i \in (c.filled + 1)..(c.filled + taken)
      <4>1. i \in 1..SymbolsPerSegment
        BY <2>5, <2>10, <3>2
      <4>2. out[i] = Wanted(1) + (i - c.filled) - 1
        BY <2>6, <3>2
      <4> QED BY <2>5, <2>8, <2>9, <4>1, <4>2
    <3>3. c.filled \in Nat
      BY <2>5
    <3>4. i \in 1..(c.filled + taken)
      BY <2>7
    <3>5. i \in 1..c.filled \/ i \in (c.filled + 1)..(c.filled + taken)
      BY <2>10, <3>3, <3>4
    <3> QED BY <3>1, <3>2, <3>5
  <2>12. Bytes(c.segment) = [i \in 1..SymbolsPerSegment |-> Bytes(c.segment)[i]]
    BY DEF Bytes
  <2>13. filled >= SymbolsPerSegment => buffer' = Bytes(c.segment)
    <3> SUFFICES ASSUME filled >= SymbolsPerSegment PROVE buffer' = Bytes(c.segment)
      OBVIOUS
    <3>1. filled = SymbolsPerSegment
      BY <2>5, <2>7, <2>10
    <3> QED BY <2>6, <2>7, <2>11, <2>12, <3>1
  <2>14. filled \in (c.filled + 1)..SymbolsPerSegment
    <3>1. c.filled \in Nat /\ SymbolsPerSegment \in Nat
      BY <2>5
    <3> QED BY <2>7, <2>10, <3>1
  <2>15. buffer' \in [1..SymbolsPerSegment -> Int]
    BY <2>6, <2>7
  <2> QED BY <2>11, <2>13, <2>14, <2>15, Zenon
<1>7. filled \in Int /\ SymbolsPerSegment \in Int
  <2>1. Len(container.record) \in Nat /\ container.start \in Nat /\ room \in Int /\ c.filled \in Nat
    BY <1>0, <1>4, Sizes, StartsAreOrdered DEF CallType
  <2>2. Taken(container, Wanted(1), room) \in Int
    <3> HIDE DEF room
    <3> QED BY <1>4, <2>1 DEF Taken
  <2> QED BY <1>4, <2>1, <2>2, Sizes
<1>8. ~(filled >= SymbolsPerSegment) <=> filled < SymbolsPerSegment
  <2> HIDE DEF filled
  <2> QED BY <1>7
<1>9. /\ filled >= SymbolsPerSegment => Loads(1)
      /\ ~(filled >= SymbolsPerSegment) /\ filled < SymbolsPerSegment /\ disposed =>
           Reply(1, "error") /\ loaded' = loaded /\ encoding' = encoding
      /\ ~(filled >= SymbolsPerSegment) /\ ~(filled < SymbolsPerSegment /\ disposed) =>
           /\ call' = [call EXCEPT ![1].pc = "cover", ![1].filled = filled]
           /\ loaded' = loaded /\ encoding' = encoding
  <2> DEFINE more == call[1].filled + Taken(container', Wanted(1), SymbolsPerSegment - call[1].filled)
  <2>1. filled = more
    BY <1>1 DEF c
  <2>2. more >= SymbolsPerSegment => Loads(1)
    <3>1. more >= SymbolsPerSegment => ~(more < SymbolsPerSegment)
      BY <1>8, <2>1
    <3> HIDE DEF more
    <3>2. (CASE more >= SymbolsPerSegment -> Loads(1)
             [] more < SymbolsPerSegment /\ disposed ->
                  Reply(1, "error") /\ UNCHANGED <<loaded, encoding>>
             [] OTHER ->
                  /\ call' = [call EXCEPT ![1].pc = "cover", ![1].filled = more]
                  /\ UNCHANGED <<loaded, encoding>>)
      BY DEF Cover, more
    <3> QED BY <3>1, <3>2
  <2>3. ~(more >= SymbolsPerSegment) /\ more < SymbolsPerSegment /\ disposed =>
          Reply(1, "error") /\ loaded' = loaded /\ encoding' = encoding
    BY DEF Cover, Reply
  <2>4. ~(more >= SymbolsPerSegment) /\ ~(more < SymbolsPerSegment /\ disposed) =>
          /\ call' = [call EXCEPT ![1].pc = "cover", ![1].filled = more]
          /\ loaded' = loaded /\ encoding' = encoding
    BY DEF Cover
  <2> HIDE DEF more, filled
  <2> QED BY <2>1, <2>2, <2>3, <2>4
<1> HIDE DEF filled
<1>10. CASE filled >= SymbolsPerSegment
  <2>1. Loads(1)
    BY <1>9, <1>10
  <2>2. disposed \/ buffer' = Bytes(c.segment)
    BY <1>6, <1>10
  <2> QED BY <1>1, <1>3, <1>4, <1>5, <2>1, <2>2, LoadsKeep
<1>11. CASE filled < SymbolsPerSegment /\ disposed
  <2>1. Reply(1, "error") /\ loaded' = loaded /\ encoding' = encoding
    BY <1>8, <1>9, <1>11
  <2> QED BY <1>0, <1>1, <1>3, <1>4, <1>11, <2>1, FailedKeeps DEF SessionType
<1>12. CASE filled < SymbolsPerSegment /\ ~disposed
  <2>1. /\ call' = [call EXCEPT ![1].pc = "cover", ![1].filled = filled]
        /\ loaded' = loaded /\ encoding' = encoding
    BY <1>8, <1>9, <1>12
  <2>2. filled \in 0..SymbolsPerSegment
    BY <1>0, <1>6, <1>7, <1>12 DEF CallType
  <2>3. /\ call' \in [Lane -> CallType] /\ c'.pc = "cover" /\ c'.filled = filled
        /\ c'.segment = c.segment /\ c'.next = c.next
        /\ c'.recovering = c.recovering /\ c'.frame = c.frame
    BY <2>1, <2>2, AtTheSession DEF c, CallType, Working
  <2>4. SessionType'
    BY <1>0, <1>1, <1>2, <1>4, <2>1 DEF SessionType
  <2>5. PassInv'
    BY <1>0, <1>1, <1>2, <1>12, <2>3 DEF PassInv, Makes, Producing, Loading
  <2>6. TailInv'
    BY <1>0, <1>2, <1>3, <2>1, <2>3 DEF TailInv, NextIsFirst, Loading
  <2>7. MemoryInv'
    BY <1>0, <1>2, <1>4, <1>6, <1>12, <2>3 DEF MemoryInv, Loading, Bytes
  <2>8. CursorInv'
    BY <1>4, <1>5, <1>12, <2>3 DEF CursorInv
  <2>9. c'.pc \in Serving
    BY <2>3 DEF Serving, Producing, Loading
  <2> QED BY <1>0, <1>2, <1>3, <2>3, <2>4, <2>5, <2>6, <2>7, <2>8, <2>9, FramesKept, Served
<1> QED BY <1>8, <1>10, <1>11, <1>12

LEMMA SeekKeeps ==
  ASSUME OneCode, StreamInv, Seek(1)
  PROVE  StreamInv'
<1>0. /\ SessionType /\ c \in CallType /\ call \in [Lane -> CallType] /\ Lane = {1}
      /\ PassInv /\ TailInv /\ MemoryInv /\ CursorInv /\ FramesInv
  BY AtTheSession
<1>1. /\ c.pc \in {"cover", "seek"} /\ ~Reaches(Position(1), Wanted(1))
      /\ UNCHANGED <<Reading, memory, scratch, faults>>
      /\ IF disposed \/ ~HasNext(Position(1))
         THEN container' = Position(1) /\ Reply(1, "error")
         ELSE /\ container' = Moved(Position(1))
              /\ call' = [call EXCEPT ![1].pc = "reading", ![1].window = container'.index]
  BY DEF Seek, c
<1>2. /\ UNCHANGED <<Renderer, toMain, queue, segment, cursor, phase, target, left, produced, done,
                     disposed, compressed, buffer, loaded, encoding>>
  BY <1>1, ReadingIs DEF memory
<1>3. c.pc \in Loading /\ c.pc \in Serving
  BY <1>1 DEF Loading, Serving, Producing
<1>4. /\ Position(1) = container \/ (Position(1) = NoRecord /\ Position(1).record = <<>>)
      /\ Position(1) \in [record : Seq(Int), index : 0..WindowCount, start : 0..TransportSize]
      /\ disposed => Position(1).index = 0 /\ Position(1).start = 0
      /\ Wanted(1) \in Nat
      /\ ~disposed => compressed /\ (Position(1) = container => CursorHolds \/ CursorIsAhead)
      /\ ~disposed /\ Position(1).record # <<>> =>
           Position(1) = container /\ CursorHolds /\ container.start <= Wanted(1)
  BY <1>1, PositionIs
<1>5. CASE disposed \/ ~HasNext(Position(1))
  <2>1. container' = Position(1) /\ Reply(1, "error")
    BY <1>1, <1>5
  <2>2. CASE Position(1) = container
    <3>1. ~disposed => CursorHolds' \/ CursorIsAhead'
      BY <1>4, <2>1, <2>2 DEF CursorHolds, CursorIsAhead
    <3> QED BY <1>0, <1>1, <1>2, <1>3, <1>4, <2>1, <3>1, FailedKeeps DEF SessionType
  <2>3. CASE Position(1).record = <<>>
    <3>1. CursorHolds'
      BY <2>1, <2>3 DEF CursorHolds
    <3> QED BY <1>0, <1>1, <1>2, <1>3, <1>4, <2>1, <3>1, FailedKeeps DEF SessionType
  <2> QED BY <1>4, <2>2, <2>3
<1>6. CASE ~(disposed \/ ~HasNext(Position(1)))
  <2>1. /\ ~disposed /\ compressed /\ HasNext(Position(1)) /\ container' = Moved(Position(1))
        /\ call' = [call EXCEPT ![1].pc = "reading", ![1].window = container'.index]
    BY <1>1, <1>4, <1>6
  <2>2. /\ container' \in [record : Seq(Int), index : 0..WindowCount, start : 0..TransportSize]
        /\ container'.index \in Windows /\ container'.start = RecordStart[container'.index]
        /\ container'.start <= Wanted(1)
        /\ container'.record = <<>> \/ container'.index \in 2..WindowCount
    <3>1. CASE Position(1).record = <<>>
      <4>1. container' = [Position(1) EXCEPT !.index = 1, !.start = 0]
        BY <2>1, <3>1 DEF Moved
      <4>2. 1 \in 0..WindowCount /\ 0 \in 0..TransportSize /\ 1 \in Windows /\ RecordStart[1] = 0
        BY LengthsAreNumbers, StartsAreOrdered, Sizes
      <4>3. container' \in [record : Seq(Int), index : 0..WindowCount, start : 0..TransportSize]
        BY <1>4, <4>1, <4>2
      <4>4. container'.index = 1 /\ container'.start = 0 /\ container'.record = <<>>
        BY <1>4, <3>1, <4>1
      <4> QED BY <1>4, <4>2, <4>3, <4>4
    <3>2. CASE Position(1).record # <<>>
      <4>1. /\ Position(1) = container /\ container.record # <<>>
            /\ container.index \in Windows /\ container.record = Record(container.index)
            /\ container.start = RecordStart[container.index]
        BY <1>4, <2>1, <3>2 DEF CursorHolds
      <4> DEFINE w == container.index
      <4>2. /\ container' = [container EXCEPT !.index = w + 1, !.start = container.start + Len(container.record)]
            /\ w < WindowCount
        BY <2>1, <3>2, <4>1 DEF Moved, HasNext
      <4>3. /\ Len(container.record) = RecordLength[w] /\ RecordLength[w] \in Nat
        BY <4>1, RecordIs
      <4>4. w + 1 \in Windows /\ w + 1 \in 2..WindowCount /\ w + 1 \in 0..WindowCount
        BY <4>1, <4>2, LengthsAreNumbers DEF Windows
      <4>5. /\ RecordStart[w] \in Nat /\ RecordStart[w + 1] = RecordStart[w] + RecordLength[w]
            /\ RecordStart[w + 1] \in 0..TransportSize
        BY <4>1, StartsAreOrdered
      <4>6. container.start + Len(container.record) = RecordStart[w + 1]
        BY <4>1, <4>3, <4>5
      <4>7. RecordStart[w + 1] <= Wanted(1)
        <5>1. ~(Wanted(1) < container.start + Len(container.record))
          BY <1>1, <4>1 DEF Reaches
        <5> QED BY <1>4, <4>5, <4>6, <5>1
      <4>8. container \in [record : Seq(Int), index : 0..WindowCount, start : 0..TransportSize]
        BY <1>0 DEF SessionType
      <4>9. /\ container'.index = w + 1 /\ container'.start = RecordStart[w + 1]
            /\ container' \in [record : Seq(Int), index : 0..WindowCount, start : 0..TransportSize]
        BY <4>2, <4>4, <4>5, <4>6, <4>8
      <4> QED BY <4>4, <4>7, <4>9
    <3> QED BY <3>1, <3>2
  <2>3. /\ call' \in [Lane -> CallType] /\ c'.pc = "reading" /\ c'.window = container'.index
        /\ c'.filled = c.filled /\ c'.segment = c.segment /\ c'.next = c.next
        /\ c'.recovering = c.recovering /\ c'.frame = c.frame
    <3> DEFINE w == container'.index
    <3>1. w \in Windows /\ call' = [call EXCEPT ![1].pc = "reading", ![1].window = w]
      BY <2>1, <2>2
    <3> HIDE DEF w
    <3>2. call' \in [Lane -> CallType] /\ c'.pc = "reading" /\ c'.window = w
          /\ c'.filled = c.filled /\ c'.segment = c.segment /\ c'.next = c.next
          /\ c'.recovering = c.recovering /\ c'.frame = c.frame
      BY <1>0, <3>1 DEF c, CallType
    <3> QED BY <3>2 DEF w
  <2>4. SessionType'
    BY <1>0, <1>1, <1>2, <2>2 DEF SessionType
  <2>5. PassInv'
    BY <1>0, <1>1, <1>2, <2>1, <2>3 DEF PassInv, Makes, Producing, Loading
  <2>6. TailInv'
    BY <1>0, <1>2, <1>3, <2>3 DEF TailInv, NextIsFirst, Loading
  <2>7. MemoryInv'
    BY <1>0, <1>2, <1>3, <2>1, <2>3 DEF MemoryInv, Loading, Bytes
  <2>8. CursorInv'
    <3>1. Wanted(1)' = Wanted(1)
      BY <2>3 DEF Wanted, c
    <3> QED BY <2>2, <2>3, <3>1 DEF CursorInv
  <2>9. c'.pc \in Serving
    BY <2>3 DEF Serving, Producing, Loading
  <2> QED BY <1>0, <1>2, <1>3, <2>3, <2>4, <2>5, <2>6, <2>7, <2>8, <2>9, FramesKept, Served
<1> QED BY <1>5, <1>6

(***************************************************************************)
(* The invariant, and what follows from it                                 *)
(***************************************************************************)
LEMMA StreamBegins ==
  ASSUME OneCode, Init
  PROVE  StreamInv
<1>1. SingleCode /\ Lane = {1}
  BY OneLane DEF OneCode
<1>2. /\ state = "TRANSFERRING" /\ shown = "TRANSFERRING" /\ lane = [l \in Lane |-> NewLane]
      /\ canvas = [l \in Lane |-> "none"] /\ tail = [started |-> FALSE, reported |-> FALSE]
      /\ asked = "no" /\ call = [l \in Lane |-> NoCall] /\ toMain = <<>> /\ queue = <<>>
      /\ segment = 1 /\ cursor = 0 /\ phase = "pass" /\ target = 1 /\ left = 0
      /\ produced = 0 /\ done = FALSE /\ disposed = FALSE
      /\ buffer = Wiped /\ loaded = 0 /\ encoding = FALSE
      /\ compressed \in Compressions /\ container = NoRecord /\ scratch = 1 /\ faults = 0
  BY DEF Init
<1>3. ln = NewLane /\ c = NoCall
  BY <1>1, <1>2 DEF ln, c
<1>4. /\ ~NewLane.started /\ ~NewLane.running /\ ~NewLane.stopped /\ ~NewLane.finished
      /\ ~NewLane.fetching /\ NewLane.ready = <<>>
      /\ NoCall.pc = "none" /\ NoCall.frame = "none" /\ ~NoCall.recovering
  BY DEF NewLane, NoCall
<1>5. <<>> \in Seq(Frames) /\ <<>> \in Seq(Int) /\ Len(<<>>) = 0 /\ DOMAIN <<>> = {}
      /\ <<>> \in Requests
  BY DEF Requests
<1>6. TypeOK /\ Shapes
  <2>1. NewLane \in LaneType
    BY <1>5 DEF NewLane, LaneType
  <2>2. lane \in [Lane -> LaneType] /\ call \in [Lane -> CallType]
    BY <1>2, <2>1, NewCallType
  <2>3. container \in [record : Seq(Int), index : 0..WindowCount, start : 0..TransportSize]
    <3>1. 0 \in 0..WindowCount /\ 0 \in 0..TransportSize
      BY LengthsAreNumbers, StartsAreOrdered
    <3> QED BY <1>2, <1>5, <3>1 DEF NoRecord
  <2>4. Shapes
    <3>1. compressed \in BOOLEAN
      BY <1>2, SenderAssumption
    <3>2. container \in [record : Seq(Int), index : Int, start : Int]
      BY <2>3, LengthsAreNumbers, StartsAreOrdered
    <3> QED BY <2>2, <3>1, <3>2 DEF Shapes
  <2>5. /\ segment \in 1..(SegmentCount + 1) /\ cursor \in 0..SymbolsForSegment
        /\ target \in Segments /\ left \in 0..SymbolsForSegment
        /\ produced \in 0..(ManifestInterval - 1) /\ loaded \in 0..SegmentCount
        /\ scratch \in Windows /\ faults \in 0..MaxFaults
    BY <1>2, Sizes
  <2>6. /\ queue \in Seq(Frames) /\ Len(queue) <= Capacity
        /\ \A l \in Lane : Len(lane[l].ready) <= Prefetch
    BY <1>2, <1>4, <1>5, Sizes
  <2>7. /\ state \in States /\ shown \in States
        /\ canvas \in [Lane -> Frames \cup {"none"}]
        /\ tail \in [started : BOOLEAN, reported : BOOLEAN]
        /\ asked \in {"no", "sent", "begun", "refused"}
        /\ toMain \in Requests
    BY <1>2, <1>5 DEF States, Mounted
  <2>8. \A l \in Lane :
          /\ call[l].pc \in Working \cup {"none", "take", "begin", "begun", "stat", "reading", "landed", "reply"}
          /\ call[l].segment \in Segments /\ call[l].window \in Windows
          /\ call[l].filled \in 0..SymbolsPerSegment
          /\ call[l].frame \in Frames \cup {"none", "error"}
    BY <2>2 DEF CallType
  <2>9. container.index \in 0..WindowCount /\ container.start \in 0..TransportSize
    BY <2>3
  <2>10. /\ phase \in {"pass", "recovery"}
         /\ done \in BOOLEAN /\ disposed \in BOOLEAN /\ encoding \in BOOLEAN
    BY <1>2
  <2>11. TypeOK
    BY <2>2, <2>5, <2>6, <2>7, <2>8, <2>9, <2>10 DEF TypeOK, LaneType, Requests
  <2> QED BY <2>4, <2>11
<1>7. ScreenInv
  BY <1>2, <1>3, <1>4 DEF ScreenInv, Mounted
<1>8. WireInv
  BY <1>2, <1>5 DEF WireInv
<1>9. PassInv
  BY <1>2, <1>3, <1>4 DEF PassInv, Makes, Producing, Loading
<1>10. TailInv
  BY <1>3, <1>4 DEF TailInv
<1>11. MemoryInv
  <2>1. Wiped \in [1..SymbolsPerSegment -> Int]
    BY DEF Wiped
  <2> QED BY <1>2, <1>3, <1>4, <2>1 DEF MemoryInv, Loading
<1>12. CursorInv
  <2>1. CursorHolds
    BY <1>2 DEF CursorHolds, NoRecord
  <2> QED BY <1>3, <1>4, <2>1 DEF CursorInv
<1>13. FramesInv
  <2>1. canvas[1] # "wrong" /\ DOMAIN ln.ready = {} /\ DOMAIN queue = {}
    BY <1>1, <1>2, <1>3, <1>4, <1>5
  <2> QED BY <1>3, <1>4, <2>1 DEF FramesInv
<1> QED BY <1>6, <1>7, <1>8, <1>9, <1>10, <1>11, <1>12, <1>13 DEF StreamInv

LEMMA NothingHappens ==
  ASSUME OneCode, StreamInv, UNCHANGED vars
  PROVE  StreamInv'
<1>1. UNCHANGED <<screen, lane, toMain, call, session, compressed, faults>>
  BY DEF vars
<1>2. /\ UNCHANGED <<state, shown, canvas, tail, asked, lane, toMain, call, queue, segment, cursor,
                     phase, target, left, produced, done, buffer, loaded, encoding, container,
                     scratch, disposed, compressed, faults, c, ln, Wanted(1)>>
  BY <1>1 DEF screen, session, pass, memory, packing, c, ln, Wanted
<1>3. TypeOK' /\ Shapes'
  BY <1>2 DEF StreamInv, TypeOK, Shapes
<1>4. ScreenInv' /\ WireInv'
  BY <1>2 DEF StreamInv, ScreenInv, WireInv
<1>5. PassInv' /\ TailInv'
  BY <1>2 DEF StreamInv, PassInv, TailInv, Makes, NextIsFirst, FirstBatch
<1>6. MemoryInv'
  BY <1>2 DEF StreamInv, MemoryInv, Doomed, Bytes
<1>7. CursorInv'
  BY <1>2 DEF StreamInv, CursorInv, CursorHolds, CursorIsAhead, NextIsFirst, Doomed
<1>8. FramesInv'
  BY <1>2 DEF StreamInv, FramesInv
<1> QED BY <1>3, <1>4, <1>5, <1>6, <1>7, <1>8 DEF StreamInv

LEMMA StepKeeps ==
  ASSUME OneCode, StreamInv, [Next]_vars
  PROVE  StreamInv'
<1>1. Lane = {1}
  BY OneLane DEF OneCode
<1>2. CASE Taps
  BY <1>2, TapKeeps, RecoveryTapsKeep DEF Taps
<1>3. CASE Commit
  BY <1>3, CommitKeeps
<1>4. CASE RecoverAnswered
  BY <1>4, RecoveryTapsKeep
<1>5. CASE Handle
  BY <1>5, TakeKeeps, RecoveryKeeps, CancelKeeps DEF Handle
<1>6. CASE Schedule(1)
  BY <1>6, StartKeeps, TickKeeps, PaintEndsKeeps, ReceiveFrameKeeps, ReceiveLastKeeps,
     ReceiveTailKeeps DEF Schedule
<1>7. CASE Produce(1)
  BY <1>7, FillEndsKeeps, ProduceManifestKeeps, ProduceRecoveryKeeps, ProducePassKeeps,
     AdvanceKeeps, EmitKeeps, ReplayKeeps, CoverKeeps, SeekKeeps DEF Produce
<1>8. CASE Read(1)
  BY <1>8, StatKeeps, LandsKeeps, ReturnsKeeps, FailsKeeps DEF Read
<1>9. CASE UNCHANGED vars
  BY <1>9, NothingHappens
<1> QED BY <1>1, <1>2, <1>3, <1>4, <1>5, <1>6, <1>7, <1>8, <1>9 DEF Next

\* The sender's memory is bounded and typed however its processes interleave:
\* neither the queue of streaming-sender.ts nor a scheduler's ready frames
\* outgrow their bounds, whatever a hold, a failed read or an end comes between.
THEOREM SenderTypes ==
  ASSUME OneCode
  PROVE  Spec => []TypeOK
<1>1. Init => StreamInv
  BY StreamBegins
<1>2. StreamInv /\ [Next]_vars => StreamInv'
  BY StepKeeps
<1>3. StreamInv => TypeOK
  BY DEF StreamInv
<1> QED BY <1>1, <1>2, <1>3, PTL DEF Spec

\* No frame on the screen, or about to be, carries other bytes than its header
\* says: readSegment() and the window compressor refill one buffer, in steps
\* that fail, are tried again by a recovery, or are overtaken by dispose().
THEOREM FramesStayRight ==
  ASSUME OneCode
  PROVE  Spec => []FramesAreRight
<1>1. Init => StreamInv
  BY StreamBegins
<1>2. StreamInv /\ [Next]_vars => StreamInv'
  BY StepKeeps
<1>3. StreamInv => FramesAreRight
  BY AtTheRenderer, AtTheSession DEF FramesAreRight, ln
<1> QED BY <1>1, <1>2, <1>3, PTL DEF Spec

\* The frames and the figures beside them.  Of the figures a closed formula
\* speaks, which TLC evaluates for every input it quantifies over.
THEOREM ShownStaysRight ==
  ASSUME OneCode, FiguresAreRight
  PROVE  Spec => []ShownIsRight
<1>1. FramesAreRight => ShownIsRight
  BY DEF ShownIsRight
<1> QED BY <1>1, FramesStayRight, PTL

\* While the screen says the stream is held no paint begins: pause() has
\* disarmed the schedule, and neither the end of a paint under way nor a frame
\* that lands arms it again.
THEOREM HeldStaysStill ==
  ASSUME OneCode
  PROVE  Spec => HeldIsStill
<1>1. Init => StreamInv
  BY StreamBegins
<1>2. StreamInv /\ [Next]_vars => StreamInv'
  BY StepKeeps
<1>3. StreamInv /\ [Next]_vars =>
        [shown = "HELD" /\ shown' = "HELD" =>
           \A l \in Lane : ~lane[l].painting => ~lane'[l].painting]_vars
  <2> SUFFICES ASSUME StreamInv, Next, shown = "HELD", shown' = "HELD", ~ln.painting
               PROVE  ~ln'.painting
    BY OneLane DEF OneCode, ln
  <2>0. /\ Lane = {1} /\ lane \in [Lane -> LaneType] /\ ln \in LaneType
        /\ ln.started /\ ~ln.running
    BY AtTheRenderer DEF ScreenInv
  <2>1. ASSUME NEW to \in States, Effects(shown, to)
        PROVE  ~ln'.painting
    <3>1. to = "HELD" /\ ln' = ln
      BY <2>1, EffectsOnLane, AtTheRenderer DEF Mounted
    <3> QED BY <3>1
  <2>2. CASE Taps \/ Commit
    <3>1. Effects(shown, shown') \/ lane' = lane
      BY <2>2, EffectsOnLane DEF Taps, TapHold, TapRelease, TapEnd, TapRecover, Tap, Commit, Effects
    <3> QED BY <2>1, <3>1, AtTheRenderer DEF ln, States, Mounted
  <2>3. CASE RecoverAnswered \/ Handle
    BY <2>3 DEF RecoverAnswered, Handle, HandleTake, HandleRecovery, HandleCancel, Renderer, ln
  <2>4. CASE Produce(1) \/ Read(1)
    <3>1. lane' = lane
      BY <2>4 DEF Produce, Read, FillEnds, ProduceManifest, ProduceRecovery, ProducePass, Advance,
                  Emit, Replay, Cover, Seek, StatAnswers, ReadLands, ReadReturns, Fails,
                  Reading, Renderer
    <3> QED BY <3>1 DEF ln
  <2>5. CASE StartLane(1) \/ Tick(1)
    BY <2>0, <2>5 DEF StartLane, Tick, ln
  <2>6. CASE PaintEnds(1) \/ ReceiveEnd(1) \/ ReceiveBegun(1)
    BY <2>0, <2>6 DEF PaintEnds, ReceiveEnd, ReceiveBegun, ln
  <2>7. CASE ReceiveFrame(1)
    <3>1. lane' = [lane EXCEPT ![1] = Supplied(ln, c.frame)]
      BY <2>7 DEF ReceiveFrame, ln, c
    <3>2. Supplied(ln, c.frame).painting = ln.painting
      BY <2>0 DEF Supplied, LaneType
    <3> QED BY <2>0, <3>1, <3>2 DEF ln
  <2>8. CASE ReceiveNothing(1) \/ ReceiveError(1) \/ ReceiveFinish(1)
    <3>1. Finished(1)
      BY <2>8 DEF ReceiveNothing, ReceiveError, ReceiveFinish
    <3> QED BY <2>0, <3>1 DEF Finished, ln, LaneType
  <2> QED BY <2>0, <2>2, <2>3, <2>4, <2>5, <2>6, <2>7, <2>8 DEF Next, Schedule
<1> QED BY <1>1, <1>2, <1>3, PTL DEF Spec, HeldIsStill
=============================================================================
