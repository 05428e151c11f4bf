-------------------------- MODULE SegmentedProgress --------------------------
(***************************************************************************)
(* How a segmented receiver (segmented-receiver.ts) counts what it has: a   *)
(* bitmap, a counter beside it, and what both become when a session adopts  *)
(* what an earlier one left, when a segment completes and when the phone    *)
(* asks what is missing.  A receiver is a record of its fields.             *)
(*                                                                         *)
(* What a segment's decoder makes of a symbol is SegmentDecoder's: here it  *)
(* is one of four answers.                                                  *)
(***************************************************************************)
EXTENDS Checkpoint, ResumeCode

\* Set bits per byte value, each from the value without its last bit.
PopCount ==
  LET set[value \in 0..255] == IF value = 0 THEN 0 ELSE (value % 2) + set[value \div 2]
  IN  set

CountOf(bytes) == SumOf([i \in 1..Len(bytes) |-> PopCount[bytes[i]]])

\* (mutant)
WithItsSpares(bytes, count) == bytes

\* Bits above the last segment index describe nothing.
Masked(bytes, count) ==
  IF count % 8 = 0 THEN bytes ELSE [bytes EXCEPT ![Len(bytes)] = @ % 2^(count % 8)]

ReceiverRefusals(m, adopted) ==
     Check(m.segmentCount > MaxCheckpointSegments, "segment count above the limit")
  \o Check(\E bytes \in adopted : Len(bytes) # CeilDiv(m.segmentCount, 8), "adopted bitmap of another length")

\* adopt(): `adopted' is {} or the bitmap the store read back.
NewReceiver(m, adopted) ==
  LET zeros == [i \in 1..CeilDiv(m.segmentCount, 8) |-> 0]
      bits  == IF adopted = {} THEN zeros ELSE Masked(CHOOSE b \in adopted : TRUE, m.segmentCount)
  IN  Answer(ReceiverRefusals(m, adopted),
             [manifest |-> m, bits |-> bits, committedCount |-> CountOf(bits),
              adoptedCount |-> CountOf(bits), released |-> FALSE,
              accepted |-> 0, duplicate |-> 0, rejected |-> 0, manifests |-> 0])

IsComplete(r) == r.committedCount = r.manifest.segmentCount
Outstanding(r) == r.manifest.segmentCount - r.committedCount

BitAt(bytes, s) == (bytes[(s \div 8) + 1] \div 2^(s % 8)) % 2 = 1
HasSegment(r, s) == s < r.manifest.segmentCount /\ BitAt(r.bits, s)

\* firstMissingSegment(): past the bytes that are full, then bit by bit.
FirstMissingOf(r) ==
  LET count == r.manifest.segmentCount
      open  == {i \in DOMAIN r.bits : r.bits[i] # 255}
      i     == CHOOSE i \in open : \A j \in open : i <= j
      bit   == CHOOSE b \in 0..7 : ~BitAt(r.bits, 8 * (i - 1) + b)
                                   /\ \A c \in 0..(b - 1) : BitAt(r.bits, 8 * (i - 1) + c)
      first == 8 * (i - 1) + bit
  IN  IF open = {} \/ first >= count THEN count ELSE first

\* missingRangesFromBitmap(): one scan, a run open or none.
RunsOf(bytes, count) ==
  LET scan(acc, s) ==
        CASE ~BitAt(bytes, s) /\ acc.from < 0 -> [acc EXCEPT !.from = s]
          [] BitAt(bytes, s) /\ acc.from >= 0 ->
               [runs |-> Append(acc.runs, [start |-> acc.from, length |-> s - acc.from]), from |-> -1]
          [] OTHER -> acc
      end == FoldLeft(scan, [runs |-> <<>>, from |-> -1], [i \in 1..count |-> i - 1])
  IN  IF end.from < 0 THEN end.runs
      ELSE Append(end.runs, [start |-> end.from, length |-> count - end.from])

(***************************************************************************)
(* Frames.                                                                 *)
(***************************************************************************)
Says(r, status, reason) == [receiver |-> r, status |-> status, reason |-> reason]
Rejects(r, reason) == Says([r EXCEPT !.rejected = @ + 1], "rejected", reason)

\* commit(): a bit is set, and the counter is told so.
WithSegment(r, s) ==
  [r EXCEPT !.bits[(s \div 8) + 1] = IF BitAt(r.bits, s) THEN @ ELSE @ + 2^(s % 8),
            !.committedCount = @ + 1]

\* What the decoder of a segment answers to a symbol.
DecoderAnswers == {"accepted", "duplicate", "rejected", "completes"}

\* (mutant)
SymbolUnguarded(r, s, answer) ==
  CASE answer = "rejected"  -> Rejects(r, "the decoder's")
    [] answer = "duplicate" -> Says([r EXCEPT !.duplicate = @ + 1], "duplicate", "")
    [] answer = "accepted"  -> Says([r EXCEPT !.accepted = @ + 1], "accepted", "")
    [] OTHER                -> Says(WithSegment([r EXCEPT !.accepted = @ + 1], s), "accepted", "")

\* acceptFrame(), of a frame that fits the manifest.
SymbolInto(r, s, answer) ==
  CASE HasSegment(r, s)     -> Says([r EXCEPT !.duplicate = @ + 1], "segment-committed", "")
    [] ~HasSegment(r, s) /\ answer = "rejected"  -> Rejects(r, "the decoder's")
    [] ~HasSegment(r, s) /\ answer = "duplicate" -> Says([r EXCEPT !.duplicate = @ + 1], "duplicate", "")
    [] ~HasSegment(r, s) /\ answer = "accepted"  -> Says([r EXCEPT !.accepted = @ + 1], "accepted", "")
    [] OTHER                -> Says(WithSegment([r EXCEPT !.accepted = @ + 1], s), "accepted", "")

\* acceptFrame(): a manifest of this session is looked at and otherwise ignored.
Hears(r, said, answer) ==
  LET own  == said.fields.sessionId = r.manifest.sessionId
              /\ said.fields.fileId = r.manifest.fileId
      seen == [r EXCEPT !.manifests = @ + 1]
      data == DataRefusals(said.fields, r.manifest,
                SegmentPlan(r.manifest.transportSize, r.manifest.segmentSize, r.manifest.symbolSize))
  IN  CASE said.kind = "manifest" /\ own          -> Says(seen, "manifest", "")
        [] said.kind = "manifest" /\ ~own         -> Rejects(seen, "SESSION_MISMATCH")
        [] said.kind = "data" /\ data # <<>>      -> Rejects(r, Head(data))
        [] OTHER -> SymbolInto(r, said.fields.segmentIndex, answer)

\* acceptFrameBytes(), of what parseFrame() came to.
Routed(r, read, answer) ==
  CASE r.released              -> Rejects(r, "session-released")
    [] ~r.released /\ ~read.ok -> Rejects(r, read.code)
    [] OTHER                   -> Hears(r, read.value, answer)

Released(r) == [r EXCEPT !.released = TRUE]
-----------------------------------------------------------------------------
(* Properties *)

\* bound: transfers of up to ten segments, bytes full, empty, nearly so and mixed.
SegmentCounts == {1, 3, 7, 8, 9, 10}
SomeBytes == {0, 1, 2, 8, 85, 126, 127, 128, 170, 254, 255}
Bitmaps(count) ==
  IF count <= 8 THEN {<<b>> : b \in SomeBytes} ELSE {<<a, b>> : a \in SomeBytes, b \in SomeBytes}

Numbered(count) == [segmentCount |-> count]
Bare(count, bits) == NewReceiver(Numbered(count), {bits}).value

\* The counter, the bitmap, the restart point and the gaps of a code tell of
\* one and the same set of segments, from the moment a session adopts what
\* another left, whatever the bits past the last segment, through each segment
\* that is completed, and whatever else its decoder is given after that: the
\* counter never reaches the segment count before the last segment is there.
ProgressIsExact ==
  \A count \in SegmentCounts : \A bits \in Bitmaps(count) :
    LET start == Bare(count, bits)
        has   == Marked(bits) \cap 0..(count - 1)
        Tells(r, have) ==
          /\ Marked(r.bits) = have
          /\ r.committedCount = Cardinality(have)
          /\ IsComplete(r) <=> have = 0..(count - 1)
          /\ FirstMissingOf(r) = FirstMissing(have, count)
          /\ RunsOf(r.bits, count) = Gaps(have, count)
    IN  /\ Tells(start, has) /\ start.adoptedCount = Cardinality(has)
        /\ \A s \in 0..(count - 1) :
             LET once  == SymbolInto(start, s, "completes").receiver
                 twice == SymbolInto(once, s, "completes").receiver
             IN  Tells(once, has \cup {s}) /\ Tells(twice, has \cup {s})

\* A frame is taken by the receiver it is meant for or refused, and counted for
\* what it was; a receiver that was let go takes none.  A bitmap of another
\* length, which another transfer left, makes no receiver.
RoutesRight(read, m) ==
  LET mine   == NewReceiver(m, {}).value
      theirs == NewReceiver([m EXCEPT !.sessionId = @ + 50], {}).value
      Takes(says, answer) ==
        /\ says.status = "rejected" => answer = "rejected" /\ says.reason = "the decoder's"
        /\ says.receiver.bits # mine.bits => answer = "completes"
      Refuses(says, r) == says.status = "rejected" /\ says.receiver.bits = r.bits
  IN  /\ ~NewReceiver(m, {[i \in 1..(CeilDiv(m.segmentCount, 8) + 1) |-> 0]}).ok
      /\ \A answer \in DecoderAnswers :
           /\ Takes(Routed(mine, read, answer), answer)
           /\ Refuses(Routed(theirs, read, answer), theirs)
           /\ Routed(theirs, read, answer).reason = "SESSION_MISMATCH"
           /\ Refuses(Routed(Released(mine), read, answer), mine)
=============================================================================
