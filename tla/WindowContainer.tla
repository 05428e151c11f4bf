-------------------------- MODULE WindowContainer --------------------------
(***************************************************************************)
(* The container a compressed transfer sends, and the cursor that reads it. *)
(* The file is cut into windows, each window is compressed into a record,   *)
(* and the transport stream is the records one after the other: it is       *)
(* never held whole.  WindowContainerEncoder keeps one record and makes the *)
(* one a read needs by compressing forward from it, or from window one.     *)
(*                                                                         *)
(* A byte of the transport stream is its offset, so a buffer that holds the *)
(* wrong bytes shows.                                                       *)
(***************************************************************************)
EXTENDS Integers, Sequences

CONSTANT RecordLength   \* the length of each window's record

ASSUME RecordLengthAssumption ==
  /\ RecordLength \in Seq(Nat \ {0})
  /\ RecordLength # <<>>

WindowCount == Len(RecordLength)
Windows == 1..WindowCount

\* Where a window's record begins, as measure() adds them up.
RecordStart[w \in 1..(WindowCount + 1)] ==
  IF w = 1 THEN 0 ELSE RecordStart[w - 1] + RecordLength[w - 1]

TransportSize == RecordStart[WindowCount + 1]

\* What compressWindow() makes of the window it finds in its scratch.
Record(w) == [i \in 1..RecordLength[w] |-> RecordStart[w] + i - 1]

\* The cursor: the record held, the window it is taken to be of, and the
\* offset it is taken to begin at.  No record is null in the code.
NoRecord == [record |-> <<>>, index |-> 0, start |-> 0]

\* A read behind the record starts over.
Rewound(c, offset) ==
  IF c.record # <<>> /\ offset < c.start THEN NoRecord ELSE c

\* (mutant)
NotRewound(c, offset) == c

Restarted(c, offset) == Rewound(c, offset)

Reaches(c, offset) == c.record # <<>> /\ offset < c.start + Len(c.record)

\* The cursor recordCovering() leaves while the next window is compressed: it
\* has moved, and still holds the old record.
Moved(c) ==
  IF c.record = <<>>
  THEN [c EXCEPT !.index = 1, !.start = 0]
  ELSE [c EXCEPT !.index = @ + 1, !.start = @ + Len(c.record)]

HasNext(c) == c.record = <<>> \/ c.index < WindowCount

\* Uint8Array.subarray(from, to): a negative index counts from the end.
Slice(s, from, to) ==
  LET at(k) == IF k >= 0 THEN (IF k > Len(s) THEN Len(s) ELSE k)
               ELSE (IF Len(s) + k < 0 THEN 0 ELSE Len(s) + k)
  IN  SubSeq(s, at(from) + 1, at(to))

\* How many bytes one turn of readTransport() takes from the record.
Taken(c, offset, room) ==
  LET available == Len(c.record) - (offset - c.start)
  IN  IF available < room THEN available ELSE room

\* into, after that turn wrote them at filled.
Copied(c, offset, into, filled) ==
  LET from  == offset - c.start
      piece == Slice(c.record, from, from + Taken(c, offset, Len(into) - filled))
  IN  [i \in DOMAIN into |->
         IF i > filled /\ i - filled <= Len(piece) THEN piece[i - filled] ELSE into[i]]
=============================================================================
