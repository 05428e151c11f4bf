---------------------------- MODULE SegmentRecovery ----------------------------
(***************************************************************************)
(* What the decoder of a segment promises its caller, one accept() a step:  *)
(* the answer to a symbol and the blocks recovered are functions of the set *)
(* of symbols taken so far, not of the order they came in, nor of how the   *)
(* decoder keeps its equations.  SegmentDecoder implements it; the modules   *)
(* above the decoder use it in the decoder's place.                         *)
(***************************************************************************)
EXTENDS Peeling

CONSTANTS MaxPendingEquations, MaxPendingNeighborRefs

VARIABLES taken,      \* the symbols accept() has consumed
          recovered,  \* the source blocks held
          outcome,    \* the answer to the last symbol
          open        \* FALSE once the segment is detached or released

vars == <<taken, recovered, outcome, open>>

\* A repair symbol that cannot be reduced is stored, and stored ones are capped.
SaturatedBy(held) ==
  \/ Cardinality(Unresolved(held)) >= MaxPendingEquations
  \/ UnresolvedRefs(held) >= MaxPendingNeighborRefs

\* The answers accept() may give to symbol s when the set `held` has been taken.
\* "duplicate" covers a symbol already taken; the decoder may have forgotten a
\* repair id, and then finds the second copy redundant, or refuses it unlooked.
Answers(held, s) ==
  IF Complete(held) THEN {"duplicate"}
  ELSE IF s \in Blocks
    THEN IF s \in Solvable(held) THEN {"duplicate"} ELSE {"source-placed"}
  ELSE IF s \in held
    THEN IF s \in Unresolved(held) THEN {"duplicate"}
         ELSE {"duplicate", IF SaturatedBy(held) THEN "rejected" ELSE "redundant"}
  ELSE IF SaturatedBy(held) \/ Neighbors[s] = {} THEN {"rejected"}
  ELSE LET unknown == Neighbors[s] \ Solvable(held)
       IN  IF unknown = {} THEN {"redundant"}
           ELSE IF Cardinality(unknown) = 1 THEN {"repair-solved"}
           ELSE {"repair-pending"}

\* The answers that mean the symbol was consumed.
Consumed == {"source-placed", "repair-solved", "repair-pending", "redundant"}

HeldAfter(held, s, answer) == IF answer \in Consumed THEN held \cup {s} ELSE held

Init == taken = {} /\ recovered = {} /\ outcome = "none" /\ open = TRUE

Accept(s) ==
  /\ open
  /\ outcome' \in Answers(taken, s)
  /\ taken' = HeldAfter(taken, s, outcome')
  /\ recovered' = Solvable(taken')
  /\ UNCHANGED open

\* A malformed frame, or any frame once the segment is closed.
Refuse ==
  /\ ~open \/ ~Complete(taken)
  /\ outcome' = "rejected"
  /\ UNCHANGED <<taken, recovered, open>>

Close == open /\ open' = FALSE /\ UNCHANGED <<taken, recovered, outcome>>

Next == (\E s \in Symbols : Accept(s)) \/ Refuse \/ Close

Spec == Init /\ [][Next]_vars
=============================================================================
