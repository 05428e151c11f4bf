------------------------------- MODULE Peeling -------------------------------
(***************************************************************************)
(* What a set of received symbols of one segment determines.               *)
(*                                                                         *)
(* A segment of K source symbols is sent systematically - symbol i < K is  *)
(* block i - followed by repair symbols, each the XOR of a set of blocks    *)
(* derived from its id (segment-encoder.ts, repairNeighbors).  Bytes are    *)
(* replaced by what they are the XOR of: a payload is the set of blocks     *)
(* XORed into it, and XOR of payloads is symmetric difference.              *)
(*                                                                         *)
(* Nothing here is an algorithm of the receiver.  It is the reference that  *)
(* the decoder of SegmentDecoder.tla is measured against, and the compact   *)
(* form of it that the modules above the decoder use.                       *)
(***************************************************************************)
EXTENDS Naturals, FiniteSets

CONSTANTS K,          \* source symbols in the segment (sourceSymbolCount)
          RepairIds,  \* the repair symbol ids that can arrive
          Neighbors   \* repair id -> the blocks it is the XOR of

Blocks == 0 .. (K - 1)

ASSUME PeelingAssumption ==
  /\ K \in Nat \ {0}
  /\ RepairIds \subseteq Nat \ Blocks
  /\ Neighbors \in [RepairIds -> SUBSET Blocks]

Symbols == Blocks \cup RepairIds

\* XOR of two payloads, each given as the set of blocks it is the XOR of.
Xor(p, q) == (p \ q) \cup (q \ p)

\* (mutant) The first repair id is taken for one more source symbol.
SymbolPayloadOffByOne(id) == IF id \in 0 .. K THEN {id} ELSE Neighbors[id]

\* The payload SegmentEncoder.symbolInto writes for a symbol id.
SymbolPayload(id) == IF id \in Blocks THEN {id} ELSE Neighbors[id]

\* With the blocks in `known` peeling comes to nothing more: they have every
\* source symbol taken, and no repair symbol with a single unknown is left.
Peeled(taken, known) ==
  /\ taken \cap Blocks \subseteq known
  /\ \A r \in taken \cap RepairIds, b \in Blocks : Neighbors[r] \ known # {b}

\* The blocks that peeling recovers from the symbols in `taken`: those without
\* which it cannot stop.
Solvable(taken) ==
  {b \in Blocks : \A known \in SUBSET Blocks : Peeled(taken, known) => b \in known}

Complete(taken) == Solvable(taken) = Blocks

\* The equations that a decoder holding `taken` cannot reduce any further, and
\* the number of unknowns they still name between them.
Unresolved(taken) ==
  {r \in taken \cap RepairIds : Neighbors[r] \ Solvable(taken) # {}}

UnresolvedRefs(taken) ==
  Cardinality({p \in Unresolved(taken) \X Blocks : p[2] \in Neighbors[p[1]] \ Solvable(taken)})
=============================================================================
