-------------------------- MODULE MCOpfsSegmentStore --------------------------
(* Instances of OpfsSegmentStore for TLC: two transfers of the same length   *)
(* under the same ids, so that one could be taken for the other.             *)
EXTENDS OpfsSegmentStore, TLC

CONSTANTS p, q

\* Both transfers are as long as each other.
SameSize == [x \in Plans |-> 4]
=============================================================================
