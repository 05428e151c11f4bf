---------------------------- MODULE MCSegmentDecoder ----------------------------
(* Instances of SegmentDecoder and of its abstract specification for TLC. *)
EXTENDS SegmentDecoder

\* Four blocks, five repair symbols of degree two to four, and a symbol whose
\* neighbour set is empty, which the decoder must refuse as an invalid equation.
FourBlockRepairs == 4 .. 9
FourBlockNeighbors ==
  [r \in FourBlockRepairs |->
     CASE r = 4 -> {0, 1} [] r = 5 -> {1, 2, 3} [] r = 6 -> {0, 2}
       [] r = 7 -> {0, 1, 2, 3} [] r = 8 -> {2, 3} [] r = 9 -> {}]
=============================================================================
