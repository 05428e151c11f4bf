--------------------------- MODULE MCOpticalTransfer ---------------------------
(***************************************************************************)
(* Three segments of two symbols with one repair symbol each in the pass    *)
(* and one in each batch of recovery: enough for decoders to be evicted,     *)
(* for a token with a gap and one whose gaps do not fit, and for a sender    *)
(* that is opened again over what a first one left.                          *)
(***************************************************************************)
EXTENDS OpticalTransfer

MCRepairIds == 2 .. 3
\* The generator also gives symbols of degree one, which no pending equation of
\* degree two needs.
MCNeighbors == [r \in MCRepairIds |-> IF r = 3 THEN {1} ELSE {0, 1}]
=============================================================================
