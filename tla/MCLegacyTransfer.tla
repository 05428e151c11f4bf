--------------------------- MODULE MCLegacyTransfer ---------------------------
(***************************************************************************)
(* Containers of two blocks, with one repair symbol over both.  The two     *)
(* files have the same shape, so that nothing but bytes tells them apart.   *)
(* The first block holds the label and the digest of the file, the second    *)
(* one is filled up with padding.                                          *)
(***************************************************************************)
EXTENDS LegacyTransfer

MCNeighbors == [r \in RepairIds |-> {0, 1}]
MCShape     == [f \in Files |-> "alike"]
MCLabel     == {<<0, "head">>}
MCPadding   == {<<1, "tail">>}
=============================================================================
