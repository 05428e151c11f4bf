--------------------------- MODULE MCSenderStream ---------------------------
(* A record within a segment, and records that straddle two:               *)
(* segments 0 1 | 2 3 | 4 5 in records 0 | 1 2 3 | 4 5.                      *)
EXTENDS SenderStream

MCRecordLength == <<1, 3, 2>>
=============================================================================
