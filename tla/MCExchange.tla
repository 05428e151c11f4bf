----------------------------- MODULE MCExchange -----------------------------
(***************************************************************************)
(* Instances for TLC: a short note; a photograph and its retouched copy of  *)
(* the same size (four segments under Reliable, two under Balanced), whose *)
(* sample promises more than the whole of it keeps; a log that compresses;  *)
(* a log that is still being written, and a program.  One phone has room    *)
(* for one kept photograph besides a new one, the other has neither origin  *)
(* private files nor an inflater.                                          *)
(***************************************************************************)
EXTENDS Exchange, TLC

CONSTANTS photo, retouched

File(content, name, size, sample, packed) ==
  [content |-> content, name |-> name, size |-> size, regular |-> TRUE, steady |-> TRUE,
   sample |-> sample, packed |-> packed]

Log == File("log", <<"l", "?">>, 1000000, 60, 450000)

MCFiles ==
  {File("note", <<"n", ".", "control", ".", "t">>, 700, 40, 310),
   Log, [Log EXCEPT !.steady = FALSE],
   File("program", <<"p", ".", "exe">>, 700, 40, 310)}
  \cup {File(c, <<"wide", ".", "j">>, 1900000, 50, 1899000) : c \in {photo, retouched}}

MCSettings == [enabled |-> TRUE, sampling |-> TRUE]

MCWindow == [room |-> 160, ratio |-> 100]

MCDevices ==
  {[opfs |-> TRUE,  decompress |-> TRUE,  quota |-> 9000000],
   [opfs |-> FALSE, decompress |-> FALSE, quota |-> -1]}

MCSymmetry == Permutations({photo, retouched})
=============================================================================
