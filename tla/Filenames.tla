----------------------------- MODULE Filenames -----------------------------
(***************************************************************************)
(* What becomes of a file's name: the sanitizer of the desktop and of both  *)
(* protocols (filename-sanitizer.ts) and the phone's own                   *)
(* (mobile-web/src/protocol.ts).  A name is the sequence of its characters' *)
(* kinds.  The cap of 255 characters cuts no name a file can have.          *)
(***************************************************************************)
EXTENDS Sequences, SequencesExt

Separators == {"/", "\\"}
ReservedCharacters == {"<", ">", ":", "|", "?", "*"}
Unnamed == <<"unnamed">>

\* What replace(/\.\./g, '') leaves: dots go in pairs, from the left.
WithoutDotPairs(name) ==
  FoldLeft(LAMBDA before, c :
             IF c = "." /\ before # <<>> /\ before[Len(before)] = "."
             THEN Front(before) ELSE Append(before, c),
           <<>>, name)

Basename(name) ==
  LET cuts == {i \in 1..Len(name) : name[i] \in Separators}
      cut  == IF cuts = {} THEN 0 ELSE CHOOSE i \in cuts : \A j \in cuts : j <= i
  IN  SubSeq(name, cut + 1, Len(name))

Trimmed(name) ==
  LET inner == {i \in 1..Len(name) : name[i] \notin {" ", "."}}
      first == CHOOSE i \in inner : \A j \in inner : i <= j
      final == CHOOSE i \in inner : \A j \in inner : j <= i
  IN  IF inner = {} THEN <<>> ELSE SubSeq(name, first, final)

\* sanitizeFilename()
SanitizeFilename(name) ==
  LET bare == WithoutDotPairs(Basename(SelectSeq(name, LAMBDA c : c # "nul")))
      safe == [i \in 1..Len(SelectSeq(bare, LAMBDA c : c # "control")) |->
                 LET c == SelectSeq(bare, LAMBDA d : d # "control")[i]
                 IN  IF c \in ReservedCharacters THEN "_" ELSE c]
  IN  IF Trimmed(safe) = <<>> THEN Unnamed ELSE Trimmed(safe)

\* The phone's sanitizeFilename(): separators and control characters become
\* underscores, and a separator does not end what came before it.
PhoneSanitize(name) ==
  LET Replace(S, text) == [i \in DOMAIN text |-> IF text[i] \in S THEN "_" ELSE text[i]]
      safe == Replace(ReservedCharacters \cup {"control", "nul"}, WithoutDotPairs(Replace(Separators, name)))
  IN  IF Trimmed(safe) = <<>> THEN <<"received-file">> ELSE Trimmed(safe)

\* The UTF-8 length of a character's kind; a malformed one is no character.
CharacterBytes(c) ==
  CASE c = "unnamed" -> 7 [] c = "octet-stream" -> 24 [] c = "wide" -> 3 [] OTHER -> 1
TextBytes(text) == FoldLeft(LAMBDA n, c : n + CharacterBytes(c), 0, text)
WellFormed(text) == \A i \in 1..Len(text) : text[i] # "malformed"
=============================================================================
