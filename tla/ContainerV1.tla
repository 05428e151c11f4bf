----------------------------- MODULE ContainerV1 -----------------------------
(***************************************************************************)
(* What protocol v1 puts on the screen, byte for byte: the container of a   *)
(* file (container.ts), the blocks it is cut into (fountain-encoder.ts), the *)
(* frame around a block (protocol.ts), and how the desktop and the phone     *)
(* (mobile-web/src/protocol.ts) read them back.                            *)
(*                                                                         *)
(* A cell is a number and stands for one field or one byte.  A character is  *)
(* its place in Alphabet; any other number is malformed UTF-8, which the      *)
(* phone refuses and the desktop replaces.                                  *)
(***************************************************************************)
EXTENDS Filenames, Integers, FiniteSets
LOCAL INSTANCE Bitwise

Alphabet == <<"a", ".", "_", "/", "control", "?", "b">>

CodeOf(c) == CHOOSE n \in DOMAIN Alphabet : Alphabet[n] = c
IsText(cells) == \A i \in DOMAIN cells : cells[i] \in DOMAIN Alphabet
TextOf(cells) ==
  [i \in DOMAIN cells |-> IF cells[i] \in DOMAIN Alphabet THEN Alphabet[cells[i]] ELSE "wide"]
CellsOf(text) == [i \in DOMAIN text |-> CodeOf(text[i])]

Magic == 77
ContainerVersion == 1
BlockCells == 3                              \* bound: V1_FOUNTAIN_BLOCK_SIZE_BYTES, 512 in the code
MaxBlockCount == 6                           \* bound: 65535 in the code
MaxContainer == BlockCells * MaxBlockCount   \* V1_MAX_SERIALIZED_CONTAINER_BYTES
MaxFileCells == 24                           \* bound: 64 MiB in the code
MaxTextCells == 5                            \* bound: 1024 in the code, no name of a file is longer

-----------------------------------------------------------------------------
(* The container *)

\* Everything but the two texts and the payload.
FixedCells == 9

\* serializeContainer(), which cleans the name once more.
SerializeContainer(m, payload) ==
  LET name == CellsOf(SanitizeFilename(m.filename))
  IN  <<Magic, ContainerVersion, Len(name)>> \o name
        \o <<Len(m.mimeType)>> \o m.mimeType
        \o <<m.originalSize, IF m.compressed THEN 1 ELSE 0, 0, m.timestamp, m.sha256>> \o payload

\* Where the fields are, as far as the lengths before them are there to be read;
\* -1 where a field would start behind the end.
FieldsOf(cells) ==
  LET nameAt == 4
      mimeAt == IF Len(cells) < 3 THEN -1 ELSE nameAt + cells[3]
      sizeAt == IF mimeAt = -1 \/ Len(cells) < mimeAt THEN -1 ELSE mimeAt + 1 + cells[mimeAt]
  IN  [nameAt |-> nameAt, mimeAt |-> mimeAt, sizeAt |-> sizeAt,
       whole  |-> sizeAt # -1 /\ Len(cells) >= sizeAt + 4]

Between(cells, from, to) == SubSeq(cells, from, to - 1)

NameIn(cells)    == Between(cells, FieldsOf(cells).nameAt, FieldsOf(cells).mimeAt)
MimeIn(cells)    == Between(cells, FieldsOf(cells).mimeAt + 1, FieldsOf(cells).sizeAt)
SizeIn(cells)    == cells[FieldsOf(cells).sizeAt]
FlagsIn(cells)   == Between(cells, FieldsOf(cells).sizeAt + 1, FieldsOf(cells).sizeAt + 3)
HashIn(cells)    == cells[FieldsOf(cells).sizeAt + 4]
PayloadIn(cells) == SubSeq(cells, FieldsOf(cells).sizeAt + 5, Len(cells))

\* (mutant) The payload is taken as it comes.
OfAnyLength(cells) == TRUE

IsAsLongAsDeclared(cells) ==
  FlagsIn(cells)[1] # 1 => Len(PayloadIn(cells)) = SizeIn(cells)

\* deserializeContainer(): a flag that is not 1 is not set.
DesktopTakes(cells) ==
  /\ Len(cells) >= 2 /\ cells[1] = Magic /\ cells[2] = ContainerVersion
  /\ FieldsOf(cells).whole
  /\ SizeIn(cells) <= MaxFileCells
  /\ IsAsLongAsDeclared(cells)

Reading(cells, filename) ==
  [filename |-> filename, mimeType |-> TextOf(MimeIn(cells)),
   originalSize |-> SizeIn(cells), compressed |-> FlagsIn(cells)[1] = 1,
   encrypted |-> FlagsIn(cells)[2] = 1, sha256 |-> HashIn(cells), payload |-> PayloadIn(cells)]

DesktopReads(cells) == Reading(cells, SanitizeFilename(TextOf(NameIn(cells))))

\* parseContainer()
PhoneTakes(cells) ==
  /\ Len(cells) \in FixedCells .. MaxFileCells
  /\ cells[1] = Magic /\ cells[2] = ContainerVersion
  /\ cells[3] <= MaxTextCells
  /\ FieldsOf(cells).whole
  /\ IsText(NameIn(cells)) /\ IsText(MimeIn(cells))
  /\ Len(MimeIn(cells)) <= MaxTextCells
  /\ SizeIn(cells) <= MaxFileCells
  /\ \A i \in 1..2 : FlagsIn(cells)[i] <= 1
  /\ FlagsIn(cells)[1] = 0 => Len(PayloadIn(cells)) = SizeIn(cells)

PhoneReads(cells) == Reading(cells, PhoneSanitize(TextOf(NameIn(cells))))

\* selectFile(): the file by its size, then its container.
Selectable(m, payload) ==
  /\ Len(payload) < MaxContainer
  /\ Len(SerializeContainer(m, payload)) <= MaxContainer

-----------------------------------------------------------------------------
(* Blocks and frames *)

\* FountainEncoder: the last block is filled up with zeros.
BlockCountOf(cells) == (Len(cells) + BlockCells - 1) \div BlockCells
EncoderTakes(cells) == BlockCountOf(cells) \in 1 .. MaxBlockCount

CutInBlocks(cells) ==
  [b \in 1..BlockCountOf(cells) |->
     [i \in 1..BlockCells |->
        LET at == (b - 1) * BlockCells + i IN IF at <= Len(cells) THEN cells[at] ELSE 0]]

\* (mutant) The last block as it is.
WithItsPadding(blocks, length) == FlattenSeq(blocks)

\* reconstruct() / reconstructPayload()
Reconstruct(blocks, length) == SubSeq(FlattenSeq(blocks), 1, length)

HeaderCells == 8

Checksum(cells) == FoldLeft(LAMBDA x, c : x ^^ c, 0, cells)

\* serializeFrame()
SerializeFrame(h, block) ==
  LET fields == <<1, h.session, 0, h.seq, h.blockCount, h.blockSize, h.total>>
  IN  fields \o <<Checksum(fields)>> \o block

HeaderIn(cells) ==
  [session |-> cells[2], seq |-> cells[4], blockCount |-> cells[5], blockSize |-> cells[6],
   total |-> cells[7]]

FrameRead(cells) == [header |-> HeaderIn(cells), block |-> SubSeq(cells, HeaderCells + 1, Len(cells))]

\* deserializeFrame(), which takes whatever follows the header for the block.
DesktopTakesFrame(cells) ==
  /\ Len(cells) >= HeaderCells
  /\ Checksum(SubSeq(cells, 1, HeaderCells - 1)) = cells[HeaderCells]
  /\ cells[1] = 1

\* parseFrame()
PhoneTakesFrame(cells) ==
  /\ DesktopTakesFrame(cells)
  /\ cells[3] = 0
  /\ LET h == HeaderIn(cells)
         room == h.blockCount * h.blockSize
     IN  /\ h.blockCount \in 1..MaxBlockCount /\ h.blockSize \in 1..(4 * BlockCells)
         /\ h.total \in 1..MaxFileCells
         /\ room \in h.total .. (h.total + h.blockSize - 1)
         /\ Len(cells) = HeaderCells + h.blockSize

-----------------------------------------------------------------------------
(* What is promised *)

\* bound: names of at most three characters, a name that the first pass of the
\* sanitizer leaves with two dots together, and files of at most six bytes.
V1Names == {<<"a">>, <<"b", "/", "a">>, <<".", "a", "?">>, <<"a", ".", "control", ".", "b">>}

V1Metadata(name, size, compressed) ==
  [filename |-> SanitizeFilename(name), mimeType |-> <<1>>, originalSize |-> size,
   compressed |-> compressed, timestamp |-> 5, sha256 |-> 9]

V1File(size) == [i \in 1..size |-> 10 + i]

V1Frame(cells, b) ==
  SerializeFrame([session |-> 3, seq |-> b - 1, blockCount |-> BlockCountOf(cells),
                  blockSize |-> BlockCells, total |-> Len(cells)],
                 CutInBlocks(cells)[b])

\* The container with one cell of its fields read as something else.
MisreadAt(cells, at) == {[cells EXCEPT ![at] = n] : n \in 0..7 \ {cells[at]}}

\* What can be selected can be encoded; each of its frames says the same to the
\* phone and to the desktop, and nothing once a cell of its header is misread; the
\* blocks are the container again, which both read as what was sent, the name too;
\* one that is cut short or goes on is refused by both; and what the phone takes of
\* a damaged one the desktop takes as well, the other way only for text that is
\* malformed or too long and for flags that are neither.
V1TravelsWhole ==
  \A name \in V1Names, size \in 0..6 :
    LET m     == V1Metadata(name, size, FALSE)
        file  == V1File(size)
        cells == SerializeContainer(m, file)
        count == BlockCountOf(cells)
        sent  == [b \in 1..count |-> V1Frame(cells, b)]
        damaged == UNION {MisreadAt(cells, at) : at \in 1..(Len(cells) - size)}
    IN  Selectable(m, file) =>
          /\ EncoderTakes(cells)
          /\ \A b \in 1..count :
               /\ PhoneTakesFrame(sent[b]) /\ DesktopTakesFrame(sent[b])
               /\ \A at \in 1..HeaderCells : \A bad \in MisreadAt(sent[b], at) : ~DesktopTakesFrame(bad)
               /\ \A n \in 0..(Len(sent[b]) - 1) : ~PhoneTakesFrame(SubSeq(sent[b], 1, n))
          /\ Reconstruct([b \in 1..count |-> FrameRead(sent[b]).block], FrameRead(sent[1]).header.total) = cells
          /\ DesktopTakes(cells) /\ PhoneTakes(cells)
          /\ DesktopReads(cells) = PhoneReads(cells)
          /\ PhoneReads(cells).payload = file
          /\ PhoneReads(cells).filename = SanitizeFilename(m.filename)
          /\ \A n \in 0..(Len(cells) - 1) :
               ~DesktopTakes(SubSeq(cells, 1, n)) /\ ~PhoneTakes(SubSeq(cells, 1, n))
          /\ ~DesktopTakes(Append(cells, 1)) /\ ~PhoneTakes(Append(cells, 1))
          /\ \A bad \in damaged :
               /\ PhoneTakes(bad) =>
                    /\ DesktopTakes(bad)
                    /\ PhoneReads(bad).payload = DesktopReads(bad).payload
                    /\ PhoneReads(bad).compressed = DesktopReads(bad).compressed
               /\ DesktopTakes(bad) /\ ~PhoneTakes(bad) =>
                    \/ ~IsText(NameIn(bad)) \/ ~IsText(MimeIn(bad))
                    \/ MaxTextCells < Len(NameIn(bad)) \/ MaxTextCells < Len(MimeIn(bad))
                    \/ \E i \in 1..2 : FlagsIn(bad)[i] > 1
=============================================================================
