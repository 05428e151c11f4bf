------------------------------ MODULE FountainV1 ------------------------------
(***************************************************************************)
(* The fountain code of protocol v1: the desktop's encoder                 *)
(* (fountain-encoder.ts), the desktop's decoder (fountain-decoder.ts) and   *)
(* the phone's own decoder (mobile-web/src/protocol.ts).                   *)
(*                                                                         *)
(* As in Peeling.tla a payload is the set of things XORed into it.  Here    *)
(* they are the halves of the blocks of a container, each <<block of the    *)
(* file, half>>, and a stray member in a half the camera misread: XOR goes  *)
(* byte by byte, so what is in a half stays in that half.  A frame carries  *)
(* no checksum over its payload, so the decoders cannot tell.              *)
(***************************************************************************)
EXTENDS Peeling, Sequences, SequencesExt

CONSTANTS
  Files,        \* containers that can be sent, all of K blocks
  Shape,        \* file -> its [blockCount, blockSize, totalPayloadLength]
  Label,        \* the halves of blocks that hold the name, the type and the time
  Padding,      \* those that the container does not reach
  MaxSeen,      \* the phone's maximumSeenFrames()
  MaxUnsolved   \* the phone's maximumUnsolvedFrames()

Halves == {"head", "tail"}

ASSUME FountainAssumption ==
  /\ Label \subseteq Blocks \X Halves
  \* bound: the name leaves room in its blocks for the lengths and the digest
  /\ \A b \in Blocks : \E half \in Halves : <<b, half>> \notin Label
  /\ Padding \subseteq {K - 1} \X {"tail"}
  /\ MaxSeen \in Nat \ {0}
  /\ MaxUnsolved \in Nat \ {0}

\* FrameHeader, without the constants of the protocol.
Header(fr) == [session |-> fr.session, shape |-> fr.shape]

\* The symbol a sequence number stands for, and nextFrame().
SymbolOf(file, seq) == {<<file, b>> : b \in SymbolPayload(seq)} \X Halves

FrameOf(session, file, seq) ==
  [session |-> session, shape |-> Shape[file], seq |-> seq,
   payload |-> SymbolOf(file, seq)]

-----------------------------------------------------------------------------
(* What the two decoders have in common *)

\* `header` is a set of at most one header; `blocks` is defined on what is solved.
FreshDecoder == [header |-> {}, blocks |-> << >>, unsolved |-> << >>, seen |-> {}]

SolvedBlocks(d) == DOMAIN d.blocks
IsComplete(d)   == SolvedBlocks(d) = Blocks

XorAll(payload, blocks, which) ==
  FoldSet(LAMBDA b, p : Xor(p, blocks[b]), payload, which)

\* eliminateSolvedBlocks() / eliminate()
Eliminated(d, fr) ==
  LET nbrs == SymbolPayload(fr.seq)
  IN  [seq |-> fr.seq, nbrs |-> nbrs \ SolvedBlocks(d),
       payload |-> XorAll(fr.payload, d.blocks, nbrs \cap SolvedBlocks(d))]

Reduced(node, b, payload) ==
  IF b \in node.nbrs
    THEN [node EXCEPT !.nbrs = @ \ {b}, !.payload = Xor(@, payload)]
    ELSE node

Sequences1(nodes) == [i \in DOMAIN nodes |-> nodes[i].seq]

\* One turn of the ripple: a queued node that still has one block solves it, the
\* others lose it, those left with one block are queued behind.
Solve(d, node) ==
  LET b      == CHOOSE x \in node.nbrs : TRUE
      others == SelectSeq(d.unsolved, LAMBDA n : n.seq # node.seq)
      after  == [i \in DOMAIN others |-> Reduced(others[i], b, node.payload)]
      freed  == SelectSeq(after, LAMBDA n :
                  /\ Cardinality(n.nbrs) = 1
                  /\ \E i \in DOMAIN others : others[i].seq = n.seq /\ b \in others[i].nbrs)
  IN  [decoder |-> [d EXCEPT !.blocks = (b :> node.payload) @@ @,
                             !.unsolved = SelectSeq(after, LAMBDA n : n.nbrs # {})],
       queue   |-> Sequences1(freed)]

\* `early`: the desktop's decoder returns with its last block and leaves its
\* unsolved frames as they are.
RECURSIVE Ripple(_, _, _)
Ripple(d, queue, early) ==
  IF queue = << >> \/ (early /\ IsComplete(d)) THEN d
  ELSE LET ready == {n \in Range(d.unsolved) : n.seq = Head(queue) /\ Cardinality(n.nbrs) = 1}
       IN  IF ready = {} THEN Ripple(d, Tail(queue), early)
           ELSE LET turn == Solve(d, CHOOSE n \in ready : TRUE)
                IN  Ripple(turn.decoder, Tail(queue) \o turn.queue, early)

Buffered(d, node, early) ==
  Ripple([d EXCEPT !.unsolved = Append(@, node)],
         IF Cardinality(node.nbrs) = 1 THEN <<node.seq>> ELSE << >>, early)

-----------------------------------------------------------------------------
(* FountainDecoder.receiveFrame of the desktop: <<decoder, outcome>> *)

DesktopReceive(d, fr) ==
  LET opened == [d EXCEPT !.header = {Header(fr)}]
      node   == Eliminated(opened, fr)
      next   == Buffered(opened, node, TRUE)
  IN  IF IsComplete(d) THEN [decoder |-> d, outcome |-> "complete"]
      ELSE IF d.header \notin {{}, {Header(fr)}} THEN [decoder |-> d, outcome |-> "threw"]
      ELSE IF fr.seq \in Range(Sequences1(d.unsolved)) \/ node.nbrs = {}
        THEN [decoder |-> opened, outcome |-> "more"]
      ELSE [decoder |-> next, outcome |-> IF IsComplete(next) THEN "complete" ELSE "more"]

\* A sequence number that comes again with other bytes.
Conflicts(d, fr) == \E s \in d.seen : s.seq = fr.seq /\ s.payload # fr.payload

\* FountainDecoder.receive of the phone.  Every outcome but the first three
\* ends the session.
PhoneReceive(d, fr) ==
  LET opened == [d EXCEPT !.header = {Header(fr)}]
      seen   == [opened EXCEPT !.seen = @ \cup {[seq |-> fr.seq, payload |-> fr.payload]}]
      node   == Eliminated(seen, fr)
      next   == IF node.nbrs = {} THEN seen ELSE Buffered(seen, node, FALSE)
      Says(what, decoder) == [decoder |-> decoder, outcome |-> what]
  IN  IF d.header \notin {{}, {Header(fr)}} THEN Says("INVALID_FRAME", d)
      ELSE IF Conflicts(d, fr) THEN Says("CONFLICTING_DUPLICATE", d)
      ELSE IF \E s \in d.seen : s.seq = fr.seq THEN Says("duplicate", opened)
      ELSE IF Cardinality(d.seen) >= MaxSeen THEN Says("RESOURCE_LIMIT_EXCEEDED", d)
      ELSE IF node.nbrs # {} /\ Len(d.unsolved) >= MaxUnsolved
        THEN Says("RESOURCE_LIMIT_EXCEEDED", d)
      ELSE Says(IF IsComplete(next) THEN "complete" ELSE "accepted", next)

-----------------------------------------------------------------------------
(* What the blocks spell *)

\* The container without its padding: reconstruct(), reconstructPayload().
Container == (Blocks \X Halves) \ Padding

\* The files whose container holds at the places `where` what the blocks hold there.
Matching(blocks, where) ==
  {f \in Files : \A at \in where :
     {part \in blocks[at[1]] : part[2] = at[2]} = {<<<<f, at[1]>>, at[2]>>}}

\* The whole container, as the loopback compares it.
Spells(blocks) == Matching(blocks, Container)

\* The digest is of the file alone, and is compared with the one in the container:
\* the name, the type and the time are outside of it.
Hashed(blocks) == Matching(blocks, Container \ Label)

IsMisread(fr) == \E part \in fr.payload : part[1][1] \notin Files
=============================================================================
