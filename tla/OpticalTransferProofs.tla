----------------------- MODULE OpticalTransferProofs ------------------------
(***************************************************************************)
(* Sender and receiver across screen and camera: what the receiver calls   *)
(* complete is complete and on its device, a sender opened with a code     *)
(* leaves out nothing that is still missing, and a recovery shows no       *)
(* symbol twice - for files of any number of segments and symbols, any     *)
(* capacity of the receiver, any code that has room for the ranges it is   *)
(* asked for, and any loss, duplication or refusal on the way.             *)
(*                                                                         *)
(* That a complete transfer is stored follows from the store's refusals:   *)
(* ReceiverInv carries what was committed together with the fault that a   *)
(* refusal leaves.  That a code skips nothing needs what it said when it   *)
(* was read (TokenInv) and, from there on, what the sender was opened with *)
(* (SenderInv): the receiver has not stood still since.  Fresh bounds what *)
(* was shown of a segment by the counter that a recovery draws from.       *)
(* That a batch caught whole commits its segment needs to know why a frame *)
(* is remembered (RememberedInv): its block is written out, or with the     *)
(* decoder, or was lost with one.  BatchInv then follows the batch frame by *)
(* frame.                                                                  *)
(***************************************************************************)
EXTENDS OpticalTransfer, TLAPS, FiniteSetTheorems, SequenceTheorems, WellFoundedInduction

\* Without a session there is nothing of one, and what was written out is what
\* the count says; a store that has refused nothing has all of it.
ReceiverInv ==
  /\ session # "open" => /\ committed = {} /\ committedCount = 0
                         /\ ~fault /\ ~complete
  /\ committedCount = Cardinality(committed)
  /\ session = "open" /\ ~fault => committed \subseteq stored
  /\ complete => ~fault /\ committed = Segments

\* The code that was read says what the receiver had.
TokenInv ==
  token = NoToken \/ (token.had \subseteq Segments /\ token.code = EncodeToken(token.had))

\* The pass and the recovery leave out nothing that was missing when the sender
\* was opened.
SenderInv ==
  /\ Missing(openedWith) \subseteq RecoveryFallback \cap resumeFromSegment .. (SegmentCount - 1)
  /\ phase = "recovery" => recoveryTargets = RecoveryFallback

\* Every repair symbol shown is below the next one of its segment.
Fresh ==
  \A s \in Segments : /\ recoveryNextSymbolId[s] >= FirstRecoveryId
                      /\ \A id \in displayed[s] : id < recoveryNextSymbolId[s]

TransferInv == TypeOK /\ ReceiverInv /\ TokenInv /\ SenderInv /\ Fresh
-----------------------------------------------------------------------------
(* Sets and sequences *)

\* A set of natural numbers has a least member, and one of segments a greatest.
LEMMA LeastOfNaturals ==
  ASSUME NEW S \in SUBSET Nat, S # {}
  PROVE  Min(S) \in S /\ \A x \in S : Min(S) <= x
<1> DEFINE R == {ss \in Nat \X Nat : ss[1] < ss[2]}
<1>1. IsWellFoundedOn(R, Nat)
  BY NatLessThanWellFounded DEF OpToRel
<1>2. S \subseteq Nat
  OBVIOUS
<1>3. PICK m \in S : \A x \in S : ~(<<x, m>> \in R)
  <2> HIDE DEF R
  <2> QED BY <1>1, <1>2, WFMin
<1>4. \A x \in S : x \in Nat /\ m \in Nat /\ ~(x < m)
  BY <1>2, <1>3
<1>5. \A x \in S : m <= x
  BY <1>4
<1> QED BY <1>5 DEF Min

LEMMA GreatestOfSegments ==
  ASSUME NEW S \in SUBSET Segments, S # {}
  PROVE  Max(S) \in S /\ \A x \in S : x <= Max(S)
<1>1. SegmentCount \in Nat /\ \A x \in S : x \in Nat /\ x < SegmentCount
  BY TransferAssumption DEF Segments
<1> DEFINE R == {SegmentCount - x : x \in S}
<1>2. R \in SUBSET Nat /\ R # {}
  <2>1. \A x \in S : SegmentCount - x \in Nat
    BY <1>1
  <2>2. R \subseteq Nat
    BY <2>1
  <2> QED BY <2>2
<1>3. Min(R) \in R /\ \A y \in R : Min(R) <= y
  <2> HIDE DEF R
  <2> QED BY <1>2, LeastOfNaturals
<1>4. PICK m \in S : Min(R) = SegmentCount - m
  BY <1>3
<1>5. \A x \in S : x <= m
  <2> SUFFICES ASSUME NEW x \in S PROVE x <= m
    OBVIOUS
  <2>1. SegmentCount - x \in R
    OBVIOUS
  <2>2. SegmentCount - m <= SegmentCount - x
    BY <1>3, <1>4, <2>1
  <2>3. x \in Nat /\ m \in Nat /\ SegmentCount \in Nat
    BY <1>1
  <2> QED BY <2>2, <2>3
<1> QED BY <1>1, <1>5 DEF Max

\* delete() of a key that is there makes the list of decoders shorter.
LEMMA WithoutOf ==
  ASSUME NEW S, NEW seq \in Seq(S), NEW s
  PROVE  /\ Without(seq, s) \in Seq(S)
         /\ s \notin Range(seq) => Without(seq, s) = seq
         /\ s \in Range(seq) => Len(Without(seq, s)) = Len(seq) - 1
<1>1. Range(seq) = {seq[i] : i \in 1 .. Len(seq)}
  BY DEF Range
<1>2. CASE s \notin Range(seq)
  BY <1>1, <1>2 DEF Without, RemoveFirst
<1>3. CASE s \in Range(seq)
  <2> DEFINE I == {i \in 1 .. Len(seq) : seq[i] = s}
  <2>1. I # {} /\ I \subseteq Nat
    BY <1>1, <1>3
  <2>2. Min(I) \in 1 .. Len(seq)
    BY <2>1, LeastOfNaturals
  <2>3. Without(seq, s) = RemoveAt(seq, Min(I))
    BY <2>1 DEF Without, RemoveFirst, SelectInSeq
  <2> HIDE DEF I
  <2>4. PICK m \in 1 .. Len(seq) : m = Min(I)
    BY <2>2
  <2>5. Without(seq, s) = SubSeq(seq, 1, m - 1) \o SubSeq(seq, m + 1, Len(seq))
    BY <2>3, <2>4 DEF RemoveAt
  <2>6. /\ SubSeq(seq, 1, m - 1) \in Seq(S) /\ Len(SubSeq(seq, 1, m - 1)) = m - 1
        /\ SubSeq(seq, m + 1, Len(seq)) \in Seq(S)
        /\ Len(SubSeq(seq, m + 1, Len(seq))) = Len(seq) - m
    <3>1. \A i \in 1 .. Len(seq) : seq[i] \in S
      BY ElementOfSeq
    <3>2. /\ \A i \in 1 .. (m - 1) : seq[i] \in S
          /\ \A i \in (m + 1) .. Len(seq) : seq[i] \in S
          /\ m - 1 \in Int /\ m + 1 \in Int /\ 1 \in Int /\ Len(seq) \in Int
      BY <3>1, LenProperties
    <3>3. /\ SubSeq(seq, 1, m - 1) \in Seq(S)
          /\ Len(SubSeq(seq, 1, m - 1)) = IF 1 <= m - 1 THEN m - 1 - 1 + 1 ELSE 0
      BY <3>2, SubSeqProperties
    <3>4. /\ SubSeq(seq, m + 1, Len(seq)) \in Seq(S)
          /\ Len(SubSeq(seq, m + 1, Len(seq)))
               = IF m + 1 <= Len(seq) THEN Len(seq) - (m + 1) + 1 ELSE 0
      BY <3>2, SubSeqProperties
    <3> QED BY <3>2, <3>3, <3>4
  <2> DEFINE front == SubSeq(seq, 1, m - 1)
             back  == SubSeq(seq, m + 1, Len(seq))
  <2>7. /\ Without(seq, s) \in Seq(S)
        /\ Len(Without(seq, s)) = (m - 1) + (Len(seq) - m)
    <3> HIDE DEF front, back
    <3>1. front \o back \in Seq(S) /\ Len(front \o back) = Len(front) + Len(back)
      BY <2>6, ConcatProperties DEF front, back
    <3>2. Len(front) = m - 1 /\ Len(back) = Len(seq) - m
      BY <2>6 DEF front, back
    <3> QED BY <2>5, <3>1, <3>2 DEF front, back
  <2>8. Len(seq) \in Nat /\ m \in Nat
    BY <2>4, LenProperties
  <2> QED BY <1>3, <2>7, <2>8
<1> QED BY <1>2, <1>3
-----------------------------------------------------------------------------
(* The resume code *)

\* Every segment that is missing lies in a maximal run of missing ones.
LEMMA RunAround ==
  ASSUME NEW have \in SUBSET Segments, NEW s \in Missing(have)
  PROVE  \E r \in MissingRanges(have) : s \in r.start .. (r.start + r.length - 1)
<1>0. /\ SegmentCount \in Nat /\ s \in Segments
      /\ Missing(have) \subseteq Segments /\ Segments \subseteq Nat
  BY TransferAssumption DEF Missing, Segments
<1> DEFINE A == {x \in Segments : x <= s /\ x .. s \subseteq Missing(have)}
           B == {y \in Segments : y >= s /\ s .. y \subseteq Missing(have)}
<1>1. s .. s \subseteq Missing(have)
  BY <1>0
<1>2. A \in SUBSET Nat /\ A # {} /\ B \in SUBSET Segments /\ B # {}
  <2>1. s \in A /\ s \in B
    BY <1>0, <1>1
  <2>2. A \subseteq Nat /\ B \subseteq Segments
    BY <1>0
  <2> QED BY <2>1, <2>2
<1>3. Min(A) \in A /\ \A x \in A : Min(A) <= x
  <2> HIDE DEF A
  <2> QED BY <1>2, LeastOfNaturals
<1>4. Max(B) \in B /\ \A y \in B : y <= Max(B)
  <2> HIDE DEF B
  <2> QED BY <1>2, GreatestOfSegments
<1>5. PICK a \in Segments : /\ a <= s /\ a .. s \subseteq Missing(have)
                            /\ \A x \in A : a <= x
  BY <1>3
<1>6. PICK b \in Segments : /\ b >= s /\ s .. b \subseteq Missing(have)
                            /\ \A y \in B : y <= b
  BY <1>4
<1>7. a .. b \subseteq Missing(have)
  BY <1>0, <1>5, <1>6
<1>8. a - 1 \notin Missing(have)
  <2> SUFFICES ASSUME a - 1 \in Missing(have) PROVE FALSE
    OBVIOUS
  <2>1. a - 1 \in Segments /\ a - 1 <= s /\ (a - 1) .. s \subseteq Missing(have)
    BY <1>0, <1>5
  <2> QED BY <1>0, <1>5, <2>1
<1>9. b + 1 \notin Missing(have)
  <2> SUFFICES ASSUME b + 1 \in Missing(have) PROVE FALSE
    OBVIOUS
  <2>1. b + 1 \in Segments /\ b + 1 >= s /\ s .. (b + 1) \subseteq Missing(have)
    BY <1>0, <1>6
  <2> QED BY <1>0, <1>6, <2>1
<1> DEFINE r == [start |-> a, length |-> b - a + 1]
<1>10. r \in [start : Segments, length : 1 .. SegmentCount]
  BY <1>0, <1>5, <1>6 DEF Segments
<1>11. r.start + r.length - 1 = b /\ r.start + r.length = b + 1 /\ r.start = a
  BY <1>0, <1>5, <1>6
<1>12. r \in MissingRanges(have)
  BY <1>7, <1>8, <1>9, <1>10, <1>11 DEF MissingRanges
<1>13. s \in r.start .. (r.start + r.length - 1)
  BY <1>0, <1>5, <1>6, <1>11
<1> QED BY <1>12, <1>13

\* A code names every segment that is missing, and nothing else than segments.
LEMMA CodeCovers ==
  ASSUME NEW have \in SUBSET Segments
  PROVE  /\ Missing(have) \subseteq TokenTargets(EncodeToken(have))
         /\ Missing(have) \subseteq EncodeToken(have).from .. (SegmentCount - 1)
         /\ TokenTargets(EncodeToken(have)) \subseteq Segments
         /\ EncodeToken(have).from \in 0 .. SegmentCount
<1> DEFINE code == EncodeToken(have)
<1>0. SegmentCount \in Nat /\ Segments = 0 .. (SegmentCount - 1)
  BY TransferAssumption DEF Segments
<1>1. code.from = FirstMissing(have) /\ code.missing \in {MissingRanges(have), {}}
  BY DEF EncodeToken
<1>2. /\ code.from \in 0 .. SegmentCount
      /\ Missing(have) \subseteq code.from .. (SegmentCount - 1)
  <2>1. CASE have = Segments
    BY <1>0, <1>1, <2>1 DEF FirstMissing, Missing
  <2>2. CASE have # Segments
    <3>1. Missing(have) \in SUBSET Nat /\ Missing(have) # {} /\ Missing(have) \subseteq Segments
      <4>1. Missing(have) \subseteq Segments /\ Segments \subseteq Nat
        BY <1>0 DEF Missing
      <4>2. Missing(have) # {}
        BY <2>2 DEF Missing
      <4> QED BY <4>1, <4>2
    <3>2. Min(Missing(have)) \in Missing(have) /\ \A x \in Missing(have) : Min(Missing(have)) <= x
      BY <3>1, LeastOfNaturals
    <3> QED BY <1>0, <1>1, <2>2, <3>1, <3>2 DEF FirstMissing
  <2> QED BY <2>1, <2>2
<1>3. CASE code.missing = {}
  BY <1>0, <1>2, <1>3 DEF TokenTargets
<1>4. CASE code.missing # {}
  <2>1. TokenTargets(code) = UNION {r.start .. (r.start + r.length - 1) : r \in MissingRanges(have)}
    BY <1>1, <1>4 DEF TokenTargets
  <2>2. Missing(have) \subseteq TokenTargets(code)
    BY <2>1, RunAround
  <2>3. \A r \in MissingRanges(have) : r.start .. (r.start + r.length - 1) \subseteq Segments
    BY DEF MissingRanges, Missing
  <2> QED BY <1>2, <2>1, <2>2, <2>3
<1> QED BY <1>3, <1>4
-----------------------------------------------------------------------------
(* What does not change keeps its part of the invariant *)

LEMMA Constants ==
  /\ SegmentCount \in Nat \ {0} /\ Segments = 0 .. (SegmentCount - 1)
  /\ K \in Nat \ {0} /\ Blocks = 0 .. (K - 1) /\ RepairPerSegment \in Nat
  /\ SymbolsPerSegment = K + RepairPerSegment /\ FirstRecoveryId = SymbolsPerSegment
  /\ SymbolsPerSegment \in Nat \ {0}
  /\ \A id \in 0 .. (SymbolsPerSegment - 1) : id \in Symbols
  /\ Symbols \subseteq Nat /\ RepairIds \subseteq Nat \ Blocks
  /\ ManifestInterval \in Nat \ {0, 1}
  /\ DedupeCapacity \in Nat \ {0} /\ MaxActiveSegments \in Nat \ {0}
<1>1. \A id \in 0 .. (SymbolsPerSegment - 1) : id \in Symbols
  <2> SUFFICES ASSUME NEW id \in 0 .. (SymbolsPerSegment - 1) PROVE id \in Symbols
    OBVIOUS
  <2>1. id < K \/ id \in K .. (K + RepairPerSegment - 1)
    BY TransferAssumption, PeelingAssumption DEF SymbolsPerSegment
  <2> QED BY <2>1, TransferAssumption, PeelingAssumption
          DEF SymbolsPerSegment, Symbols, Blocks
<1> QED BY <1>1, TransferAssumption, PeelingAssumption
        DEF Segments, Blocks, SymbolsPerSegment, FirstRecoveryId, Symbols

LEMMA FrameFacts ==
  ASSUME NEW f \in Frames
  PROVE  /\ f.segment \in Segments /\ f.symbol \in Symbols
         /\ f.symbol \in RepairIds => f.kind = "data"
         /\ f.kind = "data" => f = Data(f.segment, f.symbol)
BY Constants DEF Frames, Manifest, Blank, Data, Symbols

LEMMA DataIsFrame ==
  ASSUME NEW s \in Segments, NEW id \in Symbols
  PROVE  /\ Data(s, id) \in Frames
         /\ Data(s, id).segment = s /\ Data(s, id).symbol = id
         /\ Data(s, id).kind = "data"
BY DEF Frames, Data

\* The sender's half of the type, and the receiver's.
SenderTyped ==
  /\ phase \in {"pass", "recovery", "closed"}
  /\ segmentIndex \in 0 .. SegmentCount /\ symbolCursor \in 0 .. SymbolsPerSegment
  /\ framesProduced \in 0 .. (ManifestInterval - 1)
  /\ resumeFromSegment \in Segments
  /\ resumeTargets \subseteq Segments /\ recoveryTargets \subseteq Segments
  /\ recoveryTarget \in Segments
  /\ recoveryBatchRemaining \in 0 .. SymbolsPerSegment
  /\ recoveryNextSymbolId \in [Segments -> Nat]
  /\ senderSessions \in Nat
  /\ frame \in Frames
  /\ openedWith \subseteq Segments
  /\ displayed \in [Segments -> SUBSET RepairIds]

ReceiverTyped ==
  /\ session \in {"none", "provisioning", "open", "refused"}
  /\ {fault, complete} \subseteq BOOLEAN
  /\ dedupe \in Seq(Frames) /\ Len(dedupe) <= DedupeCapacity
  /\ active \in Seq(Segments) /\ Len(active) <= MaxActiveSegments
  /\ held \in [Segments -> SUBSET Symbols]
  /\ committed \subseteq Segments /\ committedCount \in 0 .. SegmentCount
  /\ stored \subseteq Segments /\ receiverSessions \in Nat
  /\ lost \in [Segments -> SUBSET Blocks]

LEMMA TypeOfHalves ==
  TypeOK <=> /\ SenderTyped /\ ReceiverTyped
             /\ {caught, batchCaught, deprived} \subseteq BOOLEAN
             /\ token = NoToken \/ token.had \subseteq Segments
BY DEF TypeOK, SenderTyped, ReceiverTyped

LEMMA SenderStands ==
  ASSUME TransferInv, UNCHANGED senderVars
  PROVE  SenderTyped' /\ SenderInv' /\ Fresh'
BY TypeOfHalves DEF TransferInv, senderVars, SenderTyped, SenderInv, Fresh, RecoveryFallback

LEMMA ReceiverStands ==
  ASSUME TransferInv, UNCHANGED receiverVars
  PROVE  ReceiverTyped' /\ ReceiverInv'
BY TypeOfHalves DEF TransferInv, receiverVars, ReceiverTyped, ReceiverInv

LEMMA TokenStands ==
  ASSUME TransferInv, UNCHANGED token
  PROVE  TokenInv'
BY DEF TransferInv, TokenInv

LEMMA Together ==
  ASSUME SenderTyped', ReceiverTyped', ReceiverInv', TokenInv', SenderInv', Fresh',
         {caught, batchCaught, deprived}' \subseteq BOOLEAN
  PROVE  TransferInv'
BY DEF TransferInv, TypeOK, SenderTyped, ReceiverTyped, TokenInv
-----------------------------------------------------------------------------
(* The sender *)

LEMMA Showing ==
  ASSUME TransferInv, NEW f \in Frames, NextOnDisplay(f)
  PROVE  /\ frame' \in Frames /\ framesProduced' \in 0 .. (ManifestInterval - 1)
         /\ {caught, batchCaught, deprived} \subseteq BOOLEAN /\ caught' \in BOOLEAN
         /\ StillWhole \in BOOLEAN
         /\ displayed' \in [Segments -> SUBSET RepairIds]
         /\ f.kind # "data" => displayed' = displayed
         /\ \A s \in Segments : \A id \in displayed'[s] :
              id \in displayed[s] \/ (s = f.segment /\ id = f.symbol)
<1>1. framesProduced' \in 0 .. (ManifestInterval - 1)
  BY Constants DEF TransferInv, TypeOK, NextOnDisplay
<1> QED BY <1>1, FrameFacts DEF TransferInv, TypeOK, NextOnDisplay, StillWhole

LEMMA ShowManifestKeeps ==
  ASSUME TransferInv, ShowManifest
  PROVE  TransferInv'
<1>0. SenderTyped
  BY TypeOfHalves DEF TransferInv
<1>1. /\ frame' \in Frames /\ framesProduced' \in 0 .. (ManifestInterval - 1)
      /\ {caught, batchCaught, deprived}' \subseteq BOOLEAN /\ displayed' = displayed
  BY Showing DEF ShowManifest, Frames, Manifest
<1>2. SenderTyped'
  BY <1>0, <1>1 DEF ShowManifest, SenderTyped
<1>3. SenderInv' /\ Fresh'
  BY <1>1 DEF TransferInv, ShowManifest, SenderInv, Fresh, RecoveryFallback
<1> QED BY <1>1, <1>2, <1>3, ReceiverStands, TokenStands, Together DEF ShowManifest

LEMMA ShowPassSymbolKeeps ==
  ASSUME TransferInv, ShowPassSymbol
  PROVE  TransferInv'
<1>0. SenderTyped
  BY TypeOfHalves DEF TransferInv
<1>1. /\ DueSegment \in Segments /\ DueSymbol \in 0 .. (SymbolsPerSegment - 1)
      /\ DueSymbol \in Symbols
  BY <1>0, Constants DEF SenderTyped, ShowPassSymbol, DueSegment, DueSymbol
<1>2. /\ frame' \in Frames /\ framesProduced' \in 0 .. (ManifestInterval - 1)
      /\ {caught, batchCaught, deprived}' \subseteq BOOLEAN
      /\ displayed' \in [Segments -> SUBSET RepairIds]
      /\ \A s \in Segments : \A id \in displayed'[s] : id \in displayed[s] \/ id = DueSymbol
  BY <1>1, Showing, DataIsFrame DEF ShowPassSymbol
<1>3. SenderTyped'
  BY <1>0, <1>1, <1>2, Constants DEF ShowPassSymbol, SenderTyped
<1>4. SenderInv'
  BY DEF TransferInv, ShowPassSymbol, SenderInv, RecoveryFallback
<1>5. Fresh'
  BY <1>0, <1>1, <1>2, Constants DEF TransferInv, ShowPassSymbol, Fresh, SenderTyped
<1> QED BY <1>2, <1>3, <1>4, <1>5, ReceiverStands, TokenStands, Together DEF ShowPassSymbol

LEMMA BeginRecoveryKeeps ==
  ASSUME TransferInv, BeginRecovery
  PROVE  TransferInv'
<1>0. SenderTyped
  BY TypeOfHalves DEF TransferInv
<1>1. RecoveryFallback \in SUBSET Segments /\ RecoveryFallback # {}
  BY <1>0, Constants DEF SenderTyped, RecoveryFallback
<1>2. Max(RecoveryFallback) \in Segments
  BY <1>1, GreatestOfSegments
<1>3. SenderTyped'
  BY <1>0, <1>1, <1>2, Constants DEF BeginRecovery, SenderTyped, DueSegment, DueSymbol
<1>4. SenderInv' /\ Fresh'
  BY DEF TransferInv, BeginRecovery, SenderInv, Fresh, RecoveryFallback
<1>5. {caught, batchCaught, deprived}' \subseteq BOOLEAN
  BY DEF TransferInv, TypeOK, BeginRecovery
<1> QED BY <1>3, <1>4, <1>5, ReceiverStands, TokenStands, Together DEF BeginRecovery

\* The target of a batch is one of those recovery was begun with.
LEMMA NextTargetIsOne ==
  ASSUME TransferInv, phase = "recovery"
  PROVE  NextTarget \in Segments
<1>1. recoveryTargets \in SUBSET Segments /\ recoveryTargets # {}
  BY Constants DEF TransferInv, TypeOK, SenderInv, RecoveryFallback
<1>2. ASSUME NEW T \in SUBSET recoveryTargets, T # {}
      PROVE  Min(T) \in Segments
  <2>1. T \in SUBSET Nat
    BY <1>1, Constants
  <2>2. Min(T) \in T
    BY <1>2, <2>1, LeastOfNaturals
  <2> QED BY <1>1, <2>2
<1> DEFINE later == {t \in recoveryTargets : t > recoveryTarget}
<1>3. later \in SUBSET recoveryTargets
  OBVIOUS
<1> QED BY <1>1, <1>2, <1>3 DEF NextTarget

LEMMA ShowRecoverySymbolKeeps ==
  ASSUME TransferInv, ShowRecoverySymbol
  PROVE  TransferInv'
<1>0. SenderTyped /\ phase = "recovery"
  BY TypeOfHalves DEF TransferInv, ShowRecoverySymbol
<1> DEFINE begins  == recoveryBatchRemaining = 0
           target  == IF begins THEN NextTarget ELSE recoveryTarget
           emitted == IF begins THEN 0 ELSE SymbolsPerSegment - recoveryBatchRemaining
           id      == BatchSymbol(target, emitted)
<1>1. /\ id \in Symbols /\ NextOnDisplay(Data(target, id))
      /\ recoveryTarget' = target
      /\ recoveryBatchRemaining' = SymbolsPerSegment - emitted - 1
      /\ recoveryNextSymbolId' = IF id \in Blocks THEN recoveryNextSymbolId
                                   ELSE [recoveryNextSymbolId EXCEPT ![target] = id + 1]
      /\ batchCaught' = (begins \/ StillWhole)
      /\ deprived' = (~begins /\ deprived)
  BY DEF ShowRecoverySymbol
<1>2. target \in Segments /\ emitted \in 0 .. (SymbolsPerSegment - 1)
  BY <1>0, NextTargetIsOne, Constants DEF SenderTyped
<1>3. id \in Blocks \/ id = recoveryNextSymbolId[target]
  BY <1>2, Constants DEF BatchSymbol
<1> HIDE DEF id, target, emitted
<1>4. /\ frame' \in Frames /\ framesProduced' \in 0 .. (ManifestInterval - 1)
      /\ {caught, batchCaught, deprived}' \subseteq BOOLEAN
      /\ displayed' \in [Segments -> SUBSET RepairIds]
      /\ \A s \in Segments : \A r \in displayed'[s] :
           r \in displayed[s] \/ (s = target /\ r = id)
  BY <1>1, <1>2, Showing, DataIsFrame
<1>5. /\ recoveryNextSymbolId' \in [Segments -> Nat]
      /\ \A s \in Segments : recoveryNextSymbolId'[s] >= recoveryNextSymbolId[s]
      /\ id \notin Blocks => recoveryNextSymbolId'[target] > id
  BY <1>0, <1>1, <1>2, <1>3, Constants DEF SenderTyped
<1>6. SenderTyped'
  BY <1>0, <1>1, <1>2, <1>4, <1>5, Constants DEF ShowRecoverySymbol, SenderTyped
<1>7. SenderInv'
  BY DEF TransferInv, ShowRecoverySymbol, SenderInv, RecoveryFallback
<1>8. Fresh'
  <2>1. \A s \in Segments : recoveryNextSymbolId'[s] >= FirstRecoveryId
    BY <1>0, <1>5, Constants DEF TransferInv, Fresh, SenderTyped
  <2>2. ASSUME NEW s \in Segments, NEW r \in displayed'[s]
        PROVE  r < recoveryNextSymbolId'[s]
    <3>1. r \in RepairIds /\ r \in Nat /\ r \notin Blocks
      BY <1>4, <2>2, Constants
    <3>2. /\ recoveryNextSymbolId[s] \in Nat /\ recoveryNextSymbolId'[s] \in Nat
          /\ recoveryNextSymbolId'[s] >= recoveryNextSymbolId[s]
      BY <1>0, <1>5 DEF SenderTyped
    <3>3. CASE r \in displayed[s]
      BY <3>1, <3>2, <3>3 DEF TransferInv, Fresh
    <3>4. CASE s = target /\ r = id
      BY <1>5, <3>1, <3>2, <3>4
    <3> QED BY <1>4, <3>3, <3>4
  <2> QED BY <2>1, <2>2 DEF Fresh
<1> QED BY <1>4, <1>6, <1>7, <1>8, ReceiverStands, TokenStands, Together DEF ShowRecoverySymbol

LEMMA CloseSenderKeeps ==
  ASSUME TransferInv, CloseSender
  PROVE  TransferInv'
<1>0. SenderTyped
  BY TypeOfHalves DEF TransferInv
<1>1. SenderTyped'
  BY <1>0 DEF CloseSender, SenderTyped, Frames
<1>b. {caught, batchCaught, deprived}' \subseteq BOOLEAN
  BY DEF TransferInv, TypeOK, CloseSender
<1>2. SenderInv' /\ Fresh'
  BY DEF TransferInv, CloseSender, SenderInv, Fresh, RecoveryFallback
<1> QED BY <1>1, <1>b, <1>2, ReceiverStands, TokenStands, Together DEF CloseSender

LEMMA OpenResumedKeeps ==
  ASSUME TransferInv, OpenResumed
  PROVE  TransferInv'
<1>0. SenderTyped
  BY TypeOfHalves DEF TransferInv
<1>1. /\ token.had \in SUBSET Segments /\ token.code = EncodeToken(token.had)
      /\ openedWith' = token.had /\ resumeTargets' = TokenTargets(token.code)
      /\ recoveryTargets' = {} /\ phase' = "pass"
  BY DEF TransferInv, TokenInv, OpenResumed
<1>2. /\ Missing(token.had) \subseteq TokenTargets(token.code)
      /\ Missing(token.had) \subseteq token.code.from .. (SegmentCount - 1)
      /\ TokenTargets(token.code) \subseteq Segments
      /\ token.code.from \in 0 .. SegmentCount
  BY <1>1, CodeCovers
<1>3. /\ resumeFromSegment' \in Segments
      /\ Missing(token.had) \subseteq resumeFromSegment' .. (SegmentCount - 1)
  BY <1>2, Constants DEF OpenResumed
<1>4. SenderTyped' /\ {caught, batchCaught, deprived}' \subseteq BOOLEAN
  BY <1>0, <1>1, <1>2, <1>3, Constants
     DEF TransferInv, TypeOK, OpenResumed, SenderTyped, batchVars
<1>5. SenderInv'
  <2>1. Missing(token.had) \subseteq RecoveryFallback'
    BY <1>1, <1>2 DEF RecoveryFallback, Missing
  <2> QED BY <1>1, <1>3, <2>1 DEF SenderInv, Missing
<1>6. Fresh'
  BY Constants DEF OpenResumed, Fresh
<1> QED BY <1>4, <1>5, <1>6, ReceiverStands, TokenStands, Together DEF OpenResumed

-----------------------------------------------------------------------------
(* The receiver *)

\* A set of segments is finite, and is all of them when there are as many.
LEMMA CountOf ==
  ASSUME NEW T \in SUBSET Segments
  PROVE  /\ Cardinality(T) \in 0 .. SegmentCount
         /\ Cardinality(T) = SegmentCount => T = Segments
         /\ \A s \in Segments \ T : Cardinality(T \cup {s}) = Cardinality(T) + 1
<1>1. IsFiniteSet(Segments) /\ Cardinality(Segments) = SegmentCount
  <2>1. 0 \in Int /\ SegmentCount - 1 \in Int
    BY Constants
  <2>2. /\ IsFiniteSet(0 .. (SegmentCount - 1))
        /\ Cardinality(0 .. (SegmentCount - 1))
             = IF 0 > SegmentCount - 1 THEN 0 ELSE SegmentCount - 1 - 0 + 1
    BY <2>1, FS_Interval
  <2> QED BY <2>2, Constants
<1>2. IsFiniteSet(T) /\ Cardinality(T) <= SegmentCount
        /\ (Cardinality(T) = SegmentCount => T = Segments)
  BY <1>1, FS_Subset
<1>3. Cardinality(T) \in Nat
  BY <1>2, FS_CardinalityType
<1>4. \A s \in Segments \ T : Cardinality(T \cup {s}) = Cardinality(T) + 1
  BY <1>2, FS_AddElement
<1> QED BY <1>2, <1>3, <1>4, Constants

LEMMA RememberingKeeps ==
  ASSUME ReceiverTyped, NEW f \in Frames
  PROVE  Remembering(f) \in Seq(Frames) /\ Len(Remembering(f)) <= DedupeCapacity
<1>1. CASE Len(dedupe) = DedupeCapacity
  <2>1. dedupe # <<>>
    BY <1>1, Constants
  <2>2. Tail(dedupe) \in Seq(Frames) /\ Len(Tail(dedupe)) = Len(dedupe) - 1
    BY <2>1 DEF ReceiverTyped
  <2> QED BY <1>1, <2>2, Constants DEF Remembering, ReceiverTyped
<1>2. CASE Len(dedupe) # DedupeCapacity
  BY <1>2, Constants DEF Remembering, ReceiverTyped
<1> QED BY <1>1, <1>2

\* activate() leaves room for the segment, and evicts no more than one.
LEMMA RoomFor ==
  ASSUME ReceiverTyped, NEW s \in Segments
  PROVE  /\ Room(s) \in Seq(Segments)
         /\ Without(Room(s), s) \in Seq(Segments)
         /\ Len(Without(Room(s), s)) <= MaxActiveSegments - 1
<1>1. active \in Seq(Segments) /\ Len(active) \in Nat /\ Len(active) <= MaxActiveSegments
  BY DEF ReceiverTyped
<1>2. CASE s \in Range(active)
  BY <1>1, <1>2, WithoutOf, Constants DEF Room
<1>3. CASE s \notin Range(active) /\ Len(active) < MaxActiveSegments
  <2>1. Room(s) = active
    BY <1>1, <1>3, Constants DEF Room
  <2> QED BY <1>1, <1>3, <2>1, WithoutOf, Constants
<1>4. CASE s \notin Range(active) /\ Len(active) >= MaxActiveSegments
  <2>1. Room(s) = Tail(active) /\ active # <<>>
    BY <1>1, <1>4, Constants DEF Room
  <2>2. Tail(active) \in Seq(Segments) /\ Len(Tail(active)) = Len(active) - 1
    BY <1>1, <2>1
  <2> DEFINE kept == Tail(active)
  <2>3. /\ Without(kept, s) \in Seq(Segments)
        /\ s \notin Range(kept) => Without(kept, s) = kept
        /\ s \in Range(kept) => Len(Without(kept, s)) = Len(kept) - 1
    BY <2>2, WithoutOf
  <2>4. kept \in Seq(Segments) /\ Len(kept) \in Nat /\ Len(kept) <= MaxActiveSegments - 1
    BY <1>1, <2>2, Constants
  <2> HIDE DEF kept
  <2>5. Len(Without(kept, s)) <= MaxActiveSegments - 1
    BY <2>3, <2>4, Constants
  <2> QED BY <2>1, <2>3, <2>4, <2>5 DEF kept
<1> QED BY <1>1, <1>2, <1>3, <1>4, Constants

LEMMA SuppressKeeps ==
  ASSUME TransferInv, Suppress
  PROVE  TransferInv'
<1>1. {caught, batchCaught, deprived}' \subseteq BOOLEAN
  BY DEF TransferInv, TypeOK, Suppress, Catch
<1> QED BY <1>1, SenderStands, ReceiverStands, TokenStands, Together DEF Suppress

LEMMA CatchManifestKeeps ==
  ASSUME TransferInv, CatchManifest
  PROVE  TransferInv'
<1>0. ReceiverTyped /\ frame \in Frames
  BY TypeOfHalves DEF TransferInv, TypeOK
<1>1. ReceiverTyped'
  BY <1>0, RememberingKeeps DEF CatchManifest, Observe, ReceiverTyped
<1>2. ReceiverInv'
  BY DEF TransferInv, CatchManifest, ReceiverInv
<1>3. {caught, batchCaught, deprived}' \subseteq BOOLEAN
  BY DEF TransferInv, TypeOK, CatchManifest, batchVars
<1> QED BY <1>1, <1>2, <1>3, SenderStands, TokenStands, Together DEF CatchManifest

LEMMA CatchPendingKeeps ==
  ASSUME TransferInv, CatchPending
  PROVE  TransferInv'
<1>1. ReceiverTyped' /\ ReceiverInv'
  BY TypeOfHalves DEF TransferInv, CatchPending, AfterPending, ReceiverTyped, ReceiverInv
<1>2. {caught, batchCaught, deprived}' \subseteq BOOLEAN
  BY DEF TransferInv, TypeOK, CatchPending, batchVars
<1> QED BY <1>1, <1>2, SenderStands, TokenStands, Together DEF CatchPending

LEMMA ProvisionedKeeps ==
  ASSUME TransferInv, Provisioned
  PROVE  TransferInv'
<1>0. ReceiverTyped
  BY TypeOfHalves DEF TransferInv
<1>1. /\ stored' \in SUBSET Segments /\ committed' = stored'
      /\ committedCount' = Cardinality(committed')
      /\ complete' = (committedCount' = SegmentCount)
      /\ fault' = fault /\ fault = FALSE /\ session' = "open"
  BY <1>0 DEF TransferInv, ReceiverInv, Provisioned, ReceiverTyped
<1>2. committedCount' \in 0 .. SegmentCount /\ (complete' => committed' = Segments)
  BY <1>1, CountOf
<1>3. ReceiverTyped'
  BY <1>0, <1>1, <1>2 DEF Provisioned, ReceiverTyped
<1>4. ReceiverInv'
  BY <1>1, <1>2 DEF ReceiverInv
<1>5. {caught, batchCaught, deprived}' \subseteq BOOLEAN
  BY DEF TransferInv, TypeOK, Provisioned, batchVars
<1> QED BY <1>3, <1>4, <1>5, SenderStands, TokenStands, Together DEF Provisioned

LEMMA ProvisionFailsKeeps ==
  ASSUME TransferInv, ProvisionFails
  PROVE  TransferInv'
<1>1. ReceiverTyped' /\ ReceiverInv'
  BY TypeOfHalves DEF TransferInv, ProvisionFails, ReceiverTyped, ReceiverInv
<1>2. {caught, batchCaught, deprived}' \subseteq BOOLEAN
  BY DEF TransferInv, TypeOK, ProvisionFails, batchVars
<1> QED BY <1>1, <1>2, SenderStands, TokenStands, Together DEF ProvisionFails

LEMMA CatchCommittedKeeps ==
  ASSUME TransferInv, CatchCommitted
  PROVE  TransferInv'
<1>0. ReceiverTyped /\ frame \in Frames
  BY TypeOfHalves DEF TransferInv, TypeOK
<1>1. ReceiverTyped'
  BY <1>0, RememberingKeeps DEF CatchCommitted, Observe, ReceiverTyped
<1>2. ReceiverInv'
  BY DEF TransferInv, CatchCommitted, ReceiverInv
<1>3. {caught, batchCaught, deprived}' \subseteq BOOLEAN
  BY DEF TransferInv, TypeOK, CatchCommitted, Catch
<1> QED BY <1>1, <1>2, <1>3, SenderStands, TokenStands, Together DEF CatchCommitted

LEMMA CatchSymbolKeeps ==
  ASSUME TransferInv, CatchSymbol
  PROVE  TransferInv'
<1>0. ReceiverTyped /\ ReceiverInv /\ frame \in Frames
  BY TypeOfHalves DEF TransferInv, TypeOK
<1> DEFINE s == frame.segment
<1>1. /\ s \in Segments /\ frame.symbol \in Symbols /\ s \notin committed
      /\ session = "open" /\ complete = FALSE /\ session' = "open"
      /\ receiverSessions' = receiverSessions
  BY <1>0, FrameFacts DEF CatchSymbol, Seen, IsSegmentCommitted, ReceiverTyped
<1>2. dedupe' \in Seq(Frames) /\ Len(dedupe') <= DedupeCapacity
  BY <1>0, RememberingKeeps DEF CatchSymbol, Observe
<1>3. PICK answer :
        LET taken == Decoder!HeldAfter(HeldAround(s)[s], frame.symbol, answer)
        IN  /\ lost' = [t \in Segments |-> {b \in Blocks :
                          /\ b \in lost[t] \/ (t \in Evicted(s) /\ b \in Solvable(held[t]))
                          /\ Data(t, b) \in Range(Remembering(frame)) \ {frame}}]
            /\ IF Complete(taken) THEN Commit(s)
               ELSE /\ active' = Append(Without(Room(s), s), s)
                    /\ held' = [HeldAround(s) EXCEPT ![s] = taken]
                    /\ UNCHANGED <<fault, complete, committed, committedCount, stored>>
  BY DEF CatchSymbol
<1> DEFINE taken == Decoder!HeldAfter(HeldAround(s)[s], frame.symbol, answer)
<1>4. HeldAround(s) \in [Segments -> SUBSET Symbols]
  BY <1>0 DEF HeldAround, ReceiverTyped
<1>5. taken \in SUBSET Symbols
  BY <1>1, <1>4 DEF Decoder!HeldAfter
<1>6. lost' \in [Segments -> SUBSET Blocks]
  BY <1>3
<1>7. /\ Without(Room(s), s) \in Seq(Segments)
      /\ Len(Without(Room(s), s)) <= MaxActiveSegments - 1
      /\ Len(Without(Room(s), s)) \in Nat
  BY <1>0, <1>1, RoomFor
<1>8. {caught, batchCaught, deprived}' \subseteq BOOLEAN
  BY DEF TransferInv, TypeOK, CatchSymbol, Catch
<1>9. ReceiverTyped' /\ ReceiverInv'
  <2>1. CASE ~Complete(taken)
    <3>1. /\ active' = Append(Without(Room(s), s), s)
          /\ held' = [HeldAround(s) EXCEPT ![s] = taken]
          /\ UNCHANGED <<fault, complete, committed, committedCount, stored>>
      BY <1>3, <2>1
    <3> HIDE DEF taken, s
    <3>2. active' \in Seq(Segments) /\ Len(active') <= MaxActiveSegments
      BY <1>1, <1>7, <3>1, Constants
    <3>3. held' \in [Segments -> SUBSET Symbols]
      BY <1>1, <1>4, <1>5, <3>1
    <3> QED BY <1>0, <1>1, <1>2, <1>6, <3>1, <3>2, <3>3 DEF ReceiverTyped, ReceiverInv
  <2>2. CASE Complete(taken)
    <3>1. Commit(s)
      BY <1>3, <2>2
    <3>2. PICK ok \in BOOLEAN : /\ stored' = IF ok THEN stored \cup {s} ELSE stored
                                /\ fault' = (fault \/ ~ok)
      BY <3>1 DEF Commit
    <3>3. /\ active' = Without(Room(s), s)
          /\ held' = [HeldAround(s) EXCEPT ![s] = {}]
          /\ committed' = committed \cup {s}
          /\ committedCount' = committedCount + 1
          /\ complete' = (~fault' /\ committedCount' = SegmentCount)
      BY <3>1 DEF Commit, Finished
    <3> HIDE DEF taken, s
    <3>4. committed \in SUBSET Segments /\ committed' \in SUBSET Segments
      BY <1>0, <1>1, <3>3 DEF ReceiverTyped
    <3>5. committedCount' = Cardinality(committed')
      BY <1>0, <1>1, <3>3, <3>4, CountOf DEF ReceiverInv
    <3>6. committedCount' \in 0 .. SegmentCount /\ (complete' => committed' = Segments)
      BY <3>3, <3>4, <3>5, CountOf
    <3>7. held' \in [Segments -> SUBSET Symbols]
      BY <1>1, <1>4, <3>3
    <3>8. active' \in Seq(Segments) /\ Len(active') <= MaxActiveSegments
      BY <1>7, <3>3, Constants
    <3>9. stored' \subseteq Segments /\ fault' \in BOOLEAN /\ complete' \in BOOLEAN
      BY <1>0, <1>1, <3>2, <3>3 DEF ReceiverTyped
    <3>10. ReceiverTyped'
      BY <1>0, <1>1, <1>2, <1>6, <3>4, <3>6, <3>7, <3>8, <3>9 DEF ReceiverTyped
    <3>11. ~fault' => committed' \subseteq stored'
      BY <1>0, <1>1, <3>2, <3>3 DEF ReceiverInv
    <3> QED BY <1>1, <3>3, <3>5, <3>6, <3>10, <3>11 DEF ReceiverInv
  <2> QED BY <2>1, <2>2
<1> QED BY <1>8, <1>9, SenderStands, TokenStands, Together DEF CatchSymbol

LEMMA ReceiverEndsKeeps ==
  ASSUME TransferInv, ReceiverEnds
  PROVE  TransferInv'
<1>0. ReceiverTyped
  BY TypeOfHalves DEF TransferInv
<1>1. ReceiverTyped'
  <2>1. dedupe' \in Seq(Frames) /\ Len(dedupe') <= DedupeCapacity
    BY Constants DEF ReceiverEnds
  <2>2. active' \in Seq(Segments) /\ Len(active') <= MaxActiveSegments
    BY Constants DEF ReceiverEnds
  <2>3. stored' \subseteq Segments /\ receiverSessions' \in Nat
    BY <1>0 DEF ReceiverEnds, ReceiverTyped
  <2>4. committedCount' \in 0 .. SegmentCount /\ committed' \subseteq Segments
    BY Constants DEF ReceiverEnds
  <2>5. held' \in [Segments -> SUBSET Symbols] /\ lost' \in [Segments -> SUBSET Blocks]
    BY DEF ReceiverEnds
  <2> QED BY <2>1, <2>2, <2>3, <2>4, <2>5 DEF ReceiverEnds, ReceiverTyped
<1>2. ReceiverInv'
  BY FS_EmptySet DEF ReceiverEnds, ReceiverInv
<1>3. {caught, batchCaught, deprived}' \subseteq BOOLEAN
  BY DEF ReceiverEnds
<1> QED BY <1>1, <1>2, <1>3, SenderStands, TokenStands, Together DEF ReceiverEnds

LEMMA ReadTokenKeeps ==
  ASSUME TransferInv, ReadToken
  PROVE  TransferInv'
<1>1. TokenInv'
  BY DEF TransferInv, TypeOK, ReadToken, TokenInv
<1>2. {caught, batchCaught, deprived}' \subseteq BOOLEAN
  BY DEF TransferInv, TypeOK, ReadToken, batchVars
<1> QED BY <1>1, <1>2, SenderStands, ReceiverStands, Together DEF ReadToken
-----------------------------------------------------------------------------
(* The theorems *)

LEMMA TransferInit == Init => TransferInv
<1> SUFFICES ASSUME Init PROVE TransferInv
  OBVIOUS
<1>1. TypeOK
  BY Constants DEF Init, TypeOK, Frames
<1>2. ReceiverInv /\ TokenInv
  BY FS_EmptySet DEF Init, ReceiverInv, TokenInv
<1>3. SenderInv /\ Fresh
  BY Constants DEF Init, SenderInv, Fresh, RecoveryFallback, Missing
<1> QED BY <1>1, <1>2, <1>3 DEF TransferInv

\* No step of sender, receiver or the person between them leaves the invariant.
LEMMA TransferInductive ==
  ASSUME TransferInv, [Next]_vars
  PROVE  TransferInv'
<1>1. CASE Sender
  BY <1>1, ShowManifestKeeps, ShowPassSymbolKeeps, BeginRecoveryKeeps,
     ShowRecoverySymbolKeeps, CloseSenderKeeps, OpenResumedKeeps DEF Sender
<1>2. CASE Receiver
  BY <1>2, SuppressKeeps, CatchManifestKeeps, CatchPendingKeeps, CatchCommittedKeeps,
     CatchSymbolKeeps, ProvisionedKeeps, ProvisionFailsKeeps, ReceiverEndsKeeps DEF Receiver
<1>3. CASE ReadToken
  BY <1>3, ReadTokenKeeps
<1>4. CASE UNCHANGED vars
  <2>1. {caught, batchCaught, deprived}' \subseteq BOOLEAN
    BY <1>4 DEF TransferInv, TypeOK, vars, batchVars
  <2> QED BY <1>4, <2>1, SenderStands, ReceiverStands, TokenStands, Together DEF vars
<1> QED BY <1>1, <1>2, <1>3, <1>4 DEF Next

LEMMA TransferHolds == Spec => []TransferInv
BY TransferInit, TransferInductive, PTL DEF Spec

\* Sender and receiver keep their types: the cursor never leaves the file, the
\* fingerprint set and the list of decoders never outgrow their capacity.
THEOREM TransferTypeCorrect == Spec => []TypeOK
<1>1. TransferInv => TypeOK
  BY DEF TransferInv
<1> QED BY <1>1, TransferHolds, PTL

\* A segment is counted once, however often its symbols come again
\* (segmented-receiver.ts, commit() and adopt()).
THEOREM CountsAreExact == Spec => []CountIsExact
<1>1. TransferInv => CountIsExact
  BY DEF TransferInv, ReceiverInv, CountIsExact
<1> QED BY <1>1, TransferHolds, PTL

\* What goes to verification is wholly on the device, whatever the store refused
\* (receive-pipeline.ts, submitV2).
THEOREM CompleteIsStored == Spec => []CompleteMeansStored
<1>1. TransferInv => CompleteMeansStored
  BY DEF TransferInv, TypeOK, ReceiverInv, CompleteMeansStored
<1> QED BY <1>1, TransferHolds, PTL

\* A transfer the receiver calls complete is complete.
THEOREM CompletionsAreReal == Spec => []CompletionIsReal
<1>1. CountIsExact /\ CompleteMeansStored => CompletionIsReal
  BY DEF CompletionIsReal
<1> QED BY <1>1, CountsAreExact, CompleteIsStored, PTL

\* The code a person types loses no segment: whatever ranges it had room for,
\* the sender it opens covers all the receiver still needs, in the pass and in
\* the recovery (resume-token.ts, streaming-sender.ts).
THEOREM ResumesSkipNothing == Spec => []ResumeSkipsNothing
<1>1. ASSUME TransferInv
      PROVE  ResumeSkipsNothing
  <2> SUFFICES ASSUME openedWith \subseteq committed
               PROVE  Missing(committed) \subseteq
                        WillCover \cap resumeFromSegment .. (SegmentCount - 1)
    BY DEF ResumeSkipsNothing
  <2>1. Missing(committed) \subseteq Missing(openedWith)
    BY DEF Missing
  <2>2. WillCover = RecoveryFallback
    BY <1>1 DEF TransferInv, SenderInv, WillCover
  <2> QED BY <1>1, <2>1, <2>2 DEF TransferInv, SenderInv
<1>2. TransferInv => ResumeSkipsNothing
  BY <1>1
<1> QED BY <1>2, TransferHolds, PTL

\* A repair symbol of the recovery was never shown before by this sender, in the
\* pass or in an earlier batch, so the receiver cannot have seen and rejected it
\* (streaming-sender.ts, recoveryNextSymbolId).
THEOREM RecoveryStaysFresh == Spec => RecoveryIsFresh
<1> DEFINE IsFresh == phase = "recovery" /\ frame' # frame /\ frame'.symbol \in RepairIds
                        => frame'.symbol \notin displayed[frame'.segment]
<1>1. ASSUME TransferInv, [Next]_vars, phase = "recovery", frame' # frame,
             frame'.symbol \in RepairIds
      PROVE  frame'.symbol \notin displayed[frame'.segment]
  <2>1. 0 \notin RepairIds /\ \A id \in RepairIds : id \in Nat /\ id \notin Blocks
    BY Constants
  <2>2. CASE ShowRecoverySymbol
    <3>1. PICK target \in Segments, id \in Symbols :
            /\ frame' = Data(target, id)
            /\ id \in Blocks \/ id = recoveryNextSymbolId[target]
      <4> DEFINE begins  == recoveryBatchRemaining = 0
                 target  == IF begins THEN NextTarget ELSE recoveryTarget
                 emitted == IF begins THEN 0 ELSE SymbolsPerSegment - recoveryBatchRemaining
                 id      == BatchSymbol(target, emitted)
      <4>1. id \in Symbols /\ frame' = Data(target, id)
        BY <2>2 DEF ShowRecoverySymbol, NextOnDisplay
      <4>2. target \in Segments /\ emitted \in Nat
        <5>1. recoveryTarget \in Segments /\ recoveryBatchRemaining \in 0 .. SymbolsPerSegment
          BY <1>1 DEF TransferInv, TypeOK
        <5>2. NextTarget \in Segments
          BY <1>1, NextTargetIsOne
        <5> QED BY <5>1, <5>2, Constants
      <4>3. id \in Blocks \/ id = recoveryNextSymbolId[target]
        BY <4>2, Constants DEF BatchSymbol
      <4> QED BY <4>1, <4>2, <4>3
    <3>2. frame'.symbol = id /\ frame'.segment = target
      BY <3>1 DEF Data
    <3>3. id = recoveryNextSymbolId[target] /\ id \in Nat
      BY <1>1, <2>1, <3>1, <3>2
    <3>4. \A r \in displayed[target] : r < id
      BY <1>1, <3>1, <3>3 DEF TransferInv, Fresh
    <3> QED BY <3>2, <3>3, <3>4
  <2>3. CASE ShowManifest \/ CloseSender
    BY <1>1, <2>1, <2>3 DEF ShowManifest, CloseSender, NextOnDisplay, Manifest, Blank
  <2>4. CASE ~(ShowRecoverySymbol \/ ShowManifest \/ CloseSender)
    <3>1. frame' = frame
      BY <1>1, <2>4
         DEF Next, Sender, Receiver, vars, senderVars, ShowPassSymbol, BeginRecovery,
             OpenResumed, Suppress, CatchManifest, CatchPending, CatchCommitted,
             CatchSymbol, Provisioned, ProvisionFails, ReceiverEnds, ReadToken
    <3> QED BY <1>1, <3>1
  <2> QED BY <2>2, <2>3, <2>4
<1>2. TransferInv /\ [Next]_vars => [IsFresh]_vars
  BY <1>1
<1>3. Spec => [][IsFresh]_vars
  BY <1>2, TransferHolds, PTL DEF Spec
<1> QED BY <1>3, PTL DEF RecoveryIsFresh
-----------------------------------------------------------------------------
(* What a batch of the recovery has brought across *)

\* Data frames of the batch shown so far.
Emitted == SymbolsPerSegment - recoveryBatchRemaining

\* What can be on the display in a batch: its latest frame, or a manifest.
BatchFrame(f) ==
  \/ f = Manifest
  \/ \E id \in Symbols :
       /\ f = Data(recoveryTarget, id)
       /\ IF Emitted <= K THEN id = Emitted - 1 ELSE id \notin Blocks

\* Source block b of segment s is written out, or its decoder has it.
Accounted(s, b) == s \in committed \/ b \in Solvable(held[s])

NoneComplete == \A s \in Segments : ~Complete(held[s])

\* A source frame is remembered because its block was taken.
RememberedInv ==
  \A s \in Segments, b \in Blocks :
    Data(s, b) \in Range(dedupe) => Accounted(s, b) \/ b \in lost[s]

\* While every frame of the batch is caught, what it has shown is accounted for.
BatchInv ==
  batchCaught =>
    /\ phase = "recovery"
    /\ BatchFrame(frame)
    /\ ~deprived => \A b \in Blocks :
         b < Emitted /\ (frame = Data(recoveryTarget, b) => caught)
           => Accounted(recoveryTarget, b)

BatchPart == NoneComplete /\ RememberedInv /\ BatchInv

LEMMA PeelsMore ==
  ASSUME NEW T, NEW U, T \subseteq U
  PROVE  Solvable(T) \subseteq Solvable(U)
BY DEF Solvable, Peeled

LEMMA PeelsItsOwn ==
  ASSUME NEW T, NEW b \in T \cap Blocks
  PROVE  b \in Solvable(T)
BY DEF Solvable, Peeled

LEMMA NothingPeelsNothing == ~Complete({})
<1>1. Peeled({}, {})
  BY DEF Peeled
<1>2. Solvable({}) = {}
  BY <1>1 DEF Solvable
<1>3. Blocks # {}
  BY Constants
<1> QED BY <1>2, <1>3 DEF Complete

\* The decoder's reference is the one the statements here are in.
LEMMA DecoderReference ==
  ASSUME NEW T
  PROVE  /\ Decoder!Solvable(T) = Solvable(T)
         /\ Decoder!Complete(T) <=> Complete(T)
         /\ Decoder!Blocks = Blocks
<1>1. Decoder!Blocks = Blocks
  BY DEF Decoder!Blocks, Blocks
<1>2. \A known : Decoder!Peeled(T, known) <=> Peeled(T, known)
  BY <1>1 DEF Decoder!Peeled, Peeled
<1>3. Decoder!Solvable(T) = Solvable(T)
  BY <1>1, <1>2 DEF Decoder!Solvable, Solvable
<1> QED BY <1>1, <1>3 DEF Decoder!Complete, Complete

\* The answer to a source symbol leaves its block with the decoder.
LEMMA SourceIsTaken ==
  ASSUME NEW have, NEW b \in Blocks, NEW answer \in Decoder!Answers(have, b)
  PROVE  b \in Solvable(Decoder!HeldAfter(have, b, answer))
<1>1. CASE Complete(have)
  <2>1. answer = "duplicate"
    BY <1>1, DecoderReference DEF Decoder!Answers
  <2> QED BY <1>1, <2>1 DEF Decoder!HeldAfter, Decoder!Consumed, Complete
<1>2. CASE ~Complete(have) /\ b \in Solvable(have)
  <2>1. answer = "duplicate"
    BY <1>2, DecoderReference DEF Decoder!Answers
  <2> QED BY <1>2, <2>1 DEF Decoder!HeldAfter, Decoder!Consumed
<1>3. CASE ~Complete(have) /\ b \notin Solvable(have)
  <2>1. answer = "source-placed"
    BY <1>3, DecoderReference DEF Decoder!Answers
  <2> QED BY <2>1, PeelsItsOwn DEF Decoder!HeldAfter, Decoder!Consumed
<1> QED BY <1>1, <1>2, <1>3

LEMMA RangeOfSequence ==
  ASSUME NEW S, NEW seq \in Seq(S)
  PROVE  Range(seq) = {seq[i] : i \in 1 .. Len(seq)}
BY DEF Range

LEMMA TailIsWithin ==
  ASSUME NEW S, NEW seq \in Seq(S), seq # <<>>
  PROVE  Range(Tail(seq)) \subseteq Range(seq)
<1>0. Tail(seq) \in Seq(S)
  BY HeadTailProperties
<1>1. /\ Range(seq) = {seq[i] : i \in 1 .. Len(seq)}
      /\ Range(Tail(seq)) = {Tail(seq)[i] : i \in 1 .. Len(Tail(seq))}
  BY <1>0, RangeOfSequence
<1>2. /\ Len(Tail(seq)) = Len(seq) - 1
      /\ \A i \in 1 .. Len(Tail(seq)) : Tail(seq)[i] = seq[i + 1]
  BY HeadTailProperties
<1>3. Len(seq) \in Nat
  BY LenProperties
<1>4. \A i \in 1 .. Len(Tail(seq)) : i + 1 \in 1 .. Len(seq)
  BY <1>2, <1>3
<1> QED BY <1>1, <1>2, <1>4

LEMMA RemembersAtMost ==
  ASSUME ReceiverTyped, NEW f \in Frames
  PROVE  Range(Remembering(f)) \subseteq Range(dedupe) \cup {f}
<1>1. ASSUME NEW seq \in Seq(Frames)
      PROVE  Range(Append(seq, f)) = Range(seq) \cup {f}
  <2>1. /\ Range(seq) = {seq[i] : i \in 1 .. Len(seq)}
        /\ Range(Append(seq, f)) = {Append(seq, f)[i] : i \in 1 .. Len(Append(seq, f))}
    <3>1. Append(seq, f) \in Seq(Frames)
      BY AppendProperties
    <3> QED BY <3>1, RangeOfSequence
  <2> QED BY <2>1, AppendProperties, LenProperties
<1>2. dedupe \in Seq(Frames) /\ Len(dedupe) <= DedupeCapacity
  BY DEF ReceiverTyped
<1>3. CASE Len(dedupe) = DedupeCapacity
  <2>1. dedupe # <<>>
    BY <1>3, Constants
  <2>2. Tail(dedupe) \in Seq(Frames) /\ Range(Tail(dedupe)) \subseteq Range(dedupe)
    BY <1>2, <2>1, TailIsWithin
  <2> QED BY <1>1, <1>3, <2>2 DEF Remembering
<1>4. CASE Len(dedupe) # DedupeCapacity
  BY <1>1, <1>2, <1>4 DEF Remembering
<1> QED BY <1>3, <1>4

LEMMA SameBatch ==
  ASSUME BatchPart, UNCHANGED <<senderVars, receiverVars, batchVars>>
  PROVE  BatchPart'
BY DEF BatchPart, NoneComplete, RememberedInv, BatchInv, BatchFrame, Emitted, Accounted,
       senderVars, receiverVars, batchVars

\* What the receiver knows does not change with what is shown.
LEMMA ReceiverUnmoved ==
  ASSUME BatchPart, UNCHANGED receiverVars
  PROVE  NoneComplete' /\ RememberedInv' /\ \A s, b : Accounted(s, b)' <=> Accounted(s, b)
BY DEF BatchPart, NoneComplete, RememberedInv, Accounted, receiverVars

\* No batch is running, or none that was caught.
LEMMA NoBatch ==
  ASSUME BatchPart, UNCHANGED receiverVars, ~batchCaught'
  PROVE  BatchPart'
BY ReceiverUnmoved DEF BatchPart, BatchInv

LEMMA DataDiffers ==
  ASSUME NEW s, NEW t, NEW a, NEW b
  PROVE  /\ Data(s, a) = Data(t, b) <=> s = t /\ a = b
         /\ Data(s, a) # Manifest /\ Data(s, a).kind = "data" /\ Manifest.kind # "data"
         /\ Data(s, a).segment = s /\ Data(s, a).symbol = a
         /\ Manifest # Blank /\ Data(s, a) # Blank
BY DEF Data, Manifest, Blank

LEMMA ShowManifestBatch ==
  ASSUME TransferInv, BatchPart, ShowManifest
  PROVE  BatchPart'
<1>1. UNCHANGED <<receiverVars, phase, recoveryTarget, recoveryBatchRemaining, deprived>>
      /\ frame' = Manifest /\ batchCaught' = StillWhole
  BY DEF ShowManifest, NextOnDisplay
<1>2. BatchInv'
  <2> SUFFICES ASSUME StillWhole PROVE BatchInv'
    BY <1>1 DEF BatchInv
  <2>1. batchCaught /\ (frame.kind = "data" => caught) /\ BatchInv
    BY DEF StillWhole, BatchPart
  <2>2. \A b : frame = Data(recoveryTarget, b) => caught
    BY <2>1, DataDiffers
  <2> QED BY <1>1, <2>1, <2>2, DataDiffers, ReceiverUnmoved
          DEF BatchInv, BatchFrame, Emitted, Accounted
<1> QED BY <1>1, <1>2, ReceiverUnmoved DEF BatchPart

LEMMA ShowPassSymbolBatch ==
  ASSUME TransferInv, BatchPart, ShowPassSymbol
  PROVE  BatchPart'
BY NoBatch DEF ShowPassSymbol, BatchPart, BatchInv

LEMMA ShowRecoverySymbolBatch ==
  ASSUME TransferInv, BatchPart, ShowRecoverySymbol
  PROVE  BatchPart'
<1>0. SenderTyped /\ phase = "recovery"
  BY TypeOfHalves DEF TransferInv, ShowRecoverySymbol
<1> DEFINE begins  == recoveryBatchRemaining = 0
           target  == IF begins THEN NextTarget ELSE recoveryTarget
           emitted == IF begins THEN 0 ELSE SymbolsPerSegment - recoveryBatchRemaining
           id      == BatchSymbol(target, emitted)
<1>1. /\ id \in Symbols /\ frame' = Data(target, id) /\ caught' = FALSE
      /\ recoveryTarget' = target
      /\ recoveryBatchRemaining' = SymbolsPerSegment - emitted - 1
      /\ batchCaught' = (begins \/ StillWhole)
      /\ deprived' = (~begins /\ deprived)
      /\ UNCHANGED <<receiverVars, phase>>
  BY DEF ShowRecoverySymbol, NextOnDisplay
<1>2. target \in Segments /\ emitted \in 0 .. (SymbolsPerSegment - 1)
  BY <1>0, NextTargetIsOne, Constants DEF SenderTyped
<1>3. /\ emitted < K => id = emitted
      /\ emitted >= K => id = recoveryNextSymbolId[target]
  BY <1>2, Constants DEF BatchSymbol
<1>4. /\ recoveryNextSymbolId[target] \in Nat
      /\ recoveryNextSymbolId[target] >= FirstRecoveryId
  BY <1>0, <1>2 DEF TransferInv, Fresh, SenderTyped
<1>5. emitted >= K => id \notin Blocks
  BY <1>3, <1>4, Constants
<1>6. ~begins => target = recoveryTarget /\ emitted = Emitted
  BY DEF Emitted
<1> HIDE DEF begins, target, emitted, id
<1>7. Emitted' = emitted + 1
  BY <1>1, <1>2, Constants DEF Emitted
<1>8. BatchFrame(frame)'
  <2>1. IF Emitted' <= K THEN id = Emitted' - 1 ELSE id \notin Blocks
    BY <1>2, <1>3, <1>5, <1>7, Constants
  <2> QED BY <1>1, <2>1 DEF BatchFrame
<1>9. BatchInv'
  <2> SUFFICES ASSUME batchCaught', ~deprived', NEW b \in Blocks, b < Emitted',
                      frame' # Data(target, b)
               PROVE  Accounted(target, b)
    BY <1>0, <1>1, <1>8, ReceiverUnmoved DEF BatchInv, Accounted
  <2>1. b # id
    BY <1>1
  <2>2. b < emitted
    BY <1>2, <1>3, <1>7, <2>1, Constants
  <2>3. ~begins
    BY <1>2, <2>2, Constants DEF begins, emitted
  <2>4. StillWhole /\ ~deprived /\ BatchInv
    BY <1>1, <2>3 DEF BatchPart
  <2>5. batchCaught /\ (frame = Data(recoveryTarget, b) => caught)
    BY <2>4, DataDiffers DEF StillWhole
  <2> QED BY <1>6, <2>2, <2>3, <2>4, <2>5 DEF BatchInv
<1> QED BY <1>1, <1>9, ReceiverUnmoved DEF BatchPart

LEMMA SenderBatch ==
  ASSUME TransferInv, BatchPart, Sender
  PROVE  BatchPart'
<1>1. CASE BeginRecovery \/ CloseSender
  BY <1>1, NoBatch DEF BeginRecovery, CloseSender
<1>2. CASE OpenResumed
  BY <1>2, NoBatch DEF OpenResumed, BatchPart, BatchInv, batchVars
<1> QED BY <1>1, <1>2, ShowManifestBatch, ShowPassSymbolBatch, ShowRecoverySymbolBatch DEF Sender

LEMMA SuppressBatch ==
  ASSUME TransferInv, BatchPart, Suppress
  PROVE  BatchPart'
<1>1. /\ UNCHANGED <<senderVars, receiverVars, batchCaught>> /\ frame \in Range(dedupe)
      /\ deprived' = (deprived \/ (phase = "recovery" /\ frame.kind = "data" /\ frame.symbol \in lost[frame.segment]))
  BY DEF Suppress, receiverVars
<1>2. BatchInv'
  <2> SUFFICES ASSUME batchCaught
               PROVE  BatchInv'
    BY <1>1 DEF BatchInv
  <2>1. phase = "recovery" /\ BatchFrame(frame) /\ BatchInv /\ recoveryTarget \in Segments
    BY DEF BatchPart, BatchInv, TransferInv, TypeOK
  <2>2. ASSUME ~deprived', NEW b \in Blocks, b < Emitted
        PROVE  Accounted(recoveryTarget, b)
    <3>1. CASE frame = Data(recoveryTarget, b)
      <4>1. b \notin lost[recoveryTarget]
        BY <1>1, <2>1, <2>2, <3>1 DEF Data
      <4> QED BY <1>1, <2>1, <3>1, <4>1 DEF BatchPart, RememberedInv
    <3>2. CASE frame # Data(recoveryTarget, b)
      BY <1>1, <2>1, <2>2, <3>2 DEF BatchInv
    <3> QED BY <3>1, <3>2
  <2>3. Emitted' = Emitted /\ BatchFrame(frame)' /\ phase' = "recovery"
    BY <1>1, <2>1 DEF BatchFrame, Emitted, senderVars
  <2>4. \A b : Accounted(recoveryTarget, b)' <=> Accounted(recoveryTarget, b)
    BY <1>1 DEF Accounted, senderVars, receiverVars
  <2>5. recoveryTarget' = recoveryTarget /\ frame' = frame
    BY <1>1 DEF senderVars
  <2>6. ASSUME ~deprived' PROVE \A b \in Blocks : b < Emitted' => Accounted(recoveryTarget, b)'
    BY <2>2, <2>3, <2>4, <2>6
  <2> QED BY <2>3, <2>6 DEF BatchInv
<1> QED BY <1>1, <1>2, ReceiverUnmoved DEF BatchPart

\* The sender stands still, and what the receiver had accounted for it keeps.
LEMMA AccountKept ==
  ASSUME BatchPart, UNCHANGED <<senderVars, batchCaught, deprived>>,
         NEW t, t = recoveryTarget,
         batchCaught => \A b \in Blocks :
           /\ Accounted(t, b) => Accounted(t, b)'
           /\ frame = Data(t, b) /\ caught' => caught \/ Accounted(t, b)'
  PROVE  BatchInv'
<1>1. UNCHANGED <<phase, frame, recoveryTarget, recoveryBatchRemaining>> /\ Emitted' = Emitted
  BY DEF senderVars, Emitted
<1>2. BatchFrame(frame) => BatchFrame(frame)'
  BY <1>1 DEF BatchFrame
<1>3. \A b : Accounted(recoveryTarget, b)' <=> Accounted(t, b)'
  BY <1>1 DEF Accounted
<1> QED BY <1>1, <1>2, <1>3 DEF BatchPart, BatchInv

LEMMA CatchManifestBatch ==
  ASSUME TransferInv, BatchPart, CatchManifest
  PROVE  BatchPart'
<1>1. /\ UNCHANGED <<senderVars, batchVars, held, committed, lost>>
      /\ frame = Manifest /\ dedupe' = Remembering(frame)
  BY DEF CatchManifest, Observe
<1>2. \A s, b : Accounted(s, b)' <=> Accounted(s, b)
  BY <1>1 DEF Accounted
<1>3. Range(dedupe') \subseteq Range(dedupe) \cup {Manifest}
  BY <1>1, RemembersAtMost, TypeOfHalves DEF TransferInv, Frames
<1>4. NoneComplete' /\ RememberedInv'
  BY <1>1, <1>2, <1>3, DataDiffers DEF BatchPart, NoneComplete, RememberedInv
<1>5. BatchInv'
  <2>1. PICK t : t = recoveryTarget
    OBVIOUS
  <2> QED BY <1>1, <1>2, <2>1, AccountKept DEF batchVars
<1> QED BY <1>4, <1>5 DEF BatchPart

LEMMA CatchPendingBatch ==
  ASSUME TransferInv, BatchPart, CatchPending
  PROVE  BatchPart'
BY SameBatch DEF CatchPending, AfterPending, receiverVars

LEMMA StorageBatch ==
  ASSUME TransferInv, BatchPart, Provisioned \/ ProvisionFails
  PROVE  BatchPart'
<1>1. /\ UNCHANGED <<senderVars, batchVars, held, dedupe, lost>>
      /\ committed \subseteq committed'
  BY DEF Provisioned, ProvisionFails, TransferInv, ReceiverInv
<1>2. \A s, b : Accounted(s, b) => Accounted(s, b)'
  BY <1>1 DEF Accounted
<1>3. NoneComplete' /\ RememberedInv'
  BY <1>1, <1>2 DEF BatchPart, NoneComplete, RememberedInv
<1>4. BatchInv'
  <2>1. PICK t : t = recoveryTarget
    OBVIOUS
  <2> QED BY <1>1, <1>2, <2>1, AccountKept DEF batchVars
<1> QED BY <1>3, <1>4 DEF BatchPart

LEMMA CatchCommittedBatch ==
  ASSUME TransferInv, BatchPart, CatchCommitted
  PROVE  BatchPart'
<1>0. frame \in Frames /\ ReceiverTyped
  BY TypeOfHalves DEF TransferInv, TypeOK
<1>1. /\ UNCHANGED <<senderVars, batchCaught, deprived, held, committed, lost>>
      /\ frame.segment \in committed /\ dedupe' = Remembering(frame)
  BY DEF CatchCommitted, Observe, IsSegmentCommitted
<1>2. \A s, b : Accounted(s, b)' <=> Accounted(s, b)
  BY <1>1 DEF Accounted
<1>3. Range(dedupe') \subseteq Range(dedupe) \cup {frame}
  BY <1>0, <1>1, RemembersAtMost
<1>4. \A s, b : frame = Data(s, b) => Accounted(s, b)'
  BY <1>1, DataDiffers DEF Accounted
<1>5. NoneComplete' /\ RememberedInv'
  BY <1>1, <1>2, <1>3, <1>4 DEF BatchPart, NoneComplete, RememberedInv
<1>6. BatchInv'
  <2>1. PICK t : t = recoveryTarget
    OBVIOUS
  <2> QED BY <1>1, <1>2, <1>4, <2>1, AccountKept
<1> QED BY <1>5, <1>6 DEF BatchPart

LEMMA CatchSymbolBatch ==
  ASSUME TransferInv, BatchPart, CatchSymbol
  PROVE  BatchPart'
<1>0. ReceiverTyped /\ frame \in Frames
  BY TypeOfHalves DEF TransferInv, TypeOK
<1>1. PICK s \in Segments, id \in Symbols : frame = Data(s, id)
  BY <1>0, FrameFacts DEF CatchSymbol
<1>2. /\ frame.segment = s /\ frame.symbol = id
      /\ s \notin committed /\ frame \notin Range(dedupe)
      /\ UNCHANGED <<senderVars, batchCaught, deprived>>
      /\ dedupe' = Remembering(frame)
  BY <1>1, DataDiffers DEF CatchSymbol, Seen, IsSegmentCommitted, Observe
<1>3. PICK answer \in Decoder!Answers(HeldAround(s)[s], id) :
        LET taken == Decoder!HeldAfter(HeldAround(s)[s], id, answer)
        IN  /\ lost' = [t \in Segments |-> {b \in Blocks :
                          /\ b \in lost[t] \/ (t \in Evicted(s) /\ b \in Solvable(held[t]))
                          /\ Data(t, b) \in Range(Remembering(frame)) \ {frame}}]
            /\ IF Complete(taken) THEN Commit(s)
               ELSE /\ active' = Append(Without(Room(s), s), s)
                    /\ held' = [HeldAround(s) EXCEPT ![s] = taken]
                    /\ UNCHANGED <<fault, complete, committed, committedCount, stored>>
  BY <1>2 DEF CatchSymbol
<1> DEFINE taken == Decoder!HeldAfter(HeldAround(s)[s], id, answer)
<1>4. s \notin Evicted(s)
  BY DEF Evicted, Room
<1>5. /\ HeldAround(s)[s] = held[s]
      /\ \A t \in Segments : HeldAround(s)[t] = IF t \in Evicted(s) THEN {} ELSE held[t]
  BY <1>4 DEF HeldAround
<1>6. /\ committed' = IF Complete(taken) THEN committed \cup {s} ELSE committed
      /\ held' = [HeldAround(s) EXCEPT ![s] = IF Complete(taken) THEN {} ELSE taken]
  BY <1>3 DEF Commit
<1>7. /\ held'[s] = IF Complete(taken) THEN {} ELSE taken
      /\ \A t \in Segments \ {s} : held'[t] = IF t \in Evicted(s) THEN {} ELSE held[t]
  BY <1>5, <1>6 DEF HeldAround
<1>8. Solvable(held[s]) \subseteq Solvable(taken)
  BY <1>5, PeelsMore DEF Decoder!HeldAfter
<1>9. id \in Blocks => id \in Solvable(taken)
  BY <1>3, SourceIsTaken
<1> HIDE DEF taken
<1>10. NoneComplete'
  <2> SUFFICES ASSUME NEW t \in Segments PROVE ~Complete(held'[t])
    BY DEF NoneComplete, Complete
  <2> QED BY <1>7, NothingPeelsNothing DEF BatchPart, NoneComplete
<1>11. \A b \in Blocks : b \in Solvable(taken) => Accounted(s, b)'
  BY <1>6, <1>7 DEF Accounted
<1>12. \A b \in Blocks : Accounted(s, b) => Accounted(s, b)'
  BY <1>2, <1>8, <1>11 DEF Accounted
<1>13. \A b \in Blocks : frame = Data(s, b) => Accounted(s, b)'
  <2> SUFFICES ASSUME NEW b \in Blocks, frame = Data(s, b) PROVE Accounted(s, b)'
    OBVIOUS
  <2>1. b = id
    BY <1>1 DEF Data
  <2> QED BY <1>9, <1>11, <2>1
<1>14. RememberedInv'
  <2> SUFFICES ASSUME NEW t \in Segments, NEW b \in Blocks, Data(t, b) \in Range(dedupe'),
                      ~Accounted(t, b)'
               PROVE  b \in lost'[t]
    BY DEF RememberedInv
  <2>1. Data(t, b) # frame
    BY <1>1, <1>13, DataDiffers
  <2>2. Data(t, b) \in Range(dedupe)
    BY <1>0, <1>2, <2>1, RemembersAtMost
  <2>3. Accounted(t, b) \/ b \in lost[t]
    BY <2>2 DEF BatchPart, RememberedInv
  <2>4. b \in lost[t] \/ (t \in Evicted(s) /\ b \in Solvable(held[t]))
    <3>1. CASE t = s
      BY <1>12, <2>3, <3>1
    <3>2. CASE t # s
      BY <1>6, <1>7, <2>3, <3>2 DEF Accounted
    <3> QED BY <3>1, <3>2
  <2> QED BY <1>2, <1>3, <2>1, <2>4
<1>15. BatchInv'
  <2>1. PICK t : t = recoveryTarget
    OBVIOUS
  <2>2. batchCaught => s = t
    BY <1>1, <2>1, DataDiffers DEF BatchPart, BatchInv, BatchFrame
  <2> QED BY <1>2, <1>12, <1>13, <2>1, <2>2, AccountKept
<1> QED BY <1>10, <1>14, <1>15 DEF BatchPart

LEMMA ReceiverEndsBatch ==
  ASSUME TransferInv, BatchPart, ReceiverEnds
  PROVE  BatchPart'
<1>1. NoneComplete'
  BY NothingPeelsNothing DEF ReceiverEnds, NoneComplete
<1>2. RememberedInv' /\ BatchInv'
  BY DEF ReceiverEnds, RememberedInv, BatchInv, Range
<1> QED BY <1>1, <1>2 DEF BatchPart

LEMMA BatchPartInductive ==
  ASSUME TransferInv, BatchPart, [Next]_vars
  PROVE  BatchPart'
<1>1. CASE Receiver
  BY <1>1, SuppressBatch, CatchManifestBatch, CatchPendingBatch, CatchCommittedBatch,
     CatchSymbolBatch, StorageBatch, ReceiverEndsBatch DEF Receiver
<1>2. CASE ReadToken \/ UNCHANGED vars
  BY <1>2, SameBatch DEF ReadToken, vars
<1> QED BY <1>1, <1>2, SenderBatch DEF Next

LEMMA BatchPartInit == Init => BatchPart
BY NothingPeelsNothing
   DEF Init, BatchPart, NoneComplete, RememberedInv, BatchInv, Range

LEMMA RecoveryHolds == Spec => [](TransferInv /\ BatchPart)
<1>1. Init => TransferInv /\ BatchPart
  BY TransferInit, BatchPartInit
<1>2. TransferInv /\ BatchPart /\ [Next]_vars => (TransferInv /\ BatchPart)'
  BY TransferInductive, BatchPartInductive
<1> QED BY <1>1, <1>2, PTL DEF Spec

\* A recovery batch of which every frame was caught leaves its segment written
\* out, unless a source frame was suppressed whose block had gone with an evicted
\* decoder: what the frames before it, in the pass or in other batches, left in the
\* decoder or in the fingerprint set cannot spoil it (BatchCommits).
THEOREM WholeBatchesCommit == Spec => []BatchCommits
<1>1. ASSUME TransferInv, BatchPart
      PROVE  BatchCommits
  <2> SUFFICES ASSUME phase = "recovery", recoveryBatchRemaining = 0, StillWhole, ~deprived,
                      recoveryTarget \notin committed
               PROVE  FALSE
    BY DEF BatchCommits, BatchWhole
  <2>1. batchCaught /\ \A b : frame = Data(recoveryTarget, b) => caught
    BY DataDiffers DEF StillWhole
  <2>2. \A b \in Blocks : b < Emitted
    BY Constants DEF Emitted
  <2>3. \A b \in Blocks : b \in Solvable(held[recoveryTarget])
    BY <1>1, <2>1, <2>2 DEF BatchPart, BatchInv, Accounted
  <2>4. Complete(held[recoveryTarget])
    BY <2>3 DEF Complete, Solvable
  <2> QED BY <1>1, <2>4 DEF BatchPart, NoneComplete, TransferInv, TypeOK
<1>2. TransferInv /\ BatchPart => BatchCommits
  BY <1>1
<1> QED BY <1>2, RecoveryHolds, PTL
=============================================================================
