------------------------- MODULE SegmentDecoderProofs -------------------------
(***************************************************************************)
(* The decoder of SegmentDecoder.tla never holds a wrong block, for every   *)
(* segment size, every set of repair symbols and every value of the caps.   *)
(*                                                                         *)
(* StoreSound is not inductive alone: a ripple writes the payload of an      *)
(* equation, so the equations must be sound; eliminating a block is sound   *)
(* only for an equation that names it, so the index must be exact; and the   *)
(* block must be solved, so everything on the ripple's stack must be.        *)
(* DecoderInv is the conjunction.                                           *)
(*                                                                         *)
(* PeelInv adds what the decoder has made of the symbols it took: no more   *)
(* than peeling would (solved is within Solvable(taken)), and, between      *)
(* calls, no less, since the known blocks are then peeled to the end.  From  *)
(* it follow CapsCostNothingElse and, step by step, the refinement of        *)
(* SegmentRecovery.tla.                                                     *)
(***************************************************************************)
EXTENDS SegmentDecoder, TLAPS, FiniteSetTheorems, SequenceTheorems

OnQueue(b) == \E i \in 1 .. Len(queue) : queue[i] = b

\* The ripple only works on solved blocks and on equations still held, which it
\* has taken off the index.
RippleSound ==
  /\ \A i \in 1 .. Len(queue) : queue[i] \in solved
  /\ referring # {} => block \in solved
  /\ referring \subseteq pending
  /\ referring \cap dependents[block] = {}

\* An equation leaves as soon as it names fewer than two blocks, and one that
\* names a solved block is about to be visited.
NoneOverdue ==
  \A e \in pending :
    /\ ~AtMostOne(equation[e].neighbors)
    /\ \A b \in equation[e].neighbors \cap solved :
          OnQueue(b) \/ (b = block /\ e \in referring)

DecoderInv ==
  /\ TypeOK
  /\ StoreSound
  /\ EquationSound
  /\ IndexExact
  /\ RippleSound
  /\ NoneOverdue
-----------------------------------------------------------------------------
\* A set of blocks is finite, so the arithmetic on its size is arithmetic.
LEMMA BlockSetsFinite ==
  ASSUME NEW S \in SUBSET Blocks
  PROVE  IsFiniteSet(S) /\ Cardinality(S) \in Nat
<1>1. IsFiniteSet(Blocks)
  BY FS_Interval, PeelingAssumption DEF Blocks
<1>2. IsFiniteSet(S)
  BY <1>1, FS_Subset
<1> QED BY <1>2, FS_CardinalityType

\* XORing sound slots gives the set of blocks they belong to (xorBlockInto over
\* the known neighbours of a repair symbol).
LEMMA XorOfSoundSlots ==
  ASSUME StoreSound, NEW bs \in SUBSET solved, solved \subseteq Blocks
  PROVE  XorStored(bs) = bs
<1>1. ASSUME NEW c \in Blocks
      PROVE  c \in XorStored(bs) <=> c \in bs
  <2> DEFINE slots == {b \in bs : c \in store[b]}
  <2>1. slots = IF c \in bs THEN {c} ELSE {}
    BY DEF StoreSound
  <2>2. CASE c \in bs
    <3>1. Cardinality(slots) = 1
      BY <2>1, <2>2, FS_Singleton
    <3> QED BY <3>1, <2>2 DEF XorStored
  <2>3. CASE c \notin bs
    <3>1. Cardinality(slots) = 0
      BY <2>1, <2>3, FS_EmptySet
    <3> QED BY <3>1, <2>3 DEF XorStored
  <2> QED BY <2>2, <2>3
<1> QED BY <1>1 DEF XorStored

\* What is left of a repair symbol after elimination is its unknown part.
LEMMA ResidualSound ==
  ASSUME TypeOK, StoreSound, NEW r \in RepairIds
  PROVE  /\ Residual(r) = Unknown(r)
         /\ Residual(r) \in SUBSET Blocks
<1>1. Neighbors[r] \in SUBSET Blocks
  BY PeelingAssumption
<1>2. r \notin Blocks
  BY PeelingAssumption
<1>3. XorStored(Neighbors[r] \cap solved) = Neighbors[r] \cap solved
  BY XorOfSoundSlots DEF TypeOK
<1> QED BY <1>1, <1>2, <1>3 DEF Residual, Unknown, Xor, SymbolPayload

LEMMA InitEstablishes == Init => DecoderInv
BY PeelingAssumption
   DEF Init, DecoderInv, TypeOK, StoreSound, EquationSound, IndexExact,
       RippleSound, NoneOverdue, OnQueue, EmptyEquation, Statuses, Symbols, Blocks
-----------------------------------------------------------------------------
\* A step that changes nothing but the last answer keeps the invariant.
LEMMA AnswerKeeps ==
  ASSUME DecoderInv, NEW s \in Statuses, Answer(s)
  PROVE  DecoderInv'
BY DEF DecoderInv, Answer, decoderVars, rippleVars, TypeOK, StoreSound,
       EquationSound, IndexExact, RippleSound, NoneOverdue, OnQueue

LEMMA AcceptSourceKeeps ==
  ASSUME DecoderInv, NEW b \in Blocks, AcceptSource(b)
  PROVE  DecoderInv'
<1> USE DEF DecoderInv, AcceptSource, Receptive, Idle
<1>1. TypeOK'
  BY DEF TypeOK, SymbolPayload, Statuses, Symbols
<1>2. StoreSound'
  BY DEF StoreSound, TypeOK, SymbolPayload
<1>3. EquationSound' /\ IndexExact'
  BY DEF EquationSound, IndexExact
<1>4. RippleSound'
  BY DEF RippleSound
<1>5. NoneOverdue'
  BY DEF NoneOverdue, OnQueue
<1> QED BY <1>1, <1>2, <1>3, <1>4, <1>5

LEMMA AcceptRepairRedundantKeeps ==
  ASSUME DecoderInv, NEW r \in RepairIds, AcceptRepairRedundant(r)
  PROVE  DecoderInv'
BY DEF DecoderInv, AcceptRepairRedundant, NothingNew, Equational, RememberRepairId, TypeOK,
       StoreSound, EquationSound, IndexExact, RippleSound, NoneOverdue, OnQueue,
       Statuses, Symbols

LEMMA AcceptRepairSolvingKeeps ==
  ASSUME DecoderInv, NEW r \in RepairIds, NEW b \in Blocks,
         AcceptRepairSolving(r, b)
  PROVE  DecoderInv'
<1> USE DEF DecoderInv, AcceptRepairSolving, Equational, Receptive, Idle
<1>1. Residual(r) = {b}
  BY ResidualSound
<1>2. b \notin solved
  BY DEF Unknown
<1>3. TypeOK'
  BY <1>1 DEF TypeOK, RememberRepairId, Statuses, Symbols
<1>4. StoreSound'
  BY <1>1 DEF StoreSound, TypeOK
<1>5. EquationSound' /\ IndexExact'
  BY DEF EquationSound, IndexExact
<1>6. RippleSound'
  BY DEF RippleSound
<1>7. NoneOverdue'
  BY DEF NoneOverdue, OnQueue
<1> QED BY <1>3, <1>4, <1>5, <1>6, <1>7

LEMMA AcceptRepairPendingKeeps ==
  ASSUME DecoderInv, NEW r \in RepairIds, AcceptRepairPending(r)
  PROVE  DecoderInv'
<1> USE DEF DecoderInv, AcceptRepairPending, Equational, Receptive, Idle
<1>1. Residual(r) = Unknown(r) /\ Unknown(r) \in SUBSET Blocks
  BY ResidualSound
<1>2. r \notin pending
  BY DEF Known
<1>3. Cardinality(Unknown(r)) \in Nat
  BY <1>1, BlockSetsFinite
<1>4. TypeOK'
  BY <1>1, <1>3 DEF TypeOK, RememberRepairId, Statuses, Symbols
<1>5. StoreSound'
  BY DEF StoreSound
<1>6. EquationSound'
  BY <1>1, <1>2 DEF EquationSound, TypeOK
<1>7. IndexExact'
  BY <1>1, <1>2 DEF IndexExact, TypeOK
<1>8. RippleSound'
  BY DEF RippleSound
<1>9. NoneOverdue'
  BY <1>1, <1>2 DEF NoneOverdue, OnQueue, TypeOK, Unknown
<1> QED BY <1>4, <1>5, <1>6, <1>7, <1>8, <1>9
-----------------------------------------------------------------------------
\* Popping the stack leaves everything below the top where it was.
LEMMA PopKeepsTheRest ==
  ASSUME NEW S, NEW q \in Seq(S), q # <<>>
  PROVE  LET p == SubSeq(q, 1, Len(q) - 1)
         IN  Len(p) = Len(q) - 1 /\ \A i \in 1 .. (Len(q) - 1) : p[i] = q[i]
<1>1. PICK m \in Nat : Len(q) = m + 1
  <2>1. Len(q) \in Nat /\ Len(q) # 0
    OBVIOUS
  <2>2. Len(q) - 1 \in Nat /\ Len(q) = (Len(q) - 1) + 1
    BY <2>1
  <2> QED BY <2>2
<1>2. Len(q) - 1 = m
  BY <1>1
<1>3. \A i \in 1 .. m : q[i] \in S
  BY <1>1
<1>4. /\ Len(SubSeq(q, 1, m)) = IF 1 <= m THEN m - 1 + 1 ELSE 0
      /\ \A i \in 1 .. m - 1 + 1 : SubSeq(q, 1, m)[i] = q[1 + i - 1]
  BY <1>3, SubSeqProperties
<1>5. Len(SubSeq(q, 1, m)) = m
  BY <1>4
<1>6. ASSUME NEW i \in 1 .. m
      PROVE  SubSeq(q, 1, m)[i] = q[i]
  <2>1. i \in 1 .. m - 1 + 1 /\ 1 + i - 1 = i
    OBVIOUS
  <2> QED BY <2>1, <1>4
<1> QED BY <1>2, <1>5, <1>6

LEMMA RippleTakeKeeps ==
  ASSUME DecoderInv, RippleTake
  PROVE  DecoderInv'
<1> USE DEF DecoderInv, RippleTake, Popped
<1> DEFINE n == Len(queue)
           b == queue[n]
<1>1. n \in Nat \ {0} /\ b \in Blocks /\ queue' \in Seq(Blocks)
  BY DEF TypeOK
<1>2. Len(queue') = n - 1 /\ \A i \in 1 .. (n - 1) : queue'[i] = queue[i]
  BY <1>1, PopKeepsTheRest DEF TypeOK
<1>3. referring' = dependents[b]
  BY <1>1 DEF IndexExact, TypeOK
<1>4. TypeOK'
  BY <1>1 DEF TypeOK
<1>5. StoreSound' /\ EquationSound'
  BY DEF StoreSound, EquationSound
<1>6. IndexExact'
  BY <1>1, <1>3 DEF IndexExact, TypeOK
<1>7. RippleSound'
  <2>1. \A i \in 1 .. Len(queue') : queue'[i] \in solved'
    BY <1>1, <1>2 DEF RippleSound
  <2>2. block' \in solved' /\ referring' \subseteq pending'
    BY <1>1, <1>3 DEF RippleSound
  <2>3. referring' \cap dependents'[block'] = {}
    BY <1>1 DEF TypeOK
  <2> QED BY <2>1, <2>2, <2>3 DEF RippleSound
<1>8. NoneOverdue'
  <2> SUFFICES ASSUME NEW e \in pending, NEW c \in equation[e].neighbors \cap solved
               PROVE  OnQueue(c)' \/ (c = b /\ e \in referring')
    BY DEF NoneOverdue
  <2>1. PICK i \in 1 .. n : queue[i] = c
    BY DEF NoneOverdue, OnQueue
  <2>2. CASE i = n
    BY <1>1, <1>3, <2>1, <2>2 DEF IndexExact, TypeOK
  <2>3. CASE i # n
    <3>1. i \in 1 .. Len(queue') /\ queue'[i] = c
      BY <1>1, <1>2, <2>1, <2>3
    <3> QED BY <3>1 DEF OnQueue
  <2> QED BY <2>2, <2>3
<1> QED BY <1>4, <1>5, <1>6, <1>7, <1>8

\* The block being rippled is sound and named by every equation still to visit,
\* so reducing one of them leaves a sound equation.
LEMMA ReducedSound ==
  ASSUME DecoderInv, NEW e \in referring
  PROVE  /\ e \in pending /\ e \in RepairIds
         /\ block \in equation[e].neighbors /\ e \notin dependents[block]
         /\ Reduced(e).payload = Rest(e)
         /\ Rest(e) = equation[e].neighbors \ {block}
         /\ Rest(e) \in SUBSET Blocks
         /\ Cardinality(Rest(e)) \in Nat
<1> USE DEF DecoderInv
<1>1. e \in pending /\ e \in RepairIds /\ block \in solved /\ block \in Blocks
  BY DEF RippleSound, TypeOK
<1>2. block \in equation[e].neighbors /\ e \notin dependents[block]
  BY <1>1 DEF IndexExact, RippleSound
<1>3. Rest(e) = equation[e].neighbors \ {block} /\ Rest(e) \in SUBSET Blocks
  BY <1>1 DEF Rest, Reduced, TypeOK
<1>4. Reduced(e).payload = Rest(e)
  BY <1>1, <1>2, <1>3 DEF Reduced, Xor, StoreSound, EquationSound
<1> QED BY <1>1, <1>2, <1>3, <1>4, BlockSetsFinite

LEMMA VisitReducedKeeps ==
  ASSUME DecoderInv, NEW e \in referring, VisitReduced(e)
  PROVE  DecoderInv'
<1> USE DEF DecoderInv, VisitReduced, Visiting
<1>1. /\ e \in pending /\ e \in RepairIds
      /\ Reduced(e) = [neighbors |-> Rest(e), payload |-> Rest(e)]
      /\ Rest(e) = equation[e].neighbors \ {block}
      /\ Rest(e) \in SUBSET Blocks
  BY ReducedSound DEF Reduced, Rest
<1>2. equation' = [equation EXCEPT ![e] = [neighbors |-> Rest(e), payload |-> Rest(e)]]
  BY <1>1
<1>3. TypeOK'
  BY <1>1, <1>2 DEF TypeOK
<1>4. StoreSound'
  BY DEF StoreSound
<1>5. EquationSound'
  BY <1>1, <1>2 DEF EquationSound, TypeOK
<1>6. IndexExact'
  <2> SUFFICES ASSUME NEW b \in Blocks, NEW f \in RepairIds
               PROVE  (f \in pending /\ b \in equation'[f].neighbors)
                         <=> (f \in dependents[b] \/ (b = block /\ f \in referring'))
    BY DEF IndexExact
  <2>1. (f \in pending /\ b \in equation[f].neighbors)
           <=> (f \in dependents[b] \/ (b = block /\ f \in referring))
    BY DEF IndexExact
  <2>2. e \notin dependents[block]
    BY DEF RippleSound
  <2>3. CASE f = e
    BY <1>1, <1>2, <2>1, <2>2, <2>3 DEF TypeOK
  <2>4. CASE f # e
    BY <1>2, <2>1, <2>4 DEF TypeOK
  <2> QED BY <2>3, <2>4
<1>7. RippleSound'
  BY DEF RippleSound
<1>8. NoneOverdue'
  BY <1>1, <1>2 DEF NoneOverdue, OnQueue, TypeOK
<1> QED BY <1>3, <1>4, <1>5, <1>6, <1>7, <1>8

\* Dropping the equation keeps the index, the types and the other equations; what
\* the ripple owes the blocks still solved is unchanged.
LEMMA DropEquationKeeps ==
  ASSUME DecoderInv, NEW e \in referring, Visiting(e), DropEquation(e)
  PROVE  /\ pending' \subseteq RepairIds /\ refs' \in Int
         /\ equation' \in [RepairIds -> [neighbors : SUBSET Blocks, payload : SUBSET Blocks]]
         /\ dependents' \in [Blocks -> SUBSET RepairIds]
         /\ EquationSound' /\ IndexExact'
         /\ referring' \subseteq pending' /\ referring' \cap dependents'[block'] = {}
         /\ \A f \in pending' : f \in pending /\ equation'[f] = equation[f]
<1> USE DEF DecoderInv, Visiting, DropEquation, RefsReleased, IndexWithout
<1>1. /\ e \in pending /\ e \in RepairIds
      /\ e \notin dependents[block]
      /\ Rest(e) = equation[e].neighbors \ {block}
      /\ Rest(e) \in SUBSET Blocks
      /\ Cardinality(Rest(e)) \in Nat
  BY ReducedSound
<1>2. \A f \in pending' : f \in pending /\ f # e /\ equation'[f] = equation[f]
  BY DEF TypeOK
<1>3. pending' \subseteq RepairIds /\ refs' \in Int
  BY <1>1 DEF TypeOK
<1>4. equation' \in [RepairIds -> [neighbors : SUBSET Blocks, payload : SUBSET Blocks]]
  BY DEF TypeOK, EmptyEquation
<1>5. dependents' \in [Blocks -> SUBSET RepairIds]
  BY DEF TypeOK
<1>6. EquationSound'
  BY <1>2 DEF EquationSound
<1>7. IndexExact'
  <2> SUFFICES ASSUME NEW b \in Blocks, NEW f \in RepairIds
               PROVE  (f \in pending' /\ b \in equation'[f].neighbors)
                         <=> (f \in dependents'[b] \/ (b = block /\ f \in referring'))
    BY DEF IndexExact
  <2>1. (f \in pending /\ b \in equation[f].neighbors)
           <=> (f \in dependents[b] \/ (b = block /\ f \in referring))
    BY DEF IndexExact
  <2>2. dependents'[b] = IF b \in Rest(e) THEN dependents[b] \ {e} ELSE dependents[b]
    OBVIOUS
  <2>3. CASE f = e
    BY <1>1, <2>1, <2>2, <2>3
  <2>4. CASE f # e
    BY <1>2, <2>1, <2>2, <2>4
  <2> QED BY <2>3, <2>4
<1>8. referring' \subseteq pending' /\ referring' \cap dependents'[block'] = {}
  BY DEF RippleSound, TypeOK
<1> QED BY <1>2, <1>3, <1>4, <1>5, <1>6, <1>7, <1>8

LEMMA VisitSpentKeeps ==
  ASSUME DecoderInv, NEW e \in referring, VisitSpent(e)
  PROVE  DecoderInv'
<1> USE DEF DecoderInv, VisitSpent
<1>1. /\ pending' \subseteq RepairIds /\ refs' \in Int
      /\ equation' \in [RepairIds -> [neighbors : SUBSET Blocks, payload : SUBSET Blocks]]
      /\ dependents' \in [Blocks -> SUBSET RepairIds]
      /\ EquationSound' /\ IndexExact'
      /\ referring' \subseteq pending' /\ referring' \cap dependents'[block'] = {}
      /\ \A f \in pending' : f \in pending /\ equation'[f] = equation[f]
  BY DropEquationKeeps
<1>2. TypeOK'
  BY <1>1 DEF TypeOK, Visiting
<1>3. StoreSound' /\ RippleSound'
  BY <1>1 DEF StoreSound, RippleSound, Visiting
<1>4. NoneOverdue'
  BY <1>1 DEF NoneOverdue, OnQueue, Visiting, DropEquation
<1> QED BY <1>1, <1>2, <1>3, <1>4

LEMMA VisitSolvingKeeps ==
  ASSUME DecoderInv, NEW e \in referring, NEW last \in Blocks, VisitSolving(e, last)
  PROVE  DecoderInv'
<1> USE DEF DecoderInv, VisitSolving, Rippled
<1>1. /\ pending' \subseteq RepairIds /\ refs' \in Int
      /\ equation' \in [RepairIds -> [neighbors : SUBSET Blocks, payload : SUBSET Blocks]]
      /\ dependents' \in [Blocks -> SUBSET RepairIds]
      /\ EquationSound' /\ IndexExact'
      /\ referring' \subseteq pending' /\ referring' \cap dependents'[block'] = {}
      /\ \A f \in pending' : f \in pending /\ equation'[f] = equation[f]
  BY DropEquationKeeps
<1>2. Reduced(e).payload = {last}
  BY ReducedSound
<1>3. /\ queue' \in Seq(Blocks)
      /\ Len(queue') = Len(queue) + 1
      /\ queue'[Len(queue) + 1] = last
      /\ \A i \in 1 .. Len(queue) : queue'[i] = queue[i]
  BY DEF TypeOK
<1>4. Len(queue) \in Nat
  BY DEF TypeOK
<1>5. TypeOK'
  BY <1>1, <1>2, <1>3 DEF TypeOK, Visiting
<1>6. StoreSound'
  BY <1>2 DEF StoreSound, TypeOK
<1>7. RippleSound'
  BY <1>1, <1>3, <1>4 DEF RippleSound, Visiting
<1>8. NoneOverdue'
  <2> SUFFICES ASSUME NEW f \in pending'
               PROVE  /\ ~AtMostOne(equation'[f].neighbors)
                      /\ \A b \in equation'[f].neighbors \cap solved' :
                            OnQueue(b)' \/ (b = block' /\ f \in referring')
    BY DEF NoneOverdue
  <2>1. f \in pending /\ f # e /\ equation'[f] = equation[f]
    BY <1>1 DEF DropEquation
  <2>2. ~AtMostOne(equation'[f].neighbors)
    BY <2>1 DEF NoneOverdue
  <2>3. ASSUME NEW b \in equation'[f].neighbors \cap solved'
        PROVE  OnQueue(b)' \/ (b = block' /\ f \in referring')
    <3>1. CASE b = last
      BY <1>3, <1>4, <3>1 DEF OnQueue
    <3>2. CASE b # last
      <4>1. OnQueue(b) \/ (b = block /\ f \in referring)
        BY <2>1, <2>3, <3>2 DEF NoneOverdue
      <4>2. CASE OnQueue(b)
        BY <1>3, <1>4, <4>2 DEF OnQueue
      <4>3. CASE b = block /\ f \in referring
        BY <2>1, <4>3 DEF Visiting
      <4> QED BY <4>1, <4>2, <4>3
    <3> QED BY <3>1, <3>2
  <2> QED BY <2>2, <2>3
<1> QED BY <1>1, <1>5, <1>6, <1>7, <1>8

LEMMA CloseKeeps ==
  ASSUME DecoderInv, Close
  PROVE  DecoderInv'
BY DEF DecoderInv, Close, Idle, rippleVars, TypeOK, StoreSound, EquationSound,
       IndexExact, RippleSound, NoneOverdue, OnQueue, EmptyEquation
-----------------------------------------------------------------------------
\* Every step of the decoder keeps the invariant.
LEMMA NextKeeps == DecoderInv /\ [Next]_vars => DecoderInv'
<1> SUFFICES ASSUME DecoderInv, [Next]_vars
             PROVE  DecoderInv'
  OBVIOUS
<1>1. CASE Refuse
  BY <1>1, AnswerKeeps DEF Refuse, Statuses
<1>2. CASE AcceptAfterComplete
  BY <1>2, AnswerKeeps DEF AcceptAfterComplete, Statuses
<1>3. ASSUME NEW b \in Blocks, AcceptSourceDuplicate(b)
      PROVE  DecoderInv'
  BY <1>3, AnswerKeeps DEF AcceptSourceDuplicate, Statuses
<1>4. ASSUME NEW b \in Blocks, AcceptSource(b)
      PROVE  DecoderInv'
  BY <1>4, AcceptSourceKeeps
<1>5. ASSUME NEW r \in RepairIds,
             AcceptRepairDuplicate(r) \/ AcceptRepairSaturated(r) \/ AcceptRepairInvalid(r)
      PROVE  DecoderInv'
  BY <1>5, AnswerKeeps
     DEF AcceptRepairDuplicate, AcceptRepairSaturated, AcceptRepairInvalid, Statuses
<1>6. ASSUME NEW r \in RepairIds, AcceptRepairRedundant(r)
      PROVE  DecoderInv'
  BY <1>6, AcceptRepairRedundantKeeps
<1>7. ASSUME NEW r \in RepairIds, NEW b \in Blocks, AcceptRepairSolving(r, b)
      PROVE  DecoderInv'
  BY <1>7, AcceptRepairSolvingKeeps
<1>8. ASSUME NEW r \in RepairIds, AcceptRepairPending(r)
      PROVE  DecoderInv'
  BY <1>8, AcceptRepairPendingKeeps
<1>9. CASE RippleTake
  BY <1>9, RippleTakeKeeps
<1>10. CASE RippleVisit
  BY <1>10, VisitReducedKeeps, VisitSpentKeeps, VisitSolvingKeeps DEF RippleVisit
<1>11. CASE Close
  BY <1>11, CloseKeeps
<1>12. CASE UNCHANGED vars
  BY <1>12 DEF vars, decoderVars, rippleVars, DecoderInv, TypeOK, StoreSound,
     EquationSound, IndexExact, RippleSound, NoneOverdue, OnQueue
<1> QED BY <1>1, <1>2, <1>3, <1>4, <1>5, <1>6, <1>7, <1>8, <1>9, <1>10, <1>11,
           <1>12 DEF Next, AcceptAny, Ripple

LEMMA InvariantHolds == Spec => []DecoderInv
<1>1. Init => DecoderInv
  BY InitEstablishes
<1>2. DecoderInv /\ [Next]_vars => DecoderInv'
  BY NextKeeps
<1> QED BY <1>1, <1>2, PTL DEF Spec
-----------------------------------------------------------------------------
\* Each variable of the decoder keeps its type, whatever arrives.
THEOREM DecoderTypeCorrect == Spec => []TypeOK
<1>1. DecoderInv => TypeOK
  BY DEF DecoderInv
<1> QED BY <1>1, InvariantHolds, PTL

\* A block marked solved is that block of the segment: no order of source and
\* repair symbols, duplicates, forgotten ids or full caps makes accept() or its
\* ripple write a wrong one.
THEOREM SolvedBlocksAreRight == Spec => []StoreSound
<1>1. DecoderInv => StoreSound
  BY DEF DecoderInv
<1> QED BY <1>1, InvariantHolds, PTL

\* A pending equation is always the XOR of the blocks it still names.
THEOREM PendingEquationsAreRight == Spec => []EquationSound
<1>1. DecoderInv => EquationSound
  BY DEF DecoderInv
<1> QED BY <1>1, InvariantHolds, PTL

\* The dependents index and the pending equations never disagree.
THEOREM IndexAgrees == Spec => []IndexExact
<1>1. DecoderInv => IndexExact
  BY DEF DecoderInv
<1> QED BY <1>1, InvariantHolds, PTL

\* Between calls no pending equation could be reduced further: only a new symbol
\* can move the segment forward, which is what needsMoreRepair reports.
THEOREM RippleLeavesNothing == Spec => []NothingLeftToResolve
<1>1. DecoderInv => NothingLeftToResolve
  BY DEF DecoderInv, NothingLeftToResolve, NoneOverdue, OnQueue, Idle, TypeOK
<1> QED BY <1>1, InvariantHolds, PTL

\* Every block that is marked solved, every equation that waits and the index
\* between them are right, and nothing known is left to be eliminated.
THEOREM EquationsAreSound == Spec => []EquationsSound
<1>1. StoreSound /\ EquationSound /\ IndexExact /\ NothingLeftToResolve => EquationsSound
  BY DEF EquationsSound
<1> QED BY <1>1, SolvedBlocksAreRight, PendingEquationsAreRight, IndexAgrees,
           RippleLeavesNothing, PTL
-----------------------------------------------------------------------------
(* Peeling *)

\* What peeling recovers of a set of symbols is where it stops, and it cannot stop
\* with less.
LEMMA SolvableIsPeeled ==
  ASSUME NEW T
  PROVE  /\ Solvable(T) \subseteq Blocks
         /\ Peeled(T, Solvable(T))
         /\ \A known \in SUBSET Blocks : Peeled(T, known) => Solvable(T) \subseteq known
<1>1. Solvable(T) \subseteq Blocks
  BY DEF Solvable
<1>2. \A known \in SUBSET Blocks : Peeled(T, known) => Solvable(T) \subseteq known
  BY DEF Solvable
<1>3. T \cap Blocks \subseteq Solvable(T)
  BY DEF Solvable, Peeled
<1>4. ASSUME NEW r \in T \cap RepairIds, NEW b \in Blocks, Neighbors[r] \ Solvable(T) = {b}
      PROVE  FALSE
  <2>1. ASSUME NEW known \in SUBSET Blocks, Peeled(T, known)
        PROVE  b \in known
    <3>1. Neighbors[r] \ known \subseteq {b}
      BY <1>2, <1>4, <2>1
    <3>2. Neighbors[r] \ known # {b}
      BY <2>1 DEF Peeled
    <3>3. b \in Neighbors[r]
      BY <1>4
    <3> QED BY <3>1, <3>2, <3>3
  <2>2. b \in Solvable(T)
    BY <2>1 DEF Solvable
  <2> QED BY <1>4, <2>2
<1> QED BY <1>1, <1>2, <1>3, <1>4 DEF Peeled

\* More symbols recover no fewer blocks.
LEMMA SolvableGrows ==
  ASSUME NEW T, NEW U, T \subseteq U
  PROVE  Solvable(T) \subseteq Solvable(U)
<1>1. Peeled(T, Solvable(U)) /\ Solvable(U) \in SUBSET Blocks
  BY SolvableIsPeeled DEF Peeled
<1> QED BY <1>1, SolvableIsPeeled

\* A symbol all of whose blocks are recovered adds nothing.
LEMMA NothingNewSolved ==
  ASSUME NEW T, NEW r \in RepairIds, Neighbors[r] \subseteq Solvable(T)
  PROVE  Solvable(T \cup {r}) = Solvable(T)
<1>1. r \notin Blocks
  BY PeelingAssumption
<1>2. Peeled(T \cup {r}, Solvable(T)) /\ Solvable(T) \in SUBSET Blocks
  BY <1>1, SolvableIsPeeled DEF Peeled
<1> QED BY <1>2, SolvableIsPeeled, SolvableGrows
-----------------------------------------------------------------------------
(* What the decoder has taken, and what it makes of it *)

RefsInv == IsFiniteSet(References) /\ RefsExact

\* Nothing a symbol said is lost: it is a block, an equation that is missing only
\* what is known, or is known altogether; and nothing is known that peeling would
\* not give.
TakenInv ==
  /\ taken \cap Blocks \subseteq solved
  /\ pending \cup seen \subseteq taken
  /\ \A r \in taken \cap RepairIds : Neighbors[r] # {}
  /\ \A e \in pending : /\ equation[e].neighbors \subseteq Neighbors[e]
                        /\ Neighbors[e] \ equation[e].neighbors \subseteq solved
  /\ ~closed => \A r \in (taken \cap RepairIds) \ pending : Neighbors[r] \subseteq solved
  /\ solved \subseteq Solvable(taken)
  /\ closed => Idle /\ solved = Solvable(taken)

PeelInv == DecoderInv /\ TakenInv /\ RefsInv

LEMMA PeelInit == Init => TakenInv /\ RefsInv
<1> SUFFICES ASSUME Init PROVE TakenInv /\ RefsInv
  OBVIOUS
<1>1. References = {}
  BY DEF Init, References
<1>2. RefsInv
  BY <1>1, FS_EmptySet DEF Init, RefsInv, RefsExact
<1>3. TakenInv
  BY DEF Init, TakenInv
<1> QED BY <1>2, <1>3

LEMMA PairsWith ==
  ASSUME NEW x, NEW S, IsFiniteSet(S)
  PROVE  IsFiniteSet({x} \X S) /\ Cardinality({x} \X S) = Cardinality(S)
<1>1. IsFiniteSet({x}) /\ Cardinality({x}) = 1
  BY FS_Singleton
<1>2. /\ IsFiniteSet({x} \X S)
      /\ Cardinality({x} \X S) = Cardinality({x}) * Cardinality(S)
  BY <1>1, FS_Product
<1>3. Cardinality(S) \in Nat
  BY FS_CardinalityType
<1>4. Cardinality({x} \X S) = 1 * Cardinality(S)
  BY <1>1, <1>2
<1> QED BY <1>2, <1>3, <1>4

\* A block solved by an equation is one that peeling gives.
LEMMA LastUnknownIsSolvable ==
  ASSUME NEW T, NEW r \in T \cap RepairIds, NEW known \in SUBSET Solvable(T),
         NEW b \in Blocks, Neighbors[r] \ known = {b}
  PROVE  b \in Solvable(T)
<1>1. Neighbors[r] \ Solvable(T) # {b} /\ Neighbors[r] \ Solvable(T) \subseteq {b}
  BY SolvableIsPeeled DEF Peeled
<1> QED BY <1>1

LEMMA SameReferences ==
  ASSUME UNCHANGED <<pending, equation, refs>>, RefsInv
  PROVE  RefsInv'
BY DEF RefsInv, RefsExact, References

LEMMA AnswerPeels ==
  ASSUME PeelInv, NEW s \in Statuses, Answer(s)
  PROVE  TakenInv' /\ RefsInv'
<1>1. UNCHANGED <<decoderVars, queue, referring, taken>>
  BY DEF Answer, rippleVars
<1> QED BY <1>1, SameReferences DEF PeelInv, decoderVars, TakenInv, Idle

LEMMA AcceptSourcePeels ==
  ASSUME PeelInv, NEW b \in Blocks, AcceptSource(b)
  PROVE  TakenInv' /\ RefsInv'
<1>1. Solvable(taken) \subseteq Solvable(taken')
  BY SolvableGrows DEF AcceptSource
<1>2. b \in Solvable(taken')
  BY SolvableIsPeeled DEF AcceptSource, Peeled
<1>3. solved' \subseteq Solvable(taken')
  BY <1>1, <1>2 DEF AcceptSource, PeelInv, TakenInv
<1>4. b \notin RepairIds
  BY PeelingAssumption
<1>5. TakenInv'
  BY <1>3, <1>4 DEF TakenInv, PeelInv, AcceptSource, Receptive
<1>6. RefsInv'
  BY SameReferences DEF PeelInv, AcceptSource
<1> QED BY <1>5, <1>6

LEMMA AcceptRepairRedundantPeels ==
  ASSUME PeelInv, NEW r \in RepairIds, AcceptRepairRedundant(r)
  PROVE  TakenInv' /\ RefsInv'
<1> USE DEF AcceptRepairRedundant, Equational, Receptive
<1>0. r \notin Blocks
  BY PeelingAssumption
<1>1. solved' \subseteq Solvable(taken')
  BY SolvableGrows DEF PeelInv, TakenInv
<1>2. Neighbors[r] \subseteq solved
  BY DEF NothingNew, Unknown
<1>3. TakenInv'
  BY <1>0, <1>1, <1>2 DEF TakenInv, PeelInv, RememberRepairId
<1>4. RefsInv'
  BY SameReferences DEF PeelInv
<1> QED BY <1>3, <1>4

LEMMA AcceptRepairSolvingPeels ==
  ASSUME PeelInv, NEW r \in RepairIds, NEW b \in Blocks, AcceptRepairSolving(r, b)
  PROVE  TakenInv' /\ RefsInv'
<1> USE DEF AcceptRepairSolving, Equational, Receptive
<1>0. r \notin Blocks
  BY PeelingAssumption
<1>1. solved \subseteq Solvable(taken')
  BY SolvableGrows DEF PeelInv, TakenInv
<1>2. b \in Solvable(taken')
  BY <1>1, LastUnknownIsSolvable DEF Unknown
<1>3. TakenInv'
  BY <1>0, <1>1, <1>2 DEF TakenInv, PeelInv, RememberRepairId, Unknown
<1>4. RefsInv'
  BY SameReferences DEF PeelInv
<1> QED BY <1>3, <1>4

LEMMA AcceptRepairPendingPeels ==
  ASSUME PeelInv, NEW r \in RepairIds, AcceptRepairPending(r)
  PROVE  TakenInv' /\ RefsInv'
<1> USE DEF AcceptRepairPending, Equational, Receptive
<1>0. r \notin Blocks /\ r \notin pending /\ Unknown(r) \in SUBSET Blocks
  BY PeelingAssumption DEF Known, Unknown
<1>1. solved' \subseteq Solvable(taken')
  BY SolvableGrows DEF PeelInv, TakenInv
<1>2. /\ \A e \in pending : equation'[e] = equation[e]
      /\ equation'[r].neighbors = Unknown(r)
  BY <1>0 DEF PeelInv, DecoderInv, TypeOK
<1>3. TakenInv'
  BY <1>0, <1>1, <1>2 DEF TakenInv, PeelInv, RememberRepairId, Unknown
<1>4. RefsInv'
  <2> DEFINE New == {r} \X Unknown(r)
  <2>1. References' = References \cup New
    BY <1>0, <1>2 DEF References
  <2>2. References \cap New = {}
    BY <1>0 DEF References
  <2>3. IsFiniteSet(New) /\ Cardinality(New) = Cardinality(Unknown(r))
    BY <1>0, BlockSetsFinite, PairsWith
  <2>4. /\ IsFiniteSet(References')
        /\ Cardinality(References') = Cardinality(References) + Cardinality(New) - Cardinality({})
    BY <2>1, <2>2, <2>3, FS_Union DEF PeelInv, RefsInv
  <2>5. Cardinality(References) \in Nat /\ Cardinality(Unknown(r)) \in Nat
    BY <1>0, BlockSetsFinite, FS_CardinalityType DEF PeelInv, RefsInv
  <2>6. Cardinality({}) = 0
    BY FS_EmptySet
  <2>7. refs' = Cardinality(References')
    BY <2>3, <2>4, <2>5, <2>6 DEF RefsInv, RefsExact, PeelInv
  <2> QED BY <2>4, <2>7 DEF RefsInv, RefsExact
<1> QED BY <1>3, <1>4

LEMMA RippleTakePeels ==
  ASSUME PeelInv, RippleTake
  PROVE  TakenInv' /\ RefsInv'
<1>1. ~closed
  BY DEF RippleTake, PeelInv, TakenInv, Idle
<1>2. TakenInv'
  BY <1>1 DEF RippleTake, TakenInv, PeelInv
<1>3. RefsInv'
  BY SameReferences DEF PeelInv, RippleTake
<1> QED BY <1>2, <1>3

LEMMA VisitReducedPeels ==
  ASSUME PeelInv, NEW e \in referring, VisitReduced(e)
  PROVE  TakenInv' /\ RefsInv'
<1> USE DEF VisitReduced, Visiting
<1>1. /\ e \in pending /\ e \in RepairIds /\ block \in equation[e].neighbors
      /\ Rest(e) = equation[e].neighbors \ {block}
  BY ReducedSound DEF PeelInv
<1>2. block \in solved /\ block \in Blocks /\ ~closed
  BY DEF PeelInv, DecoderInv, RippleSound, TypeOK, TakenInv, Idle
<1>3. /\ \A f \in pending : f # e => equation'[f] = equation[f]
      /\ equation'[e].neighbors = Rest(e)
  BY <1>1 DEF PeelInv, DecoderInv, TypeOK, Rest
<1>4. TakenInv'
  BY <1>1, <1>2, <1>3 DEF TakenInv, PeelInv
<1>5. RefsInv'
  <2>1. References' = References \ {<<e, block>>} /\ <<e, block>> \in References
    BY <1>1, <1>2, <1>3 DEF References
  <2>2. IsFiniteSet(References') /\ Cardinality(References') = Cardinality(References) - 1
    BY <2>1, FS_RemoveElement DEF PeelInv, RefsInv
  <2> QED BY <2>2 DEF PeelInv, RefsInv, RefsExact
<1> QED BY <1>4, <1>5

\* Dropping an equation gives back the references it held.
LEMMA DropGivesBack ==
  ASSUME PeelInv, NEW e \in referring, DropEquation(e)
  PROVE  RefsInv'
<1>1. /\ e \in pending /\ e \in RepairIds /\ block \in equation[e].neighbors
      /\ Rest(e) = equation[e].neighbors \ {block} /\ Rest(e) \in SUBSET Blocks
  BY ReducedSound DEF PeelInv
<1> DEFINE Gone == {e} \X equation[e].neighbors
<1>2. equation[e].neighbors \in SUBSET Blocks
  BY <1>1 DEF PeelInv, DecoderInv, TypeOK
<1>3. References' = References \ Gone /\ Gone \subseteq References
  <2>1. pending' = pending \ {e} /\ \A f \in pending' : equation'[f] = equation[f]
    BY <1>1 DEF DropEquation, PeelInv, DecoderInv, TypeOK
  <2>2. References' = {p \in (pending \ {e}) \X Blocks : p[2] \in equation[p[1]].neighbors}
    BY <2>1 DEF References
  <2>3. ASSUME NEW f \in pending, NEW b \in Blocks
        PROVE  <<f, b>> \in Gone <=> f = e /\ b \in equation[e].neighbors
    OBVIOUS
  <2> QED BY <1>1, <1>2, <2>2, <2>3 DEF References
<1>4. IsFiniteSet(Rest(e)) /\ Cardinality(Rest(e)) \in Nat
  BY <1>1, BlockSetsFinite
<1>5. equation[e].neighbors = Rest(e) \cup {block} /\ block \notin Rest(e)
  BY <1>1
<1>6. Cardinality(equation[e].neighbors) = Cardinality(Rest(e)) + 1
  BY <1>4, <1>5, FS_AddElement
<1>7. Cardinality(Gone) = Cardinality(Rest(e)) + 1
  BY <1>2, <1>6, BlockSetsFinite, PairsWith
<1>8. /\ IsFiniteSet(References') 
      /\ Cardinality(References') = Cardinality(References) - Cardinality(References \cap Gone)
  BY <1>3, FS_Difference DEF PeelInv, RefsInv
<1>9. References \cap Gone = Gone
  BY <1>3
<1>10. Cardinality(References) \in Nat
  BY FS_CardinalityType DEF PeelInv, RefsInv
<1>11. refs = Cardinality(References) /\ refs' = refs - (1 + Cardinality(Rest(e)))
  BY DEF PeelInv, RefsInv, RefsExact, DropEquation, RefsReleased
<1>12. Cardinality(References') = Cardinality(References) - Cardinality(Gone)
  BY <1>8, <1>9
<1>13. refs' = Cardinality(References')
  <2> HIDE DEF Gone
  <2> DEFINE held == Cardinality(References)  rest == Cardinality(Rest(e))
  <2>1. held \in Nat /\ rest \in Nat
    BY <1>4, <1>10
  <2>2. Cardinality(References') = held - (rest + 1) /\ refs' = held - (1 + rest)
    BY <1>7, <1>11, <1>12
  <2> HIDE DEF held, rest
  <2> QED BY <2>1, <2>2
<1> QED BY <1>8, <1>13 DEF RefsInv, RefsExact

LEMMA VisitSpentPeels ==
  ASSUME PeelInv, NEW e \in referring, VisitSpent(e)
  PROVE  TakenInv' /\ RefsInv'
<1> USE DEF VisitSpent, Visiting, DropEquation
<1>1. /\ e \in pending /\ e \in RepairIds
      /\ Rest(e) = equation[e].neighbors \ {block}
  BY ReducedSound DEF PeelInv
<1>2. block \in solved /\ ~closed
  BY DEF PeelInv, DecoderInv, RippleSound, TypeOK, TakenInv, Idle
<1>3. Neighbors[e] \subseteq solved
  BY <1>1, <1>2 DEF Spent, PeelInv, TakenInv
<1>4. \A f \in pending' : f \in pending /\ equation'[f] = equation[f]
  BY DropEquationKeeps DEF PeelInv
<1>5. TakenInv'
  BY <1>1, <1>2, <1>3, <1>4 DEF TakenInv, PeelInv
<1> QED BY <1>5, DropGivesBack

LEMMA VisitSolvingPeels ==
  ASSUME PeelInv, NEW e \in referring, NEW last \in Blocks, VisitSolving(e, last)
  PROVE  TakenInv' /\ RefsInv'
<1> USE DEF VisitSolving, Visiting, DropEquation
<1>1. /\ e \in pending /\ e \in RepairIds
      /\ Rest(e) = equation[e].neighbors \ {block}
  BY ReducedSound DEF PeelInv
<1>2. block \in solved /\ ~closed
  BY DEF PeelInv, DecoderInv, RippleSound, TypeOK, TakenInv, Idle
<1>3. Neighbors[e] \ solved = {last}
  BY <1>1, <1>2 DEF PeelInv, TakenInv
<1>4. last \in Solvable(taken)
  BY <1>1, <1>3, LastUnknownIsSolvable DEF PeelInv, TakenInv
<1>5. \A f \in pending' : f \in pending /\ equation'[f] = equation[f]
  BY DropEquationKeeps DEF PeelInv
<1>6. TakenInv'
  BY <1>1, <1>2, <1>3, <1>4, <1>5 DEF TakenInv, PeelInv
<1> QED BY <1>6, DropGivesBack

\* Between calls the decoder knows what peeling would give.
LEMMA PeeledWhenIdle ==
  ASSUME PeelInv, Idle
  PROVE  solved = Solvable(taken)
<1>1. CASE closed
  BY <1>1 DEF PeelInv, TakenInv
<1>2. CASE ~closed
  <2>1. solved \in SUBSET Blocks
    BY DEF PeelInv, DecoderInv, TypeOK
  <2>2. ASSUME NEW r \in taken \cap RepairIds, NEW b \in Blocks, Neighbors[r] \ solved = {b}
        PROVE  FALSE
    <3>1. r \in pending
      BY <1>2, <2>2 DEF PeelInv, TakenInv
    <3>2. ~AtMostOne(equation[r].neighbors) /\ equation[r].neighbors \cap solved = {}
      BY <3>1 DEF PeelInv, DecoderInv, NoneOverdue, OnQueue, Idle, TypeOK
    <3>3. equation[r].neighbors \subseteq Neighbors[r] \ solved
      BY <3>1, <3>2 DEF PeelInv, TakenInv
    <3> QED BY <2>2, <3>2, <3>3 DEF AtMostOne
  <2>3. Peeled(taken, solved)
    BY <2>2 DEF Peeled, PeelInv, TakenInv
  <2> QED BY <2>1, <2>3, SolvableIsPeeled DEF PeelInv, TakenInv
<1> QED BY <1>1, <1>2

LEMMA ClosePeels ==
  ASSUME PeelInv, Close
  PROVE  TakenInv' /\ RefsInv'
<1>1. solved = Solvable(taken) /\ Idle'
  BY PeeledWhenIdle DEF Close, Idle, rippleVars
<1>2. TakenInv'
  BY <1>1 DEF TakenInv, PeelInv, Close
<1>3. References' = {}
  BY DEF Close, References
<1>4. RefsInv'
  BY <1>3, FS_EmptySet DEF RefsInv, RefsExact, Close
<1> QED BY <1>2, <1>4

LEMMA PeelKeeps == PeelInv /\ [Next]_vars => PeelInv'
<1> SUFFICES ASSUME PeelInv, [Next]_vars
             PROVE  TakenInv' /\ RefsInv'
  BY NextKeeps DEF PeelInv
<1>1. ASSUME NEW s \in Statuses, Answer(s) PROVE TakenInv' /\ RefsInv'
  BY <1>1, AnswerPeels
<1>2. CASE Refuse \/ AcceptAfterComplete
  BY <1>1, <1>2 DEF Refuse, AcceptAfterComplete, Statuses
<1>3. ASSUME NEW b \in Blocks, AcceptSourceDuplicate(b) \/ AcceptSource(b)
      PROVE  TakenInv' /\ RefsInv'
  BY <1>1, <1>3, AcceptSourcePeels DEF AcceptSourceDuplicate, Statuses
<1>4. ASSUME NEW r \in RepairIds,
             AcceptRepairDuplicate(r) \/ AcceptRepairSaturated(r) \/ AcceptRepairInvalid(r)
      PROVE  TakenInv' /\ RefsInv'
  BY <1>1, <1>4
     DEF AcceptRepairDuplicate, AcceptRepairSaturated, AcceptRepairInvalid, Statuses
<1>5. ASSUME NEW r \in RepairIds,
             \/ AcceptRepairRedundant(r) \/ AcceptRepairPending(r)
             \/ \E b \in Blocks : AcceptRepairSolving(r, b)
      PROVE  TakenInv' /\ RefsInv'
  BY <1>5, AcceptRepairRedundantPeels, AcceptRepairPendingPeels, AcceptRepairSolvingPeels
<1>6. CASE RippleTake
  BY <1>6, RippleTakePeels
<1>7. CASE RippleVisit
  BY <1>7, VisitReducedPeels, VisitSpentPeels, VisitSolvingPeels DEF RippleVisit
<1>8. CASE Close
  BY <1>8, ClosePeels
<1>9. CASE UNCHANGED vars
  BY <1>9, SameReferences DEF vars, decoderVars, rippleVars, PeelInv, TakenInv, Idle
<1> QED BY <1>2, <1>3, <1>4, <1>5, <1>6, <1>7, <1>8, <1>9 DEF Next, AcceptAny, Ripple

LEMMA PeelHolds == Spec => []PeelInv
<1>1. Init => PeelInv
  BY InitEstablishes, PeelInit DEF PeelInv
<1> QED BY <1>1, PeelKeeps, PTL DEF Spec

\* The caps on equations, references and remembered ids cost repair symbols and
\* nothing else: the count of references is exact, a forgotten symbol carries
\* nothing new, and what was taken is peeled to the end (CapsCostNothingElse).
THEOREM CapsCostNoMore == Spec => []CapsCostNothingElse
<1>1. ASSUME PeelInv
      PROVE  CapsCostNothingElse
  <2>1. RefsExact
    BY <1>1 DEF PeelInv, RefsInv
  <2>2. ForgottenRepairsCarryNothing
    BY <1>1 DEF PeelInv, TakenInv, ForgottenRepairsCarryNothing
  <2>3. RecoversAllThatPeels
    BY <1>1, PeeledWhenIdle DEF RecoversAllThatPeels
  <2> QED BY <2>1, <2>2, <2>3 DEF CapsCostNothingElse
<1>2. PeelInv => CapsCostNothingElse
  BY <1>1
<1> QED BY <1>2, PeelHolds, PTL
-----------------------------------------------------------------------------
(* The refinement *)

\* INSTANCE copies the library's operators too: the copy counts alike.
LEMMA PromiseSizes == ASSUME NEW S PROVE Promise!Cardinality(S) = Cardinality(S)
BY DEF Promise!Cardinality, Cardinality

\* SegmentRecovery's reference peels as the decoder's does.
LEMMA PromiseReference ==
  ASSUME NEW T
  PROVE  /\ Promise!Solvable(T) = Solvable(T)
         /\ Promise!Complete(T) <=> Solvable(T) = Blocks
         /\ Promise!Unresolved(T) = Unresolved(T)
         /\ Promise!UnresolvedRefs(T) = UnresolvedRefs(T)
<1>1. Promise!Blocks = Blocks
  BY DEF Promise!Blocks, Blocks
<1>2. \A known : Promise!Peeled(T, known) <=> Peeled(T, known)
  BY <1>1 DEF Promise!Peeled, Peeled
<1>3. Promise!Solvable(T) = Solvable(T)
  BY <1>1, <1>2 DEF Promise!Solvable, Solvable
<1>4. Promise!Unresolved(T) = Unresolved(T)
  BY <1>3 DEF Promise!Unresolved, Unresolved
<1> QED BY <1>1, <1>3, <1>4, PromiseSizes DEF Promise!Complete, Promise!UnresolvedRefs, UnresolvedRefs

\* What Promise calls recovered.
Recovered == IF Idle THEN solved ELSE Solvable(taken)

RecoveredIsSolvable == Recovered = Solvable(taken)

LEMMA DecidedOnArrival == PeelInv => RecoveredIsSolvable
BY PeeledWhenIdle DEF Recovered, RecoveredIsSolvable

\* Between calls the equations held are the ones no decoder could reduce, so the
\* caps are met exactly when SegmentRecovery says.
LEMMA HoldsTheUnresolved ==
  ASSUME PeelInv, Receptive
  PROVE  /\ pending = Unresolved(taken)
         /\ Cardinality(References) = UnresolvedRefs(taken)
<1>1. solved = Solvable(taken)
  BY PeeledWhenIdle DEF Receptive
<1>2. ASSUME NEW e \in pending
      PROVE  /\ e \in taken \cap RepairIds
             /\ equation[e].neighbors = Neighbors[e] \ solved
             /\ equation[e].neighbors # {}
  <2>1. e \in taken \cap RepairIds
    BY DEF PeelInv, TakenInv, DecoderInv, TypeOK
  <2>2. ~AtMostOne(equation[e].neighbors) /\ equation[e].neighbors \cap solved = {}
    BY DEF PeelInv, DecoderInv, NoneOverdue, OnQueue, Receptive, Idle, TypeOK
  <2> QED BY <2>1, <2>2 DEF PeelInv, TakenInv, AtMostOne
<1>3. \A r \in (taken \cap RepairIds) \ pending : Neighbors[r] \ solved = {}
  BY DEF PeelInv, TakenInv, Receptive
<1>4. pending = Unresolved(taken)
  BY <1>1, <1>2, <1>3 DEF Unresolved
<1>5. References = {p \in Unresolved(taken) \X Blocks : p[2] \in Neighbors[p[1]] \ Solvable(taken)}
  BY <1>1, <1>2, <1>4 DEF References
<1> QED BY <1>4, <1>5 DEF UnresolvedRefs

LEMMA SaturatedAlike ==
  ASSUME PeelInv, Receptive
  PROVE  Saturated <=> Promise!SaturatedBy(taken)
<1>1. refs = UnresolvedRefs(taken) /\ pending = Unresolved(taken)
  BY HoldsTheUnresolved DEF PeelInv, RefsInv, RefsExact
<1> QED BY <1>1, PromiseReference, PromiseSizes DEF Saturated, Promise!SaturatedBy

LEMMA PromiseInit == Init => Promise!Init
BY DEF Init, Promise!Init, Idle

\* An answer of an open decoder that the promise allows, and what it consumes.
LEMMA PromiseAccept ==
  ASSUME PeelInv, PeelInv', ~closed, ~closed', NEW s \in Symbols,
         outcome' \in Promise!Answers(taken, s),
         taken' = Promise!HeldAfter(taken, s, outcome')
  PROVE  Promise!Next
<1>1. RecoveredIsSolvable'
  BY DecidedOnArrival, PTL
<1>2. Recovered' = Promise!Solvable(taken')
  BY <1>1, PromiseReference DEF RecoveredIsSolvable
<1>3. Promise!Accept(s)
  BY <1>2 DEF Promise!Accept, Recovered
<1>4. Promise!Symbols = Symbols
  BY DEF Promise!Symbols, Symbols, Promise!Blocks, Blocks
<1> QED BY <1>3, <1>4 DEF Promise!Next

\* Inside a ripple the caller sees nothing.
LEMMA PromiseStutters ==
  ASSUME PeelInv, PeelInv', UNCHANGED <<taken, outcome, closed>>
  PROVE  UNCHANGED Promise!vars
<1>1. RecoveredIsSolvable
  BY DecidedOnArrival
<1>2. RecoveredIsSolvable'
  BY DecidedOnArrival, PTL
<1>3. Recovered' = Recovered
  BY <1>1, <1>2 DEF RecoveredIsSolvable
<1> QED BY <1>3 DEF Promise!vars, Recovered

LEMMA PromiseRefuse == ASSUME PeelInv, PeelInv', Refuse PROVE Promise!Next
<1>1. UNCHANGED <<taken, closed>> /\ outcome' = "rejected"
  BY DEF Refuse, Answer, decoderVars
<1>2. Recovered' = Recovered
  BY DEF Recovered, Refuse, Answer, decoderVars, rippleVars, Idle
<1>3. solved = Solvable(taken)
  BY PeeledWhenIdle DEF Refuse
<1>4. Promise!Refuse
  BY <1>1, <1>2, <1>3, PromiseReference DEF Promise!Refuse, Recovered, Refuse
<1> QED BY <1>4 DEF Promise!Next

LEMMA PromiseClose == ASSUME PeelInv, PeelInv', Close PROVE Promise!Next
<1>1. Recovered' = Recovered
  BY DEF Recovered, Close, rippleVars, Idle
<1>2. Promise!Close
  BY <1>1 DEF Promise!Close, Recovered, Close
<1> QED BY <1>2 DEF Promise!Next

\* A complete segment, or a block it has.
LEMMA PromiseDuplicate ==
  ASSUME PeelInv, PeelInv', Answer("duplicate"), Idle, ~closed, NEW s \in Symbols,
         solved = Blocks \/ (s \in Blocks /\ s \in solved)
  PROVE  Promise!Next
<1>1. solved = Solvable(taken)
  BY PeeledWhenIdle
<1>2. Promise!Blocks = Blocks
  BY DEF Promise!Blocks, Blocks
<1>3. "duplicate" \in Promise!Answers(taken, s)
  BY <1>1, <1>2, PromiseReference DEF Promise!Answers
<1>4. taken' = Promise!HeldAfter(taken, s, outcome') /\ ~closed' /\ outcome' = "duplicate"
  BY DEF Answer, decoderVars, Promise!HeldAfter, Promise!Consumed
<1> QED BY <1>3, <1>4, PromiseAccept

LEMMA PromiseSource ==
  ASSUME PeelInv, PeelInv', NEW b \in Blocks, AcceptSource(b)
  PROVE  Promise!Next
<1>1. solved = Solvable(taken)
  BY PeeledWhenIdle DEF AcceptSource, Receptive
<1>2. Promise!Blocks = Blocks
  BY DEF Promise!Blocks, Blocks
<1>3. "source-placed" \in Promise!Answers(taken, b)
  BY <1>1, <1>2, PromiseReference DEF Promise!Answers, AcceptSource, Receptive
<1>4. taken' = Promise!HeldAfter(taken, b, outcome') /\ ~closed /\ ~closed'
      /\ outcome' = "source-placed"
  BY DEF AcceptSource, Receptive, Promise!HeldAfter, Promise!Consumed
<1> QED BY <1>3, <1>4, PromiseAccept DEF Symbols

\* The answers to a repair symbol, in the terms the decoder has: what it holds.
LEMMA RepairAnswers ==
  ASSUME PeelInv, Receptive, NEW r \in RepairIds
  PROVE  Promise!Answers(taken, r) =
           IF r \in taken
             THEN IF r \in pending THEN {"duplicate"}
                  ELSE {"duplicate", IF Saturated THEN "rejected" ELSE "redundant"}
           ELSE IF Saturated \/ Neighbors[r] = {} THEN {"rejected"}
           ELSE IF Unknown(r) = {} THEN {"redundant"}
           ELSE IF Cardinality(Unknown(r)) = 1 THEN {"repair-solved"}
           ELSE {"repair-pending"}
<1>1. solved = Solvable(taken) /\ solved # Blocks
  BY PeeledWhenIdle DEF Receptive
<1>2. Promise!Blocks = Blocks /\ r \notin Blocks
  BY PeelingAssumption DEF Promise!Blocks, Blocks
<1>3. Promise!Unresolved(taken) = pending
  BY PromiseReference, HoldsTheUnresolved
<1>4. ~Promise!Complete(taken)
  BY <1>1, PromiseReference
<1>5. Neighbors[r] \ Promise!Solvable(taken) = Unknown(r)
  BY <1>1, PromiseReference DEF Unknown
<1>6. Promise!SaturatedBy(taken) = Saturated
  BY SaturatedAlike DEF Saturated, Promise!SaturatedBy
<1> QED BY <1>2, <1>3, <1>4, <1>5, <1>6, PromiseSizes DEF Promise!Answers

LEMMA PromiseRepairRefused ==
  ASSUME PeelInv, PeelInv', NEW r \in RepairIds,
         \/ AcceptRepairDuplicate(r)
         \/ AcceptRepairSaturated(r)
         \/ AcceptRepairInvalid(r)
  PROVE  Promise!Next
<1>1. Receptive /\ r \in Symbols
  BY DEF AcceptRepairDuplicate, AcceptRepairSaturated, AcceptRepairInvalid, Symbols
<1>2. ~closed /\ ~closed' /\ taken' = taken /\ outcome' \in {"duplicate", "rejected"}
  BY DEF Receptive, Answer, decoderVars, AcceptRepairDuplicate, AcceptRepairSaturated,
         AcceptRepairInvalid
<1>3. taken' = Promise!HeldAfter(taken, r, outcome')
  BY <1>2 DEF Promise!HeldAfter, Promise!Consumed
<1>4. r \notin pending => (r \in taken => Neighbors[r] # {})
  BY DEF PeelInv, TakenInv
<1>5. pending \cup seen \subseteq taken
  BY DEF PeelInv, TakenInv
<1>6. CASE AcceptRepairDuplicate(r)
  <2>1. outcome' = "duplicate" /\ r \in taken
    BY <1>5, <1>6 DEF AcceptRepairDuplicate, Answer, Known
  <2> QED BY <1>1, <1>2, <1>3, <2>1, RepairAnswers, PromiseAccept
<1>7. CASE AcceptRepairSaturated(r)
  <2>1. outcome' = "rejected" /\ Saturated /\ r \notin pending
    BY <1>7 DEF AcceptRepairSaturated, Answer, Known
  <2> QED BY <1>1, <1>2, <1>3, <2>1, RepairAnswers, PromiseAccept
<1>8. CASE AcceptRepairInvalid(r)
  <2>1. outcome' = "rejected" /\ Neighbors[r] = {} /\ r \notin pending
    BY <1>8 DEF AcceptRepairInvalid, Answer, Known
  <2> QED BY <1>1, <1>2, <1>3, <1>4, <2>1, RepairAnswers, PromiseAccept
<1> QED BY <1>6, <1>7, <1>8

LEMMA PromiseEquation ==
  ASSUME PeelInv, PeelInv', NEW r \in RepairIds,
         \/ AcceptRepairRedundant(r)
         \/ \E b \in Blocks : AcceptRepairSolving(r, b)
         \/ AcceptRepairPending(r)
  PROVE  Promise!Next
<1>1. Equational(r) /\ r \in Symbols
  BY DEF AcceptRepairRedundant, AcceptRepairSolving, AcceptRepairPending, Symbols
<1>2. Receptive /\ ~closed /\ ~closed' /\ taken' = taken \cup {r}
      /\ ~Saturated /\ Neighbors[r] # {} /\ r \notin pending
  BY <1>1 DEF Equational, Receptive, Known
<1>3. outcome' \in Promise!Consumed => taken' = Promise!HeldAfter(taken, r, outcome')
  BY <1>2 DEF Promise!HeldAfter
<1>4. r \in taken => Unknown(r) = {}
  BY <1>2 DEF PeelInv, TakenInv, Unknown
<1>5. Unknown(r) \in SUBSET Blocks
  BY PeelingAssumption DEF Unknown
<1>6. CASE AcceptRepairRedundant(r)
  <2>1. outcome' = "redundant" /\ Unknown(r) = {}
    BY <1>6 DEF AcceptRepairRedundant, NothingNew
  <2>2. outcome' \in Promise!Answers(taken, r)
    BY <1>2, <2>1, RepairAnswers
  <2> QED BY <1>1, <1>2, <1>3, <2>1, <2>2, PromiseAccept DEF Promise!Consumed
<1>7. ASSUME NEW b \in Blocks, AcceptRepairSolving(r, b)
      PROVE  Promise!Next
  <2>1. outcome' = "repair-solved" /\ Unknown(r) = {b}
    BY <1>7 DEF AcceptRepairSolving
  <2>2. Cardinality(Unknown(r)) = 1
    BY <2>1, FS_Singleton
  <2>3. outcome' \in Promise!Answers(taken, r)
    BY <1>2, <1>4, <2>1, <2>2, RepairAnswers
  <2> QED BY <1>1, <1>2, <1>3, <2>1, <2>3, PromiseAccept DEF Promise!Consumed
<1>8. CASE AcceptRepairPending(r)
  <2>1. outcome' = "repair-pending" /\ ~AtMostOne(Unknown(r))
    BY <1>8 DEF AcceptRepairPending
  <2>2. Unknown(r) # {}
    BY <2>1 DEF AtMostOne
  <2>3. Cardinality(Unknown(r)) # 1
    <3>1. IsFiniteSet(Unknown(r))
      BY <1>5, BlockSetsFinite
    <3>2. ASSUME Cardinality(Unknown(r)) = 1 PROVE \E x : Unknown(r) = {x}
      BY <3>1, <3>2, FS_Singleton
    <3> QED BY <2>1, <3>2 DEF AtMostOne
  <2>4. outcome' \in Promise!Answers(taken, r)
    BY <1>2, <1>4, <2>1, <2>2, <2>3, RepairAnswers
  <2> QED BY <1>1, <1>2, <1>3, <2>1, <2>4, PromiseAccept DEF Promise!Consumed
<1> QED BY <1>6, <1>7, <1>8

LEMMA PromiseNext ==
  PeelInv /\ PeelInv' /\ [Next]_vars => [Promise!Next]_(Promise!vars)
<1> SUFFICES ASSUME PeelInv, PeelInv', [Next]_vars
             PROVE  Promise!Next \/ UNCHANGED Promise!vars
  OBVIOUS
<1>1. CASE Refuse
  BY <1>1, PromiseRefuse
<1>2. CASE AcceptAfterComplete
  <2>1. 0 \in Blocks /\ 0 \in Symbols
    BY PeelingAssumption DEF Blocks, Symbols
  <2> QED BY <1>2, <2>1, PromiseDuplicate DEF AcceptAfterComplete
<1>3. ASSUME NEW b \in Blocks, AcceptSourceDuplicate(b)
      PROVE  Promise!Next
  BY <1>3, PromiseDuplicate DEF AcceptSourceDuplicate, Receptive, Symbols
<1>4. ASSUME NEW b \in Blocks, AcceptSource(b)
      PROVE  Promise!Next
  BY <1>4, PromiseSource
<1>5. ASSUME NEW r \in RepairIds,
             AcceptRepairDuplicate(r) \/ AcceptRepairSaturated(r) \/ AcceptRepairInvalid(r)
      PROVE  Promise!Next
  BY <1>5, PromiseRepairRefused
<1>6. ASSUME NEW r \in RepairIds,
             \/ AcceptRepairRedundant(r) \/ AcceptRepairPending(r)
             \/ \E b \in Blocks : AcceptRepairSolving(r, b)
      PROVE  Promise!Next
  BY <1>6, PromiseEquation
<1>7. CASE Ripple
  <2>1. UNCHANGED <<taken, outcome, closed>>
    BY <1>7 DEF Ripple, RippleTake, RippleVisit, VisitReduced, VisitSpent, VisitSolving, Visiting
  <2> QED BY <2>1, PromiseStutters
<1>8. CASE Close
  BY <1>8, PromiseClose
<1>9. CASE UNCHANGED vars
  BY <1>9, PromiseStutters DEF vars, decoderVars
<1> QED BY <1>1, <1>2, <1>3, <1>4, <1>5, <1>6, <1>7, <1>8, <1>9 DEF Next, AcceptAny

\* The decoder implements SegmentRecovery: every answer of accept(), and the set
\* of blocks it leads to, is a function of the symbols taken so far alone
\* (KeepsPromise), so the modules above it may use SegmentRecovery in its place.
THEOREM DecoderKeepsPromise == Spec => KeepsPromise
<1> USE DEF KeepsPromise
<1> QED BY PromiseInit, PromiseNext, PeelHolds, PTL DEF Spec, Promise!Spec
=============================================================================
