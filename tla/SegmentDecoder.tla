---------------------------- MODULE SegmentDecoder ----------------------------
(***************************************************************************)
(* The peeling decoder of one segment (src/core/segment-decoder.ts), with   *)
(* the ripple taken one equation at a time.                                 *)
(*                                                                         *)
(* accept() is synchronous, so a symbol is only taken when no ripple is     *)
(* running; the order in which the ripple visits the equations that name a  *)
(* solved block is left open.  Payload bytes are the symbolic XOR of        *)
(* Peeling.tla.                                                             *)
(***************************************************************************)
EXTENDS Peeling, Integers, Sequences

CONSTANTS MaxPendingEquations,    \* limits.maxPendingEquations
          MaxPendingNeighborRefs, \* limits.maxPendingNeighborRefs
          MaxTrackedRepairIds     \* limits.maxTrackedRepairIds

ASSUME LimitsAssumption ==
  /\ MaxPendingEquations \in Nat
  /\ MaxPendingNeighborRefs \in Nat
  /\ MaxTrackedRepairIds \in Nat

VARIABLES
  closed,      \* detach() or release() has been called
  solved,      \* solvedBits: the blocks marked solved
  store,       \* the segment: what each block's slot holds
  pending,     \* ids of the unresolved equations
  equation,    \* their unknown neighbours and residual payload
  dependents,  \* block -> the equations that still reference it
  refs,        \* pendingNeighborRefs
  seen,        \* seenRepairIds
  obsoleted,   \* counters.repairObsoleted
  outcome,     \* status of the last accept()
  queue,       \* the ripple's stack of solved blocks
  block,       \* the block the ripple is working on
  referring,   \* the equations of that block it has not visited yet
  taken        \* history: the symbols accept() has consumed

decoderVars == <<closed, solved, store, pending, equation, dependents, refs,
                 seen, obsoleted>>
rippleVars  == <<queue, block, referring>>
vars        == <<decoderVars, rippleVars, outcome, taken>>

Statuses == {"none", "source-placed", "repair-solved", "repair-pending",
             "duplicate", "redundant", "rejected"}

AtMostOne(S) == \A b, c \in S : b = c

EmptyEquation == [neighbors |-> {}, payload |-> {}]

Idle == queue = <<>> /\ referring = {}

Init ==
  /\ closed = FALSE
  /\ solved = {}
  /\ store = [b \in Blocks |-> {}]
  /\ pending = {}
  /\ equation = [r \in RepairIds |-> EmptyEquation]
  /\ dependents = [b \in Blocks |-> {}]
  /\ refs = 0
  /\ seen = {}
  /\ obsoleted = 0
  /\ outcome = "none"
  /\ queue = <<>>
  /\ block = 0
  /\ referring = {}
  /\ taken = {}
-----------------------------------------------------------------------------
(* accept() *)

\* accept() of a symbol that changes nothing but the answer.
Answer(status) ==
  /\ outcome' = status
  /\ UNCHANGED <<decoderVars, rippleVars, taken>>

\* A released decoder refuses; so does a malformed id or payload length, unless
\* the segment is complete.
Refuse ==
  /\ Idle
  /\ closed \/ solved # Blocks
  /\ Answer("rejected")

\* "Nothing left to learn": a complete segment answers every symbol alike.
AcceptAfterComplete ==
  /\ Idle /\ ~closed
  /\ solved = Blocks
  /\ Answer("duplicate")

Receptive == Idle /\ ~closed /\ solved # Blocks

AcceptSourceDuplicate(b) ==
  /\ Receptive
  /\ b \in solved
  /\ Answer("duplicate")

\* The frame is the block: written into its slot, then the ripple starts.
AcceptSource(b) ==
  /\ Receptive
  /\ b \notin solved
  /\ store' = [store EXCEPT ![b] = SymbolPayload(b)]
  /\ solved' = solved \cup {b}
  /\ queue' = <<b>>
  /\ outcome' = "source-placed"
  /\ taken' = taken \cup {b}
  /\ UNCHANGED <<closed, pending, equation, dependents, refs, seen, obsoleted,
                 block, referring>>

\* (mutant) Trusts the capped id set alone to recognise a pending equation.
KnownFromSeenOnly(r) == r \in seen

Known(r) == r \in seen \/ r \in pending

AcceptRepairDuplicate(r) ==
  /\ Receptive
  /\ Known(r)
  /\ Answer("duplicate")

Saturated == \/ Cardinality(pending) >= MaxPendingEquations
             \/ refs >= MaxPendingNeighborRefs

AcceptRepairSaturated(r) ==
  /\ Receptive
  /\ ~Known(r)
  /\ Saturated
  /\ Answer("rejected")

AcceptRepairInvalid(r) ==
  /\ Receptive
  /\ ~Known(r) /\ ~Saturated
  /\ Neighbors[r] = {}
  /\ Answer("rejected")

\* The common part of a repair symbol that is taken up.
RememberRepairId(r) ==
  seen' = IF Cardinality(seen) < MaxTrackedRepairIds THEN seen \cup {r} ELSE seen

\* XOR of everything the slots of a set of blocks hold (each slot is XORed once).
XorStored(bs) ==
  {c \in Blocks : Cardinality({b \in bs : c \in store[b]}) % 2 = 1}

Residual(r) == Xor(SymbolPayload(r), XorStored(Neighbors[r] \cap solved))
Unknown(r)  == Neighbors[r] \ solved

Equational(r) ==
  /\ Receptive
  /\ ~Known(r) /\ ~Saturated
  /\ Neighbors[r] # {}
  /\ RememberRepairId(r)
  /\ taken' = taken \cup {r}
  /\ UNCHANGED <<closed, obsoleted, block, referring>>

NothingNew(r) == Unknown(r) = {}

AcceptRepairRedundant(r) ==
  /\ Equational(r)
  /\ NothingNew(r)
  /\ outcome' = "redundant"
  /\ UNCHANGED <<solved, store, pending, equation, dependents, refs, queue>>

AcceptRepairSolving(r, b) ==
  /\ Equational(r)
  /\ Unknown(r) = {b}
  /\ store' = [store EXCEPT ![b] = Residual(r)]
  /\ solved' = solved \cup {b}
  /\ queue' = <<b>>
  /\ outcome' = "repair-solved"
  /\ UNCHANGED <<pending, equation, dependents, refs>>

\* storeEquation: the equation, its index entries and its reference count.
AcceptRepairPending(r) ==
  /\ Equational(r)
  /\ ~AtMostOne(Unknown(r))
  /\ pending' = pending \cup {r}
  /\ equation' = [equation EXCEPT ![r] = [neighbors |-> Unknown(r),
                                          payload   |-> Residual(r)]]
  /\ refs' = refs + Cardinality(Unknown(r))
  /\ dependents' = [b \in Blocks |-> IF b \in Unknown(r)
                                       THEN dependents[b] \cup {r}
                                       ELSE dependents[b]]
  /\ outcome' = "repair-pending"
  /\ UNCHANGED <<solved, store, queue>>
-----------------------------------------------------------------------------
(* ripple() *)

\* (mutant) The top of the stack is read and left there.
PoppedPeeking == queue

Popped == SubSeq(queue, 1, Len(queue) - 1)

\* Pop a solved block and take its referring equations off the index.  The loop
\* skips an id that is no longer pending, and drops only what it visits, so the
\* skip can be done here.
RippleTake ==
  /\ queue # <<>> /\ referring = {}
  /\ LET b == queue[Len(queue)]
     IN  /\ queue' = Popped
         /\ block' = b
         /\ referring' = dependents[b] \cap pending
         /\ dependents' = [dependents EXCEPT ![b] = {}]
  /\ UNCHANGED <<closed, solved, store, pending, equation, refs, seen,
                 obsoleted, outcome, taken>>

\* Eliminate the block from one equation: what is left of the equation.
Reduced(e) == [neighbors |-> equation[e].neighbors \ {block},
               payload   |-> Xor(equation[e].payload, store[block])]

Rest(e) == Reduced(e).neighbors

\* Every branch of the visit charges the one reference it removed.
Visiting(e) ==
  /\ e \in referring
  /\ referring' = referring \ {e}
  /\ UNCHANGED <<closed, seen, outcome, taken, block>>

VisitReduced(e) ==
  /\ Visiting(e)
  /\ ~AtMostOne(Rest(e))
  /\ equation' = [equation EXCEPT ![e] = Reduced(e)]
  /\ refs' = refs - 1
  /\ UNCHANGED <<solved, store, pending, dependents, obsoleted, queue>>

\* (mutant) The references an equation still held are not given back.
RefsReleasedOne(e) == 1

RefsReleased(e) == 1 + Cardinality(Rest(e))

\* (mutant) The index entry of the last unknown stays behind.
IndexStale(e) == dependents

IndexWithout(e) == [b \in Blocks |-> IF b \in Rest(e) THEN dependents[b] \ {e}
                                                     ELSE dependents[b]]

\* The equation leaves, with the index entry of the unknown it has left, if any.
DropEquation(e) ==
  /\ pending' = pending \ {e}
  /\ equation' = [equation EXCEPT ![e] = EmptyEquation]
  /\ refs' = refs - RefsReleased(e)
  /\ dependents' = IndexWithout(e)

Spent(e) == AtMostOne(Rest(e)) /\ Rest(e) \subseteq solved

\* It has nothing to say: no unknown is left (which alone counts as obsoleted),
\* or the last one was solved by another equation of the same ripple.
VisitSpent(e) ==
  /\ Visiting(e)
  /\ Spent(e)
  /\ DropEquation(e)
  /\ obsoleted' = IF Rest(e) = {} THEN obsoleted + 1 ELSE obsoleted
  /\ UNCHANGED <<solved, store, queue>>

Rippled(last) == Append(queue, last)

\* It gives its last unknown, which joins the ripple.
VisitSolving(e, last) ==
  /\ Visiting(e)
  /\ Rest(e) = {last} /\ last \notin solved
  /\ DropEquation(e)
  /\ store' = [store EXCEPT ![last] = Reduced(e).payload]
  /\ solved' = solved \cup {last}
  /\ queue' = Rippled(last)
  /\ UNCHANGED obsoleted
-----------------------------------------------------------------------------
\* detach() hands out a complete segment; release() drops the decoder at any
\* time.  Both clear the equations and the memory of ids, and neither may run
\* inside accept().
Close ==
  /\ Idle /\ ~closed
  /\ closed' = TRUE
  /\ pending' = {}
  /\ equation' = [r \in RepairIds |-> EmptyEquation]
  /\ dependents' = [b \in Blocks |-> {}]
  /\ seen' = {}
  /\ refs' = 0
  /\ UNCHANGED <<solved, store, obsoleted, outcome, rippleVars, taken>>

AcceptAny ==
  \/ Refuse
  \/ AcceptAfterComplete
  \/ \E b \in Blocks : AcceptSourceDuplicate(b) \/ AcceptSource(b)
  \/ \E r \in RepairIds :
       \/ AcceptRepairDuplicate(r)
       \/ AcceptRepairSaturated(r)
       \/ AcceptRepairInvalid(r)
       \/ AcceptRepairRedundant(r)
       \/ \E b \in Blocks : AcceptRepairSolving(r, b)
       \/ AcceptRepairPending(r)

RippleVisit ==
  \E e \in referring :
    \/ VisitReduced(e)
    \/ VisitSpent(e)
    \/ \E last \in Blocks : VisitSolving(e, last)

Ripple == RippleTake \/ RippleVisit

Next == AcceptAny \/ Ripple \/ Close

\* ripple() is a loop of synchronous code: once started it runs to its end.
Spec == Init /\ [][Next]_vars /\ WF_vars(Ripple)
-----------------------------------------------------------------------------
(* Properties *)

TypeOK ==
  /\ closed \in BOOLEAN
  /\ solved \subseteq Blocks
  /\ store \in [Blocks -> SUBSET Blocks]
  /\ pending \subseteq RepairIds
  /\ equation \in [RepairIds -> [neighbors : SUBSET Blocks, payload : SUBSET Blocks]]
  /\ dependents \in [Blocks -> SUBSET RepairIds]
  /\ refs \in Int
  /\ seen \subseteq RepairIds
  /\ obsoleted \in Nat
  /\ outcome \in Statuses
  /\ queue \in Seq(Blocks)
  /\ block \in Blocks
  /\ referring \subseteq RepairIds
  /\ taken \subseteq Symbols

\* Every block marked solved holds exactly that block of the file, whatever mix
\* of source frames, eliminations and ripples produced it (acceptSource,
\* solveWith, ripple): a wrong XOR would be a corrupt segment that only the
\* SHA-256 of the whole file would notice, hours later.
StoreSound == \A b \in solved : store[b] = {b}

\* A pending equation stays an equation, in the middle of a ripple too: its
\* payload is the XOR of exactly the unknowns it still names.
EquationSound == \A e \in pending : equation[e].payload = equation[e].neighbors

\* The index names an equation under a block exactly when the equation still
\* names the block, apart from the block whose list the ripple is walking
\* (dependents against pending).  A stale entry XORs a block in twice; a missing
\* one strands an equation for good.
IndexExact ==
  \A b \in Blocks, e \in RepairIds :
    (e \in pending /\ b \in equation[e].neighbors)
      <=> (e \in dependents[b] \/ (b = block /\ e \in referring))

\* The references held: an equation, and a block it names.
References == {p \in pending \X Blocks : p[2] \in equation[p[1]].neighbors}

\* pendingNeighborRefs, kept by hand at five places and compared with a cap on
\* every repair frame, is the number of references really held.
RefsExact == refs = Cardinality(References)

\* "Nothing pending can resolve on its own" (recovery().needsMoreRepair): between
\* calls every pending equation names two blocks or more, and no solved one.
NothingLeftToResolve ==
  Idle => \A e \in pending : /\ ~AtMostOne(equation[e].neighbors)
                             /\ equation[e].neighbors \cap solved = {}

\* Between calls the decoder has recovered exactly what peeling of everything it
\* took would give, in whatever order it arrived: no block is stranded behind a
\* ripple that stopped early.
RecoversAllThatPeels == (Idle /\ ~closed) => solved = Solvable(taken)

\* Once the id budget is spent a repair symbol can be taken a second time.  That
\* costs nothing but work (rememberRepairId: suppression is "an optimisation, not
\* a correctness requirement"): a symbol that was taken and is no longer pending
\* names solved blocks only, so its second copy eliminates to nothing.
ForgottenRepairsCarryNothing ==
  (Idle /\ ~closed) =>
     \A r \in (taken \cap RepairIds) \ pending : Neighbors[r] \subseteq solved

\* Blocks and equations are right and no equation waits for a block that is
\* known: the algebra of the segment, whatever order its symbols came in.
EquationsSound ==
  StoreSound /\ EquationSound /\ IndexExact /\ NothingLeftToResolve

\* The caps cost repair symbols and nothing else: the count one of them is held
\* against is exact, a symbol forgotten for another carries nothing new, and
\* what was taken is peeled to the end.
CapsCostNothingElse ==
  RefsExact /\ ForgottenRepairsCarryNothing /\ RecoversAllThatPeels

\* A ripple that has started runs out of work, so accept() returns.
RippleEnds == ~Idle ~> Idle
-----------------------------------------------------------------------------
\* The decoder implements what SegmentRecovery promises: a ripple is internal,
\* its result decided when the symbol that started it was accepted.
Promise == INSTANCE SegmentRecovery WITH
             recovered <- IF Idle THEN solved ELSE Solvable(taken),
             open <- ~closed

\* Each answer and each recovered set is the one SegmentRecovery allows, so
\* neither the order of symbols nor the way the equations are kept shows.
KeepsPromise == Promise!Spec
=============================================================================
