----------------------- MODULE OpfsSegmentStoreProofs -----------------------
(***************************************************************************)
(* What is true of the segment store for every set of transfers and of     *)
(* segments and any number of sessions and crashes, in three parts.        *)
(*                                                                         *)
(* 1. A session that is over holds nothing, whether sessions overlap or    *)
(*    not.  LocksInv says who may still be running with what is held.      *)
(*                                                                         *)
(* 2. Of sessions that take turns (InTurn) and resume: no crash, and no    *)
(*    failure of the device, leaves a checkpoint that claims a segment the *)
(*    device does not hold.  CheckpointSound is not inductive: a           *)
(*    checkpoint in flight may land, so what it claims must be on the      *)
(*    device; a store may be asked for another, so what it counts must be; *)
(*    and another store may have the file, so there must not be one.       *)
(*    SessionInv is the conjunction.  The code does not enforce InTurn, it *)
(*    says that it holds in practice (receive-worker-core.ts:173), and     *)
(*    sessions that do overlap in one directory break it.                  *)
(*                                                                         *)
(* 3. Of the same sessions: each ends as it was told to, and no resume     *)
(*    point goes back.  That a file handed over is whole needs the         *)
(*    directory and the file from the moment verify() has them, that a     *)
(*    discarded one is gone needs to know which policy the end in progress *)
(*    was given, and that no checkpoint goes back needs the order of those *)
(*    in flight: EndsInv, beside SessionInv.                               *)
(***************************************************************************)
EXTENDS OpfsSegmentStore, TLAPS

\* No checkpoint write of the store is in flight.
Idle(s) == \A r \in Roles : writer[s][r].phase = "no"
-----------------------------------------------------------------------------
(* What a store holds: of any sessions, that overlap or not                 *)

\* Between a store's locks and what of it is running: a store not open has nothing of
\* verify() or dispose(), release() has closed the handle before dispose() is asked for,
\* the sink is held only while verify() is at work, and a checkpoint write belongs to
\* open(), seal() or dispose().
HandlesInv(s) ==
  /\ pc[s] # "open" => ending[s] = "no" /\ ver[s] = "no" /\ ~closed[s] /\ ~sink[s]
  /\ ~Opened(s) => ~handle[s]
  /\ pc[s] \notin {"persisting", "open"} => Idle(s)
  /\ pc[s] \notin {"unused", "dead"} => plan[s] \in Plans
  /\ ending[s] # "no" => closed[s]
  /\ closed[s] => ~handle[s]
  /\ sink[s] => ver[s] \in {"inflating", "hashing", "settling", "sealing"}
  /\ writer[s]["seal"].phase # "no" => ver[s] = "sealing"
  /\ writer[s]["end"].phase # "no" => ending[s] # "no"

LocksInv == TypeOK /\ \A s \in Stores : HandlesInv(s)

\* What one write in flight may be.
OneWrite == [phase : {"no", "begun", "open"}, bits : SUBSET Segments]

LEMMA LocksInit == Init => LocksInv
<1>1. SUFFICES ASSUME Init PROVE LocksInv
  OBVIOUS
<1>2. TypeOK
  BY <1>1, StoreAssumption
     DEF Init, TypeOK, All, NoFile, Absent, NotWriting, Files, Cells, Checkpoints, Roles
<1>3. ASSUME NEW s \in Stores
      PROVE  HandlesInv(s)
  BY <1>1 DEF Init, All, HandlesInv, Opened, Idle, NotWriting, Roles
<1> QED BY <1>2, <1>3 DEF LocksInv

\* release() of one store.
LEMMA ReleaseOfOne ==
  ASSUME TypeOK, NEW s \in Stores, Release({s})
  PROVE  /\ closed' \in [Stores -> BOOLEAN] /\ handle' \in [Stores -> BOOLEAN]
         /\ closed'[s] /\ ~handle'[s]
         /\ \A t \in Stores : t # s => closed'[t] = closed[t] /\ handle'[t] = handle[t]
BY DEF TypeOK, Release

\* A dispose() that was asked for, of a store that is open.
LEMMA DiscardOfOne ==
  ASSUME TypeOK, NEW s \in Stores, DiscardWorkingData(s)
  PROVE  /\ closed' \in [Stores -> BOOLEAN] /\ handle' \in [Stores -> BOOLEAN]
         /\ closed'[s] /\ ~handle'[s]
         /\ ending' \in [Stores -> {"no", "settling", "recording", "removing", "done"}]
         /\ policy' \in [Stores -> {"discard", "retain"}] /\ again' \in [Stores -> BOOLEAN]
         /\ ending'[s] # "no"
         /\ \A t \in Stores : t # s => /\ closed'[t] = closed[t] /\ handle'[t] = handle[t]
                                       /\ ending'[t] = ending[t]
<1>1. /\ closed' \in [Stores -> BOOLEAN] /\ handle' \in [Stores -> BOOLEAN]
      /\ closed'[s] /\ ~handle'[s]
      /\ \A t \in Stores : t # s => closed'[t] = closed[t] /\ handle'[t] = handle[t]
  BY ReleaseOfOne DEF DiscardWorkingData
<1>2. CASE ending[s] \in {"no", "done"}
  <2>1. /\ ending' = [ending EXCEPT ![s] = "settling"]
        /\ policy' = [policy EXCEPT ![s] = "discard"] /\ again' = again
    BY <1>2 DEF DiscardWorkingData
  <2>2. /\ ending' \in [Stores -> {"no", "settling", "recording", "removing", "done"}]
        /\ policy' \in [Stores -> {"discard", "retain"}] /\ again' \in [Stores -> BOOLEAN]
        /\ ending'[s] # "no" /\ \A t \in Stores : t # s => ending'[t] = ending[t]
    BY <2>1 DEF TypeOK
  <2> QED BY <1>1, <2>2
<1>3. CASE ending[s] \notin {"no", "done"}
  <2>1. ending' = ending /\ policy' = policy /\ again' = [again EXCEPT ![s] = TRUE]
    BY <1>3 DEF DiscardWorkingData
  <2> QED BY <1>1, <1>3, <2>1 DEF TypeOK
<1> QED BY <1>2, <1>3

\* dispose() is over or starts again, in either case asked for.
LEMMA DisposedOfOne ==
  ASSUME TypeOK, NEW s \in Stores, Disposed(s)
  PROVE  /\ ending' \in [Stores -> {"no", "settling", "recording", "removing", "done"}]
         /\ policy' \in [Stores -> {"discard", "retain"}] /\ again' \in [Stores -> BOOLEAN]
         /\ ending'[s] # "no"
         /\ \A t \in Stores : t # s => ending'[t] = ending[t]
<1>1. CASE again[s]
  <2>1. /\ ending' = [ending EXCEPT ![s] = "settling"]
        /\ policy' = [policy EXCEPT ![s] = "discard"]
        /\ again' = [again EXCEPT ![s] = FALSE]
    BY <1>1 DEF Disposed
  <2> QED BY <2>1 DEF TypeOK
<1>2. CASE ~again[s]
  BY <1>2 DEF Disposed, TypeOK
<1> QED BY <1>1, <1>2

\* A directory removed leaves no file, one that is held leaves all as it was.
LEMMA RemovedOrNot ==
  ASSUME TypeOK, RemoveDirectory
  PROVE  there' \in BOOLEAN /\ file' \in Files /\ stable' \in Files /\ ckpt' \in Checkpoints
<1>1. NoFile \in Files /\ Absent \in Checkpoints
  BY DEF NoFile, Absent, Files, Cells, Checkpoints
<1>2. UNCHANGED disk \/ (there' = FALSE /\ file' = NoFile /\ stable' = NoFile /\ ckpt' = Absent)
  BY DEF RemoveDirectory
<1> QED BY <1>1, <1>2 DEF disk, TypeOK

LEMMA OpenLocks ==
  ASSUME LocksInv, NEW s \in Stores, Open(s)
  PROVE  LocksInv'
<1> USE DEF disk, opening, holding, verify, ends
<1>0. TypeOK /\ \A t \in Stores : HandlesInv(t)
  BY DEF LocksInv
<1>1. TypeOK'
  BY <1>0, StoreAssumption DEF Open, HandlesInv, TypeOK, Files, Cells, Checkpoints, Roles
<1>2. ASSUME NEW t \in Stores
      PROVE  HandlesInv(t)'
  BY <1>0 DEF Open, HandlesInv, TypeOK, Opened, Idle, Roles
<1> QED BY <1>1, <1>2 DEF LocksInv

LEMMA AbandonLocks ==
  ASSUME LocksInv, NEW s \in Stores, Abandon(s)
  PROVE  LocksInv'
<1> USE DEF disk, opening, holding, verify, ends
<1>0. TypeOK /\ \A t \in Stores : HandlesInv(t)
  BY DEF LocksInv
<1>1. TypeOK'
  BY <1>0, StoreAssumption DEF Abandon, HandlesInv, TypeOK, Files, Cells, Checkpoints, Roles
<1>2. ASSUME NEW t \in Stores
      PROVE  HandlesInv(t)'
  BY <1>0 DEF Abandon, HandlesInv, TypeOK, Opened, Idle, Roles
<1> QED BY <1>1, <1>2 DEF LocksInv

LEMMA ReadCheckpointLocks ==
  ASSUME LocksInv, NEW s \in Stores, ReadCheckpoint(s)
  PROVE  LocksInv'
<1> USE DEF disk, opening, holding, verify, ends
<1>0. TypeOK /\ \A t \in Stores : HandlesInv(t)
  BY DEF LocksInv
<1>1. TypeOK'
  BY <1>0, StoreAssumption DEF ReadCheckpoint, Matches, HandlesInv, TypeOK, Files, Cells, Checkpoints, Roles
<1>2. ASSUME NEW t \in Stores
      PROVE  HandlesInv(t)'
  BY <1>0 DEF ReadCheckpoint, Matches, HandlesInv, TypeOK, Opened, Idle, Roles
<1> QED BY <1>1, <1>2 DEF LocksInv

LEMMA ClearLocks ==
  ASSUME LocksInv, NEW s \in Stores, Clear(s)
  PROVE  LocksInv'
<1> USE DEF disk, opening, holding, verify, ends
<1>0. TypeOK /\ \A t \in Stores : HandlesInv(t)
  BY DEF LocksInv
<1>1. TypeOK'
  BY <1>0, StoreAssumption, RemovedOrNot DEF Clear, HandlesInv, TypeOK, Files, Cells, Checkpoints, Roles
<1>2. ASSUME NEW t \in Stores
      PROVE  HandlesInv(t)'
  BY <1>0, RemovedOrNot DEF Clear, HandlesInv, TypeOK, Opened, Idle, Roles
<1> QED BY <1>1, <1>2 DEF LocksInv

LEMMA CreateFailsLocks ==
  ASSUME LocksInv, NEW s \in Stores, CreateFails(s)
  PROVE  LocksInv'
<1> USE DEF disk, opening, holding, verify, ends
<1>0. TypeOK /\ \A t \in Stores : HandlesInv(t)
  BY DEF LocksInv
<1>1. TypeOK'
  BY <1>0, StoreAssumption DEF CreateFails, NoFile, HandlesInv, TypeOK, Files, Cells, Checkpoints, Roles
<1>2. ASSUME NEW t \in Stores
      PROVE  HandlesInv(t)'
  BY <1>0 DEF CreateFails, NoFile, HandlesInv, TypeOK, Opened, Idle, Roles
<1> QED BY <1>1, <1>2 DEF LocksInv

LEMMA CreateMismatchLocks ==
  ASSUME LocksInv, NEW s \in Stores, CreateMismatch(s)
  PROVE  LocksInv'
<1> USE DEF disk, opening, holding, verify, ends
<1>0. TypeOK /\ \A t \in Stores : HandlesInv(t)
  BY DEF LocksInv
<1>1. TypeOK'
  BY <1>0, StoreAssumption DEF CreateMismatch, LengthRight, HandlesInv, TypeOK, Files, Cells, Checkpoints, Roles
<1>2. ASSUME NEW t \in Stores
      PROVE  HandlesInv(t)'
  BY <1>0 DEF CreateMismatch, LengthRight, HandlesInv, TypeOK, Opened, Idle, Roles
<1> QED BY <1>1, <1>2 DEF LocksInv

LEMMA ReserveFailsLocks ==
  ASSUME LocksInv, NEW s \in Stores, ReserveFails(s)
  PROVE  LocksInv'
<1> USE DEF disk, opening, holding, verify, ends
<1>0. TypeOK /\ \A t \in Stores : HandlesInv(t)
  BY DEF LocksInv
<1>1. TypeOK'
  BY <1>0, StoreAssumption DEF ReserveFails, HandlesInv, TypeOK, Files, Cells, Checkpoints, Roles
<1>2. ASSUME NEW t \in Stores
      PROVE  HandlesInv(t)'
  BY <1>0 DEF ReserveFails, HandlesInv, TypeOK, Opened, Idle, Roles
<1> QED BY <1>1, <1>2 DEF LocksInv

LEMMA VerifyLocks ==
  ASSUME LocksInv, NEW s \in Stores, Verify(s)
  PROVE  LocksInv'
<1> USE DEF disk, opening, holding, verify, ends
<1>0. TypeOK /\ \A t \in Stores : HandlesInv(t)
  BY DEF LocksInv
<1>1. TypeOK'
  BY <1>0, StoreAssumption DEF Verify, HandlesInv, TypeOK, Files, Cells, Checkpoints, Roles
<1>2. ASSUME NEW t \in Stores
      PROVE  HandlesInv(t)'
  BY <1>0 DEF Verify, HandlesInv, TypeOK, Opened, Idle, Roles
<1> QED BY <1>1, <1>2 DEF LocksInv

LEMMA OpenSinkLocks ==
  ASSUME LocksInv, NEW s \in Stores, OpenSink(s)
  PROVE  LocksInv'
<1> USE DEF disk, opening, holding, verify, ends
<1>0. TypeOK /\ \A t \in Stores : HandlesInv(t)
  BY DEF LocksInv
<1>1. TypeOK'
  BY <1>0, StoreAssumption DEF OpenSink, HandlesInv, TypeOK, Files, Cells, Checkpoints, Roles
<1>2. ASSUME NEW t \in Stores
      PROVE  HandlesInv(t)'
  BY <1>0 DEF OpenSink, HandlesInv, TypeOK, Opened, Idle, Roles
<1> QED BY <1>1, <1>2 DEF LocksInv

LEMMA OpenSinkFailsLocks ==
  ASSUME LocksInv, NEW s \in Stores, OpenSinkFails(s)
  PROVE  LocksInv'
<1> USE DEF disk, opening, holding, verify, ends
<1>0. TypeOK /\ \A t \in Stores : HandlesInv(t)
  BY DEF LocksInv
<1>1. TypeOK'
  BY <1>0, StoreAssumption DEF OpenSinkFails, HandlesInv, TypeOK, Files, Cells, Checkpoints, Roles
<1>2. ASSUME NEW t \in Stores
      PROVE  HandlesInv(t)'
  BY <1>0 DEF OpenSinkFails, HandlesInv, TypeOK, Opened, Idle, Roles
<1> QED BY <1>1, <1>2 DEF LocksInv

LEMMA InflateLocks ==
  ASSUME LocksInv, NEW s \in Stores, Inflate(s)
  PROVE  LocksInv'
<1> USE DEF disk, opening, holding, verify, ends
<1>0. TypeOK /\ \A t \in Stores : HandlesInv(t)
  BY DEF LocksInv
<1>1. TypeOK'
  BY <1>0, StoreAssumption DEF Inflate, HandlesInv, TypeOK, Files, Cells, Checkpoints, Roles
<1>2. ASSUME NEW t \in Stores
      PROVE  HandlesInv(t)'
  BY <1>0 DEF Inflate, HandlesInv, TypeOK, Opened, Idle, Roles
<1> QED BY <1>1, <1>2 DEF LocksInv

LEMMA InflateFailsLocks ==
  ASSUME LocksInv, NEW s \in Stores, InflateFails(s)
  PROVE  LocksInv'
<1> USE DEF disk, opening, holding, verify, ends
<1>0. TypeOK /\ \A t \in Stores : HandlesInv(t)
  BY DEF LocksInv
<1>1. TypeOK'
  BY <1>0, StoreAssumption, DiscardOfOne DEF InflateFails, HandlesInv, TypeOK, Files, Cells, Checkpoints, Roles
<1>2. ASSUME NEW t \in Stores
      PROVE  HandlesInv(t)'
  BY <1>0, DiscardOfOne DEF InflateFails, HandlesInv, TypeOK, Opened, Idle, Roles
<1> QED BY <1>1, <1>2 DEF LocksInv

LEMMA HashGivesUpLocks ==
  ASSUME LocksInv, NEW s \in Stores, HashGivesUp(s)
  PROVE  LocksInv'
<1> USE DEF disk, opening, holding, verify, ends
<1>0. TypeOK /\ \A t \in Stores : HandlesInv(t)
  BY DEF LocksInv
<1>1. TypeOK'
  BY <1>0, StoreAssumption DEF HashGivesUp, HandlesInv, TypeOK, Files, Cells, Checkpoints, Roles
<1>2. ASSUME NEW t \in Stores
      PROVE  HandlesInv(t)'
  BY <1>0 DEF HashGivesUp, HandlesInv, TypeOK, Opened, Idle, Roles
<1> QED BY <1>1, <1>2 DEF LocksInv

LEMMA HashMismatchLocks ==
  ASSUME LocksInv, NEW s \in Stores, HashMismatch(s)
  PROVE  LocksInv'
<1> USE DEF disk, opening, holding, verify, ends
<1>0. TypeOK /\ \A t \in Stores : HandlesInv(t)
  BY DEF LocksInv
<1>1. TypeOK'
  BY <1>0, StoreAssumption, DiscardOfOne DEF HashMismatch, HandlesInv, TypeOK, Files, Cells, Checkpoints, Roles
<1>2. ASSUME NEW t \in Stores
      PROVE  HandlesInv(t)'
  BY <1>0, DiscardOfOne DEF HashMismatch, HandlesInv, TypeOK, Opened, Idle, Roles
<1> QED BY <1>1, <1>2 DEF LocksInv

LEMMA SealLocks ==
  ASSUME LocksInv, NEW s \in Stores, Seal(s)
  PROVE  LocksInv'
<1> USE DEF disk, opening, holding, verify, ends
<1>0. TypeOK /\ \A t \in Stores : HandlesInv(t)
  BY DEF LocksInv
<1>1. TypeOK'
  BY <1>0, StoreAssumption DEF Seal, HandlesInv, TypeOK, Files, Cells, Checkpoints, Roles
<1>2. ASSUME NEW t \in Stores
      PROVE  HandlesInv(t)'
  BY <1>0 DEF Seal, HandlesInv, TypeOK, Opened, Idle, Roles
<1> QED BY <1>1, <1>2 DEF LocksInv

LEMMA EndLocks ==
  ASSUME LocksInv, NEW s \in Stores, End(s)
  PROVE  LocksInv'
<1> USE DEF disk, opening, holding, verify, ends
<1>0. TypeOK /\ \A t \in Stores : HandlesInv(t)
  BY DEF LocksInv
<1>1. TypeOK'
  BY <1>0, StoreAssumption, ReleaseOfOne DEF End, HandlesInv, TypeOK, Files, Cells, Checkpoints, Roles
<1>2. ASSUME NEW t \in Stores
      PROVE  HandlesInv(t)'
  BY <1>0, ReleaseOfOne DEF End, HandlesInv, TypeOK, Opened, Idle, Roles
<1> QED BY <1>1, <1>2 DEF LocksInv

LEMMA RemoveLocks ==
  ASSUME LocksInv, NEW s \in Stores, Remove(s)
  PROVE  LocksInv'
<1> USE DEF disk, opening, holding, verify, ends
<1>0. TypeOK /\ \A t \in Stores : HandlesInv(t)
  BY DEF LocksInv
<1>1. TypeOK'
  BY <1>0, StoreAssumption, DisposedOfOne, RemovedOrNot DEF Remove, HandlesInv, TypeOK, Files, Cells, Checkpoints, Roles
<1>2. ASSUME NEW t \in Stores
      PROVE  HandlesInv(t)'
  BY <1>0, DisposedOfOne, RemovedOrNot DEF Remove, HandlesInv, TypeOK, Opened, Idle, Roles
<1> QED BY <1>1, <1>2 DEF LocksInv

LEMMA CreateLocks ==
  ASSUME LocksInv, NEW s \in Stores, Create(s)
  PROVE  LocksInv'
<1> USE DEF disk, opening, holding, verify, ends
<1>0. TypeOK /\ (\A t \in Stores : HandlesInv(t)) /\ "progress" \in Roles
  BY DEF LocksInv, Roles
<1>t. writer \in [Stores -> [Roles -> OneWrite]]
  BY <1>0 DEF TypeOK, OneWrite
<1>1. /\ writer' \in [Stores -> [Roles -> OneWrite]]
      /\ pc'[s] \in {"reserving", "persisting"} /\ (pc'[s] = "reserving" => writer' = writer)
      /\ \A r \in Roles : r # "progress" => writer'[s][r] = writer[s][r]
      /\ \A t \in Stores : t # s => writer'[t] = writer[t] /\ pc'[t] = pc[t]
      /\ pc' \in [Stores -> {"unused", "reading", "clearing", "creating", "reserving",
                             "persisting", "open", "failed", "dead"}]
  <2>1. CASE plan[s] \in Compressed
    BY <1>0, <2>1 DEF Create, TypeOK, OneWrite
  <2>2. CASE plan[s] \notin Compressed
    <3>1. /\ writer' = [writer EXCEPT ![s]["progress"] = [phase |-> "begun", bits |-> bits[s]]]
          /\ pc' = [pc EXCEPT ![s] = "persisting"]
      BY <2>2 DEF Create, FirstCheckpoint, Begun
    <3>2. [phase |-> "begun", bits |-> bits[s]] \in OneWrite
      BY <1>0 DEF OneWrite, TypeOK
    <3>3. /\ writer' \in [Stores -> [Roles -> OneWrite]]
          /\ \A r \in Roles : r # "progress" => writer'[s][r] = writer[s][r]
          /\ \A t \in Stores : t # s => writer'[t] = writer[t]
      BY <1>t, <3>1, <3>2
    <3> QED BY <1>0, <3>1, <3>3 DEF TypeOK
  <2> QED BY <2>1, <2>2
<1>2. file' \in Files
  BY <1>0, StoreAssumption DEF Create, Presized, HandlesInv, TypeOK, Files, Cells
<1>3. handle' \in [Stores -> BOOLEAN] /\ \A t \in Stores : t # s => handle'[t] = handle[t]
  BY <1>0 DEF Create, TypeOK
<1>4. TypeOK'
  BY <1>0, <1>1, <1>2, <1>3 DEF Create, TypeOK, OneWrite
<1>5. ASSUME NEW t \in Stores
      PROVE  HandlesInv(t)'
  <2>1. CASE t = s
    BY <1>0, <1>1, <2>1 DEF Create, HandlesInv, Opened, Idle, Roles
  <2>2. CASE t # s
    BY <1>0, <1>1, <1>3, <2>2 DEF Create, HandlesInv, Opened, Idle
  <2> QED BY <2>1, <2>2
<1> QED BY <1>4, <1>5 DEF LocksInv

LEMMA ReserveLocks ==
  ASSUME LocksInv, NEW s \in Stores, Reserve(s)
  PROVE  LocksInv'
<1> USE DEF disk, opening, holding, verify, ends
<1>0. TypeOK /\ (\A t \in Stores : HandlesInv(t)) /\ "progress" \in Roles
  BY DEF LocksInv, Roles
<1>t. writer \in [Stores -> [Roles -> OneWrite]]
  BY <1>0 DEF TypeOK, OneWrite
<1>1. Begun(s) \in OneWrite
  BY <1>0 DEF Begun, OneWrite, TypeOK
<1>2. /\ writer' \in [Stores -> [Roles -> OneWrite]]
      /\ \A r \in Roles : r # "progress" => writer'[s][r] = writer[s][r]
      /\ \A t \in Stores : t # s => writer'[t] = writer[t]
  <2>1. writer' = [writer EXCEPT ![s]["progress"] = Begun(s)]
    BY DEF Reserve, FirstCheckpoint
  <2> QED BY <1>t, <1>1, <2>1
<1>3. TypeOK'
  BY <1>0, <1>2 DEF Reserve, TypeOK, OneWrite
<1>4. ASSUME NEW t \in Stores
      PROVE  HandlesInv(t)'
  BY <1>0, <1>2 DEF Reserve, HandlesInv, TypeOK, Opened, Idle, Roles
<1> QED BY <1>3, <1>4 DEF LocksInv

LEMMA SealCheckpointLocks ==
  ASSUME LocksInv, NEW s \in Stores, SealCheckpoint(s)
  PROVE  LocksInv'
<1> USE DEF disk, opening, holding, verify, ends
<1>0. TypeOK /\ (\A t \in Stores : HandlesInv(t)) /\ "seal" \in Roles
  BY DEF LocksInv, Roles
<1>t. writer \in [Stores -> [Roles -> OneWrite]]
  BY <1>0 DEF TypeOK, OneWrite
<1>1. Begun(s) \in OneWrite
  BY <1>0 DEF Begun, OneWrite, TypeOK
<1>2. /\ writer' \in [Stores -> [Roles -> OneWrite]]
      /\ \A r \in Roles : r # "seal" => writer'[s][r] = writer[s][r]
      /\ \A t \in Stores : t # s => writer'[t] = writer[t]
  <2>1. writer' = [writer EXCEPT ![s]["seal"] = Begun(s)]
    BY DEF SealCheckpoint
  <2> QED BY <1>t, <1>1, <2>1
<1>3. TypeOK'
  BY <1>0, <1>2 DEF SealCheckpoint, TypeOK, OneWrite
<1>4. ASSUME NEW t \in Stores
      PROVE  HandlesInv(t)'
  BY <1>0, <1>2 DEF SealCheckpoint, HandlesInv, TypeOK, Opened, Idle, Roles
<1> QED BY <1>3, <1>4 DEF LocksInv

LEMMA DisposeLocks ==
  ASSUME LocksInv, NEW s \in Stores, Dispose(s)
  PROVE  LocksInv'
<1> USE DEF disk, opening, holding, verify, ends
<1>0. TypeOK /\ (\A t \in Stores : HandlesInv(t)) /\ "end" \in Roles
  BY DEF LocksInv, Roles
<1>t. writer \in [Stores -> [Roles -> OneWrite]]
  BY <1>0 DEF TypeOK, OneWrite
<1>1. Begun(s) \in OneWrite
  BY <1>0 DEF Begun, OneWrite, TypeOK
<1>2. /\ writer' \in [Stores -> [Roles -> OneWrite]]
      /\ \A r \in Roles : r # "end" => writer'[s][r] = writer[s][r]
      /\ \A t \in Stores : t # s => writer'[t] = writer[t]
  <2>1. CASE KeepsDirectory(s)
    BY <1>t, <1>1, <2>1 DEF Dispose
  <2>2. CASE ~KeepsDirectory(s)
    BY <1>0, <2>2 DEF Dispose, TypeOK, OneWrite
  <2> QED BY <2>1, <2>2
<1>3. /\ ending' \in [Stores -> {"no", "settling", "recording", "removing", "done"}]
      /\ ending'[s] # "no" /\ \A t \in Stores : t # s => ending'[t] = ending[t]
  BY <1>0 DEF Dispose, TypeOK
<1>4. TypeOK'
  BY <1>0, <1>2, <1>3 DEF Dispose, TypeOK, OneWrite
<1>5. ASSUME NEW t \in Stores
      PROVE  HandlesInv(t)'
  BY <1>0, <1>2, <1>3 DEF Dispose, HandlesInv, Opened, Idle, Roles
<1> QED BY <1>4, <1>5 DEF LocksInv

LEMMA WriterOpensLocks ==
  ASSUME LocksInv, NEW s \in Stores, NEW r \in Roles, WriterOpens(s, r)
  PROVE  LocksInv'
<1> USE DEF disk, opening, holding, verify, ends
<1>0. TypeOK /\ (\A t \in Stores : HandlesInv(t))
  BY DEF LocksInv
<1>t. writer \in [Stores -> [Roles -> OneWrite]]
  BY <1>0 DEF TypeOK, OneWrite
<1>1. TypeOK /\ writer[s] \in [Roles -> OneWrite]
  BY <1>0 DEF TypeOK, OneWrite
<1> DEFINE v == [writer[s][r] EXCEPT !.phase = "open"]
           ws == [writer[s] EXCEPT ![r] = v]
<1>2. writer' = [writer EXCEPT ![s] = ws]
  BY DEF WriterOpens
<1>3. /\ writer' \in [Stores -> [Roles -> OneWrite]]
      /\ \A q \in Roles : q # r => writer'[s][q] = writer[s][q]
      /\ \A t \in Stores : t # s => writer'[t] = writer[t]
  <2>1. v \in [phase : {"no", "begun", "open"}, bits : SUBSET Segments]
    BY <1>1 DEF OneWrite
  <2>2. ws \in [Roles -> OneWrite] /\ \A q \in Roles : q # r => ws[q] = writer[s][q]
    BY <1>1, <2>1 DEF OneWrite
  <2> HIDE DEF ws
  <2> QED BY <1>1, <1>2, <2>2 DEF TypeOK, OneWrite
<1>4. ckpt' \in Checkpoints
  BY <1>0 DEF WriterOpens, TypeOK, Unreadable, Checkpoints
<1>5. TypeOK'
  BY <1>0, <1>3, <1>4 DEF WriterOpens, TypeOK, OneWrite
<1>6. ASSUME NEW t \in Stores
      PROVE  HandlesInv(t)'
  BY <1>0, <1>3 DEF WriterOpens, HandlesInv, Opened, Idle, Roles
<1> QED BY <1>5, <1>6 DEF LocksInv

\* The three things that may follow a checkpoint write.
LEMMA WriteOverLocks ==
  ASSUME LocksInv, NEW s \in Stores, NEW r \in Roles, WriteOver(s, r),
         writer[s][r].phase # "no", ckpt' \in Checkpoints
  PROVE  LocksInv'
<1> USE DEF disk, opening, holding, verify, ends
<1>0. /\ TypeOK /\ (\A t \in Stores : HandlesInv(t))
      /\ UNCHANGED <<there, file, stable, plan, adopts, stale, bits, sealed, crashes>>
  BY DEF LocksInv, WriteOver
<1>t. writer \in [Stores -> [Roles -> OneWrite]]
  BY <1>0 DEF TypeOK, OneWrite
<1>1. NotWriting \in OneWrite /\ Begun(s) \in OneWrite /\ NotWriting.phase = "no"
  BY <1>0 DEF NotWriting, Begun, OneWrite, TypeOK
<1>2. pc[s] \in {"persisting", "open"} /\ plan[s] \in Plans
  BY <1>0 DEF HandlesInv, Idle
<1>3. ASSUME r = "progress", pc[s] = "persisting"
      PROVE  LocksInv'
  <2>1. /\ pc' = [pc EXCEPT ![s] = "open"]
        /\ writer' = [writer EXCEPT ![s]["progress"] = NotWriting]
        /\ UNCHANGED <<dirty, ver, sink, policy, again>>
    BY <1>3 DEF WriteOver, AfterProgress
  <2>2. /\ closed' \in [Stores -> BOOLEAN] /\ handle' \in [Stores -> BOOLEAN]
        /\ ending' \in [Stores -> {"no", "settling", "recording", "removing", "done"}]
        /\ ending'[s] # "no" => closed'[s]
        /\ closed'[s] => ~handle'[s]
        /\ ending[s] # "no" => ending'[s] # "no"
        /\ \A t \in Stores : t # s => /\ closed'[t] = closed[t] /\ handle'[t] = handle[t]
                                      /\ ending'[t] = ending[t]
    <3>1. CASE stale[s]
      <4>1. Release({s}) /\ ending' = [ending EXCEPT ![s] = "settling"]
        BY <1>3, <3>1 DEF WriteOver, AfterProgress
      <4>2. /\ closed' \in [Stores -> BOOLEAN] /\ handle' \in [Stores -> BOOLEAN]
            /\ closed'[s] /\ ~handle'[s]
            /\ \A t \in Stores : t # s => closed'[t] = closed[t] /\ handle'[t] = handle[t]
        BY <1>0, <4>1, ReleaseOfOne
      <4> QED BY <1>0, <4>1, <4>2 DEF TypeOK
    <3>2. CASE ~stale[s]
      <4>1. UNCHANGED <<closed, handle, ending>>
        BY <1>3, <3>2 DEF WriteOver, AfterProgress
      <4> QED BY <1>0, <4>1 DEF TypeOK, HandlesInv
    <3> QED BY <3>1, <3>2
  <2>3. /\ writer' \in [Stores -> [Roles -> OneWrite]]
        /\ \A q \in Roles : q # "progress" => writer'[s][q] = writer[s][q]
        /\ \A t \in Stores : t # s => writer'[t] = writer[t]
    <3>1. "progress" \in Roles
      BY DEF Roles
    <3> QED BY <1>t, <1>1, <2>1, <3>1
  <2>4. TypeOK'
    BY <1>0, <2>1, <2>2, <2>3 DEF TypeOK, OneWrite
  <2>5. ASSUME NEW t \in Stores
        PROVE  HandlesInv(t)'
    BY <1>0, <1>2, <2>1, <2>2, <2>3 DEF HandlesInv, TypeOK, Opened, Idle, Roles
  <2> QED BY <2>4, <2>5 DEF LocksInv
<1>4. ASSUME r = "progress", pc[s] = "open"
      PROVE  LocksInv'
  <2>1. PICK v \in {NotWriting, Begun(s)} : writer' = [writer EXCEPT ![s]["progress"] = v]
    BY <1>4 DEF WriteOver, AfterProgress
  <2>2. /\ UNCHANGED <<pc, closed, handle, ending, ver, sink, policy, again>>
        /\ dirty' \in {dirty, [dirty EXCEPT ![s] = FALSE]}
    BY <1>4 DEF WriteOver, AfterProgress
  <2>3. /\ writer' \in [Stores -> [Roles -> OneWrite]]
        /\ \A q \in Roles : q # "progress" => writer'[s][q] = writer[s][q]
        /\ \A t \in Stores : t # s => writer'[t] = writer[t]
    <3>1. /\ "progress" \in Roles
          /\ v \in OneWrite
      BY <1>1, <2>1 DEF Roles
    <3> QED BY <1>t, <2>1, <3>1
  <2>4. dirty' \in [Stores -> BOOLEAN]
    BY <1>0, <2>2 DEF TypeOK
  <2>5. TypeOK'
    BY <1>0, <2>2, <2>3, <2>4 DEF TypeOK, OneWrite
  <2>6. ASSUME NEW t \in Stores
        PROVE  HandlesInv(t)'
    BY <1>0, <1>4, <2>2, <2>3 DEF HandlesInv, Opened, Idle, Roles
  <2> QED BY <2>5, <2>6 DEF LocksInv
<1>5. ASSUME r = "seal"
      PROVE  LocksInv'
  <2>1. AfterSeal(s) /\ pc[s] = "open"
    BY <1>0, <1>2, <1>5 DEF WriteOver, HandlesInv
  <2>2. /\ writer' \in [Stores -> [Roles -> OneWrite]] /\ writer'[s]["seal"] = NotWriting
        /\ \A q \in Roles : q # "seal" => writer'[s][q] = writer[s][q]
        /\ \A t \in Stores : t # s => writer'[t] = writer[t]
    <3>1. "seal" \in Roles /\ writer' = [writer EXCEPT ![s]["seal"] = NotWriting]
      BY <2>1 DEF Roles, AfterSeal
    <3> QED BY <1>t, <1>1, <3>1
  <2>3. TypeOK'
    BY <1>0, <2>1, <2>2 DEF AfterSeal, TypeOK, OneWrite
  <2>4. ASSUME NEW t \in Stores
        PROVE  HandlesInv(t)'
    BY <1>0, <1>1, <2>1, <2>2 DEF AfterSeal, HandlesInv, TypeOK, Opened, Idle, Roles
  <2> QED BY <2>3, <2>4 DEF LocksInv
<1>6. ASSUME r = "end"
      PROVE  LocksInv'
  <2>1. AfterEnd(s) /\ pc[s] = "open" /\ closed[s]
    BY <1>0, <1>2, <1>6 DEF WriteOver, HandlesInv
  <2>2. /\ writer' \in [Stores -> [Roles -> OneWrite]]
        /\ \A q \in Roles : q # "end" => writer'[s][q] = writer[s][q]
        /\ \A t \in Stores : t # s => writer'[t] = writer[t]
    <3>1. "end" \in Roles /\ writer' = [writer EXCEPT ![s]["end"] = NotWriting]
      BY <2>1 DEF Roles, AfterEnd
    <3> QED BY <1>t, <1>1, <3>1
  <2>3. /\ ending' \in [Stores -> {"no", "settling", "recording", "removing", "done"}]
        /\ policy' \in [Stores -> {"discard", "retain"}] /\ again' \in [Stores -> BOOLEAN]
        /\ ending'[s] # "no"
        /\ \A t \in Stores : t # s => ending'[t] = ending[t]
    BY <1>0, <2>1, DisposedOfOne DEF AfterEnd
  <2>4. TypeOK'
    BY <1>0, <2>1, <2>2, <2>3 DEF AfterEnd, TypeOK, OneWrite
  <2>5. ASSUME NEW t \in Stores
        PROVE  HandlesInv(t)'
    BY <1>0, <2>1, <2>2, <2>3 DEF AfterEnd, HandlesInv, Opened, Idle, Roles
  <2> QED BY <2>4, <2>5 DEF LocksInv
<1> QED BY <1>2, <1>3, <1>4, <1>5, <1>6 DEF Roles

LEMMA CheckpointingLocks ==
  ASSUME LocksInv, NEW s \in Stores, Checkpointing(s)
  PROVE  LocksInv'
<1>0. TypeOK /\ (\A t \in Stores : HandlesInv(t))
  BY DEF LocksInv
<1>t. writer \in [Stores -> [Roles -> OneWrite]]
  BY <1>0 DEF TypeOK, OneWrite
<1>1. PICK r \in Roles : WriterOpens(s, r) \/ WriterLands(s, r) \/ WriterFails(s, r)
  BY DEF Checkpointing
<1>2. CASE WriterLands(s, r)
  <2>1. writer[s][r].phase # "no" /\ WriteOver(s, r)
    BY <1>2 DEF WriterLands
  <2>2. plan[s] \in Plans /\ writer[s][r].bits \in SUBSET Segments
    <3>1. pc[s] \in {"persisting", "open"}
      BY <1>0, <2>1 DEF HandlesInv, Idle
    <3>2. plan[s] \in Plans
      BY <1>0, <3>1 DEF HandlesInv
    <3>3. writer[s] \in [Roles -> OneWrite]
      BY <1>0 DEF TypeOK, OneWrite
    <3> QED BY <3>2, <3>3 DEF OneWrite
  <2>3. ckpt' \in Checkpoints
    BY <1>2, <2>2 DEF WriterLands, Snapshot, Checkpoints
  <2> QED BY <2>1, <2>3, WriteOverLocks
<1>3. CASE WriterFails(s, r)
  <2>1. writer[s][r].phase # "no" /\ WriteOver(s, r) /\ ckpt' = ckpt
    BY <1>3 DEF WriterFails
  <2> QED BY <1>0, <2>1, WriteOverLocks DEF TypeOK
<1> QED BY <1>1, <1>2, <1>3, WriterOpensLocks

LEMMA WriteLocks ==
  ASSUME LocksInv, NEW s \in Stores, NEW i \in Segments, Write(s, i)
  PROVE  LocksInv'
<1> USE DEF disk, opening, holding, verify, ends
<1>0. /\ TypeOK /\ (\A t \in Stores : HandlesInv(t))
      /\ pc[s] = "open" /\ "progress" \in Roles
  BY DEF LocksInv, Write, Writable, Roles
<1>t. writer \in [Stores -> [Roles -> OneWrite]]
  BY <1>0 DEF TypeOK, OneWrite
<1> DEFINE B == bits[s] \cup {i}
           v == [phase |-> "begun", bits |-> B]
<1>1. B \in SUBSET Segments /\ bits' \in [Stores -> SUBSET Segments]
  BY <1>0 DEF Write, TypeOK
<1>2. v \in OneWrite
  BY <1>1 DEF OneWrite
<1>3. /\ writer' \in [Stores -> [Roles -> OneWrite]] /\ dirty' \in [Stores -> BOOLEAN]
      /\ \A r \in Roles : r # "progress" => writer'[s][r] = writer[s][r]
      /\ \A t \in Stores : t # s => writer'[t] = writer[t]
  <2>1. CASE writer[s]["progress"].phase # "no"
    BY <1>0, <2>1 DEF Write, ScheduleCheckpoint, TypeOK, OneWrite
  <2>2. CASE writer[s]["progress"].phase = "no"
    <3>1. writer' = [writer EXCEPT ![s]["progress"] = v] /\ dirty' = dirty
      BY <2>2 DEF Write, ScheduleCheckpoint
    <3> HIDE DEF v
    <3>2. /\ writer' \in [Stores -> [Roles -> OneWrite]]
          /\ \A r \in Roles : r # "progress" => writer'[s][r] = writer[s][r]
          /\ \A t \in Stores : t # s => writer'[t] = writer[t]
      BY <1>t, <1>2, <3>1
    <3> QED BY <1>0, <3>1, <3>2 DEF TypeOK
  <2> QED BY <2>1, <2>2
<1>4. file' \in Files /\ stable' \in Files
  BY <1>0 DEF Write, Flushed, HandlesInv, TypeOK, Files, Cells
<1>5. TypeOK'
  BY <1>0, <1>1, <1>3, <1>4 DEF Write, TypeOK, OneWrite
<1>6. ASSUME NEW t \in Stores
      PROVE  HandlesInv(t)'
  BY <1>0, <1>3 DEF Write, HandlesInv, Opened, Idle, Roles
<1> QED BY <1>5, <1>6 DEF LocksInv

LEMMA WriteRefusedLocks ==
  ASSUME LocksInv, NEW s \in Stores, NEW i \in Segments, WriteRefused(s, i)
  PROVE  LocksInv'
<1> USE DEF disk, opening, holding, verify, ends
<1>0. /\ TypeOK /\ (\A t \in Stores : HandlesInv(t))
      /\ pc[s] = "open" /\ ver[s] = "no"
  BY DEF LocksInv, WriteRefused, Writable
<1>1. file' \in Files
  <2>1. PICK c \in {file.cells[i], Torn, plan[s]} : file' = [file EXCEPT !.cells[i] = c]
    BY DEF WriteRefused
  <2>2. c \in Cells
    <3>1. plan[s] \in Plans /\ file.cells[i] \in Cells
      BY <1>0 DEF HandlesInv, TypeOK, Files
    <3> QED BY <2>1, <3>1 DEF Cells
  <2> DEFINE cs == [file.cells EXCEPT ![i] = c]
  <2>3. cs \in [Segments -> Cells]
    BY <1>0, <2>2 DEF TypeOK, Files
  <2>4. file' = [file EXCEPT !.cells = cs]
    BY <2>1
  <2> HIDE DEF cs
  <2> QED BY <1>0, <2>3, <2>4 DEF TypeOK, Files
<1>2. TypeOK'
  BY <1>0, <1>1 DEF WriteRefused, TypeOK
<1>3. ASSUME NEW t \in Stores
      PROVE  HandlesInv(t)'
  BY <1>0 DEF WriteRefused, HandlesInv, TypeOK, Opened, Idle, Roles
<1> QED BY <1>2, <1>3 DEF LocksInv

\* Whatever the device comes back with, nothing is held.
LEMMA CrashLocks ==
  ASSUME LocksInv, Crash
  PROVE  LocksInv'
<1>0. TypeOK
  BY DEF LocksInv
<1>t. writer \in [Stores -> [Roles -> OneWrite]]
  BY <1>0 DEF TypeOK, OneWrite
<1>1. file' \in Files /\ stable' \in Files /\ ckpt' \in Checkpoints
  <2>1. PICK gone \in SUBSET {"data", "checkpoint"} :
          /\ IF "data" \in gone
             THEN file' = NoFile
             ELSE \E f \in [size : {file.size, stable.size}, cells : [Segments -> Cells]] :
                    Survives(f) /\ file' = f
          /\ ckpt' = IF "checkpoint" \in gone THEN Absent ELSE ckpt
    BY DEF Crash
  <2>2. NoFile \in Files /\ Absent \in Checkpoints
    BY DEF NoFile, Files, Cells, Absent, Checkpoints
  <2>3. file' = NoFile \/ file' \in [size : {file.size, stable.size}, cells : [Segments -> Cells]]
    BY <2>1
  <2>4. stable' = file'
    BY DEF Crash
  <2> QED BY <1>0, <2>1, <2>2, <2>3, <2>4 DEF TypeOK, Files
<1>2. pc' \in [Stores -> {"unused", "dead"}]
  BY DEF Crash
<1>3. /\ ending' = All("no") /\ ver' = All("no") /\ policy' = All("discard")
      /\ closed' = All(FALSE) /\ sink' = All(FALSE) /\ handle' = All(FALSE)
      /\ plan' = All(NoPlan) /\ adopts' = All(FALSE) /\ stale' = All(FALSE)
      /\ bits' = All({}) /\ sealed' = All(FALSE) /\ dirty' = All(FALSE)
      /\ again' = All(FALSE)
  BY DEF Crash
<1>4. /\ writer' \in [Stores -> [Roles -> OneWrite]]
      /\ \A t \in Stores, r \in Roles : writer'[t][r].phase = "no"
  BY DEF Crash, All, NotWriting, OneWrite
<1>5. there' \in BOOLEAN /\ crashes' \in Nat
  BY <1>0 DEF Crash, TypeOK
<1>6. TypeOK'
  BY <1>1, <1>2, <1>3, <1>4, <1>5 DEF All, TypeOK, OneWrite
<1>7. ASSUME NEW t \in Stores
      PROVE  HandlesInv(t)'
  BY <1>2, <1>3, <1>4 DEF All, HandlesInv, Opened, Idle, Roles
<1> QED BY <1>6, <1>7 DEF LocksInv

LEMMA LocksInductive ==
  ASSUME LocksInv, [Next]_vars
  PROVE  LocksInv'
<1>1. CASE UNCHANGED vars
  BY <1>1 DEF vars, disk, opening, holding, verify, ends, LocksInv, TypeOK, HandlesInv,
              Opened, Idle
<1>2. ASSUME NEW s \in Stores, Open(s) \/ Abandon(s)
      PROVE  LocksInv'
  BY <1>2, OpenLocks, AbandonLocks
<1>3. ASSUME NEW s \in Stores, Opening(s)
      PROVE  LocksInv'
  BY <1>3, ReadCheckpointLocks, ClearLocks, CreateFailsLocks, CreateMismatchLocks,
     CreateLocks, ReserveLocks, ReserveFailsLocks DEF Opening
<1>4. ASSUME NEW s \in Stores, Checkpointing(s) \/ Writing(s)
      PROVE  LocksInv'
  BY <1>4, CheckpointingLocks, WriteLocks, WriteRefusedLocks DEF Writing
<1>5. ASSUME NEW s \in Stores, End(s) \/ Disposing(s)
      PROVE  LocksInv'
  BY <1>5, EndLocks, DisposeLocks, RemoveLocks DEF Disposing
<1>6. ASSUME NEW s \in Stores, Verify(s) \/ Verifying(s)
      PROVE  LocksInv'
  BY <1>6, VerifyLocks, OpenSinkLocks, OpenSinkFailsLocks, InflateFailsLocks,
     InflateLocks, HashGivesUpLocks, HashMismatchLocks, SealLocks,
     SealCheckpointLocks DEF Verifying
<1> QED BY <1>1, <1>2, <1>3, <1>4, <1>5, <1>6, CrashLocks DEF Next

\* However many sessions there are on the directory, and whether open() resumes.
LEMMA LocksHold == Spec => []LocksInv
BY LocksInit, LocksInductive, PTL DEF Spec

\* The state of the store, its device and its sessions keep their types, through any
\* failure and crash (opfs-segment-store.ts), overlapping sessions included.
THEOREM StoreTypeCorrect == Spec => []TypeOK
<1>1. LocksInv => TypeOK
  BY DEF LocksInv
<1> QED BY <1>1, LocksHold, PTL

\* No way out of open(), verify() or dispose() keeps the handle of data.part or
\* of original.part: the session after it can open its file.  That holds of sessions
\* that overlap too, as of a store that arrives when its session has gone
\* (receive-pipeline.ts:711).
THEOREM NothingIsHeldAfterwards == Spec => []NothingHeldAfterwards
<1>1. ASSUME LocksInv
      PROVE  NothingHeldAfterwards
  BY <1>1 DEF LocksInv, HandlesInv, NothingHeldAfterwards, Settled, Opened
<1>2. LocksInv => NothingHeldAfterwards
  BY <1>1
<1> QED BY <1>2, LocksHold, PTL
-----------------------------------------------------------------------------
(* What a resume starts from: of sessions that take turns                   *)

\* The bytes of the segments a store counts as committed are on the device.
Right(s) == \A i \in bits[s] : file.cells[i] = plan[s] /\ stable.cells[i] = plan[s]

\* The store still answers for what is in the directory: its session is on,
\* it is sealed, a checkpoint of it is being or will be written, or it is being
\* verified with its directory still there.
Claims(s) ==
  /\ Opened(s)
  /\ \/ ending[s] = "no"
     \/ sealed[s] /\ ~Settled(s)
     \/ ~Idle(s)
     \/ ending[s] = "settling" /\ policy[s] = "retain"
     \/ there /\ ver[s] \in {"sinking", "inflating", "hashing"}

\* A session opens when no other has anything under way.  The code does not see to it:
\* the deletion of the outgoing session and the storage of the next are separate chains,
\* "in principle unordered.  In practice they cannot overlap" (receive-worker-core.ts:173),
\* as the next opens no storage before a camera has shown it a manifest.
TakesTurns == \A s \in Stores : Open(s) => \A t \in Stores : Settled(t)
InTurn == [][TakesTurns]_vars

\* One session at a time.
Alone == \A s, t \in Stores : ~Settled(s) /\ ~Settled(t) => s = t

\* Before open() has answered, there is nothing to write, verify or dispose of.
OpeningInv(s) ==
  /\ pc[s] # "open" => /\ ending[s] = "no" /\ ver[s] = "no"
                       /\ ~closed[s] /\ ~sealed[s] /\ ~again[s] /\ ~sink[s]
  /\ ~Opened(s) => ~handle[s]
  /\ ~Opened(s) \/ pc[s] = "reserving" => Idle(s)
  /\ pc[s] \notin {"unused", "dead"} => plan[s] \in Plans
  /\ pc[s] = "clearing" => ~adopts[s] /\ bits[s] = {}
  /\ pc[s] = "creating" =>
       IF adopts[s]
       THEN ckpt.kind = "good" /\ ckpt.plan = plan[s] /\ ckpt.bits = bits[s]
       ELSE ckpt.kind = "absent" /\ bits[s] = {}

\* release() comes first, dispose() waits for the progress write, and what is
\* sealed is not removed while verify() is at work.
EndingInv(s) ==
  /\ ending[s] # "no" <=> closed[s]
  /\ closed[s] => ~handle[s]
  /\ ending[s] \in {"recording", "removing", "done"} => Quiet(s)
  /\ ending[s] = "removing" /\ sealed[s] => sink[s] \/ ver[s] = "over"
  /\ sink[s] => there
  /\ again[s] => closed[s] /\ ~sealed[s] /\ ver[s] = "over"
  /\ ver[s] \in {"settling", "sealing", "handed"} => sealed[s]
  /\ sealed[s] => ver[s] \in {"settling", "sealing", "handed", "over"}
  /\ sink[s] => ver[s] \in {"inflating", "hashing", "settling", "sealing"}
  /\ writer[s]["seal"].phase # "no" => ver[s] = "sealing"
  /\ writer[s]["end"].phase # "no" => ending[s] = "recording"

\* The checkpoint on the device is this store's, and behind it.
CheckpointBehind(s) ==
  Opened(s) /\ ~Settled(s) /\ ckpt.kind = "good" =>
    ckpt.plan = plan[s] /\ ckpt.bits \subseteq bits[s]

WriterBehind(s) ==
  \A r \in Roles : writer[s][r].phase # "no" => writer[s][r].bits \subseteq bits[s]

StoreInv(s) ==
  /\ OpeningInv(s)
  /\ EndingInv(s)
  /\ CheckpointBehind(s)
  /\ WriterBehind(s)
  /\ Claims(s) => Right(s)

SessionInv ==
  /\ TypeOK
  /\ Alone
  /\ CheckpointSound
  /\ \A s \in Stores : StoreInv(s)
-----------------------------------------------------------------------------
LEMMA InitHolds == Init => SessionInv
<1>1. SUFFICES ASSUME Init PROVE SessionInv
  OBVIOUS
<1>2. TypeOK
  BY <1>1, LocksInit DEF LocksInv
<1>3. Alone /\ CheckpointSound
  BY <1>1 DEF Init, Alone, Settled, All, CheckpointSound, Absent
<1>4. ASSUME NEW s \in Stores
      PROVE  StoreInv(s)
  BY <1>1 DEF Init, All, Absent, NotWriting, StoreInv, OpeningInv, EndingInv,
     CheckpointBehind, WriterBehind, Claims, Opened, Settled, Idle, Quiet, Roles
<1> QED BY <1>2, <1>3, <1>4 DEF SessionInv

LEMMA SessionLocks == SessionInv => LocksInv
BY DEF SessionInv, StoreInv, OpeningInv, EndingInv, LocksInv, HandlesInv, Opened, Idle

\* With Overlap FALSE, as in the run store_durability, the sessions take turns.
LEMMA TurnsAreTaken ==
  ASSUME Overlap = FALSE
  PROVE  Spec => InTurn
<1>1. TakesTurns
  BY DEF TakesTurns, Open, MayFollow
<1> QED BY <1>1, PTL DEF InTurn

\* Nothing of the store is touched by the step.
Same(t) ==
  /\ pc'[t] = pc[t] /\ plan'[t] = plan[t]
  /\ adopts'[t] = adopts[t] /\ stale'[t] = stale[t]
  /\ bits'[t] = bits[t] /\ handle'[t] = handle[t]
  /\ closed'[t] = closed[t] /\ sealed'[t] = sealed[t]
  /\ dirty'[t] = dirty[t] /\ writer'[t] = writer[t]
  /\ sink'[t] = sink[t] /\ ver'[t] = ver[t]
  /\ ending'[t] = ending[t] /\ policy'[t] = policy[t] /\ again'[t] = again[t]

OnlyOf(s) == \A t \in Stores : t # s => Same(t)

\* A settled store has no part in the directory, whatever becomes of that.
LEMMA BystanderKeeps ==
  ASSUME SessionInv, NEW t \in Stores, Settled(t), Same(t)
  PROVE  Settled(t)' /\ StoreInv(t)'
<1>1. Settled(t)'
  BY DEF Same, Settled
<1>2. Idle(t)
  BY DEF SessionInv, StoreInv, OpeningInv, EndingInv, Settled, Opened, Idle, Roles, Quiet
<1>3. ~Claims(t)
  BY <1>2 DEF Claims, Settled, Opened
<1>4. OpeningInv(t)' /\ EndingInv(t)' /\ WriterBehind(t)'
  BY DEF SessionInv, StoreInv, OpeningInv, EndingInv, WriterBehind, Same, Settled,
         Opened, Idle, Quiet
<1>5. CheckpointBehind(t)' /\ ~Claims(t)'
  BY <1>1, <1>3 DEF CheckpointBehind, Claims, Same, Settled, Opened, Idle
<1> QED BY <1>1, <1>4, <1>5 DEF StoreInv

\* A step of the one store that is not settled has only that store to answer for.
LEMMA StepOfOne ==
  ASSUME SessionInv, NEW s \in Stores, ~Settled(s), OnlyOf(s),
         TypeOK', StoreInv(s)', CheckpointSound'
  PROVE  SessionInv'
<1>1. ASSUME NEW t \in Stores, t # s
      PROVE  Settled(t)' /\ StoreInv(t)'
  BY <1>1, BystanderKeeps DEF SessionInv, Alone, OnlyOf
<1>2. Alone'
  BY <1>1 DEF Alone
<1> QED BY <1>1, <1>2 DEF SessionInv
-----------------------------------------------------------------------------
(* One lemma for each action *)

\* A checkpoint write begins.
LEMMA WriteBegins ==
  ASSUME TypeOK, NEW s \in Stores, NEW r \in Roles,
         NEW B \in SUBSET Segments,
         writer' = [writer EXCEPT ![s][r] = [phase |-> "begun", bits |-> B]]
  PROVE  /\ writer' \in [Stores -> [Roles -> [phase : {"no", "begun", "open"},
                                              bits : SUBSET Segments]]]
         /\ writer'[s][r].phase = "begun" /\ writer'[s][r].bits = B
         /\ \A q \in Roles : q # r => writer'[s][q] = writer[s][q]
         /\ \A t \in Stores : t # s => writer'[t] = writer[t]
BY DEF TypeOK

LEMMA AbandonKeeps ==
  ASSUME SessionInv, NEW s \in Stores, Abandon(s)
  PROVE  SessionInv'
<1> USE DEF disk, opening, holding, verify, ends
<1>0. TypeOK /\ CheckpointSound /\ StoreInv(s)
  BY DEF SessionInv
<1>1. ~Settled(s)
  BY <1>0 DEF Abandon, StoreInv, EndingInv, OpeningInv, Settled
<1>2. OnlyOf(s)
  BY <1>0 DEF Abandon, OnlyOf, Same, TypeOK
<1>3. TypeOK'
  BY SessionLocks, AbandonLocks DEF LocksInv
<1>4. StoreInv(s)'
  <2> USE DEF Abandon, StoreInv, TypeOK, Idle, Quiet, Roles
  <2>1. OpeningInv(s)'
    BY <1>0 DEF OpeningInv, EndingInv, Opened
  <2>2. EndingInv(s)'
    BY <1>0 DEF OpeningInv, EndingInv, Opened
  <2>3. CheckpointBehind(s)'
    BY <1>0, <1>1 DEF OpeningInv, CheckpointBehind, Opened, Settled
  <2>4. WriterBehind(s)'
    BY <1>0 DEF OpeningInv, WriterBehind, Opened
  <2>5. Claims(s)' => Right(s)'
    BY <1>0, <1>1 DEF OpeningInv, EndingInv, Claims, Right, Opened, Settled, CheckpointSound, Files
  <2> QED BY <2>1, <2>2, <2>3, <2>4, <2>5 DEF StoreInv
<1>5. CheckpointSound'
  BY <1>0, StoreAssumption DEF Abandon, TypeOK, Files, CheckpointSound, StoreInv, OpeningInv
<1> QED BY <1>1, <1>2, <1>3, <1>4, <1>5, StepOfOne

LEMMA ReadCheckpointKeeps ==
  ASSUME SessionInv, NEW s \in Stores, ReadCheckpoint(s)
  PROVE  SessionInv'
<1> USE DEF disk, opening, holding, verify, ends
<1>0. TypeOK /\ CheckpointSound /\ StoreInv(s)
  BY DEF SessionInv
<1>1. ~Settled(s)
  BY <1>0 DEF ReadCheckpoint, StoreInv, EndingInv, OpeningInv, Settled
<1>2. OnlyOf(s)
  BY <1>0 DEF ReadCheckpoint, Matches, OnlyOf, Same, TypeOK
<1>3. TypeOK'
  BY SessionLocks, ReadCheckpointLocks DEF LocksInv
<1>4. StoreInv(s)'
  <2> USE DEF ReadCheckpoint, Matches, StoreInv, TypeOK, Idle, Quiet, Roles
  <2>1. OpeningInv(s)'
    BY <1>0 DEF OpeningInv, EndingInv, Opened
  <2>2. EndingInv(s)'
    BY <1>0 DEF OpeningInv, EndingInv, Opened
  <2>3. CheckpointBehind(s)'
    BY <1>0, <1>1 DEF OpeningInv, CheckpointBehind, Opened, Settled
  <2>4. WriterBehind(s)'
    BY <1>0 DEF OpeningInv, WriterBehind, Opened
  <2>5. Claims(s)' => Right(s)'
    BY <1>0, <1>1 DEF OpeningInv, EndingInv, Claims, Right, Opened, Settled, CheckpointSound, Files
  <2> QED BY <2>1, <2>2, <2>3, <2>4, <2>5 DEF StoreInv
<1>5. CheckpointSound'
  BY <1>0, StoreAssumption DEF ReadCheckpoint, Matches, TypeOK, Files, CheckpointSound, StoreInv, OpeningInv
<1> QED BY <1>1, <1>2, <1>3, <1>4, <1>5, StepOfOne

LEMMA CreateFailsKeeps ==
  ASSUME SessionInv, NEW s \in Stores, CreateFails(s)
  PROVE  SessionInv'
<1> USE DEF disk, opening, holding, verify, ends
<1>0. TypeOK /\ CheckpointSound /\ StoreInv(s)
  BY DEF SessionInv
<1>1. ~Settled(s)
  BY <1>0 DEF CreateFails, StoreInv, EndingInv, OpeningInv, Settled
<1>2. OnlyOf(s)
  BY <1>0 DEF CreateFails, NoFile, OnlyOf, Same, TypeOK
<1>3. TypeOK'
  BY SessionLocks, CreateFailsLocks DEF LocksInv
<1>4. StoreInv(s)'
  <2> USE DEF CreateFails, NoFile, StoreInv, TypeOK, Idle, Quiet, Roles
  <2>1. OpeningInv(s)'
    BY <1>0 DEF OpeningInv, EndingInv, Opened
  <2>2. EndingInv(s)'
    BY <1>0 DEF OpeningInv, EndingInv, Opened
  <2>3. CheckpointBehind(s)'
    BY <1>0, <1>1 DEF OpeningInv, CheckpointBehind, Opened, Settled
  <2>4. WriterBehind(s)'
    BY <1>0 DEF OpeningInv, WriterBehind, Opened
  <2>5. Claims(s)' => Right(s)'
    BY <1>0, <1>1 DEF OpeningInv, EndingInv, Claims, Right, Opened, Settled, CheckpointSound, Files
  <2> QED BY <2>1, <2>2, <2>3, <2>4, <2>5 DEF StoreInv
<1>5. CheckpointSound'
  BY <1>0, StoreAssumption DEF CreateFails, NoFile, TypeOK, Files, CheckpointSound, StoreInv, OpeningInv
<1> QED BY <1>1, <1>2, <1>3, <1>4, <1>5, StepOfOne

LEMMA CreateMismatchKeeps ==
  ASSUME SessionInv, NEW s \in Stores, CreateMismatch(s)
  PROVE  SessionInv'
<1> USE DEF disk, opening, holding, verify, ends
<1>0. TypeOK /\ CheckpointSound /\ StoreInv(s)
  BY DEF SessionInv
<1>1. ~Settled(s)
  BY <1>0 DEF CreateMismatch, StoreInv, EndingInv, OpeningInv, Settled
<1>2. OnlyOf(s)
  BY <1>0 DEF CreateMismatch, LengthRight, OnlyOf, Same, TypeOK
<1>3. TypeOK'
  BY SessionLocks, CreateMismatchLocks DEF LocksInv
<1>4. StoreInv(s)'
  <2> USE DEF CreateMismatch, LengthRight, StoreInv, TypeOK, Idle, Quiet, Roles
  <2>1. OpeningInv(s)'
    BY <1>0 DEF OpeningInv, EndingInv, Opened
  <2>2. EndingInv(s)'
    BY <1>0 DEF OpeningInv, EndingInv, Opened
  <2>3. CheckpointBehind(s)'
    BY <1>0, <1>1 DEF OpeningInv, CheckpointBehind, Opened, Settled
  <2>4. WriterBehind(s)'
    BY <1>0 DEF OpeningInv, WriterBehind, Opened
  <2>5. Claims(s)' => Right(s)'
    BY <1>0, <1>1 DEF OpeningInv, EndingInv, Claims, Right, Opened, Settled, CheckpointSound, Files
  <2> QED BY <2>1, <2>2, <2>3, <2>4, <2>5 DEF StoreInv
<1>5. CheckpointSound'
  BY <1>0, StoreAssumption DEF CreateMismatch, LengthRight, TypeOK, Files, CheckpointSound, StoreInv, OpeningInv
<1> QED BY <1>1, <1>2, <1>3, <1>4, <1>5, StepOfOne

LEMMA CreateKeeps ==
  ASSUME SessionInv, NEW s \in Stores, Create(s)
  PROVE  SessionInv'
<1> USE DEF disk, opening, holding, verify, ends
<1>0. TypeOK /\ CheckpointSound /\ StoreInv(s)
  BY DEF SessionInv
<1>1. ~Settled(s)
  BY <1>0 DEF Create, StoreInv, EndingInv, OpeningInv, Settled
<1>2. OnlyOf(s)
  BY <1>0 DEF Create, Presized, LengthRight, FirstCheckpoint, OnlyOf, Same, TypeOK
<1>w. \/ plan[s] \in Compressed /\ writer' = writer /\ pc'[s] = "reserving"
     \/ /\ plan[s] \notin Compressed /\ pc'[s] = "persisting"
        /\ writer' \in [Stores -> [Roles -> [phase : {"no", "begun", "open"},
                                             bits : SUBSET Segments]]]
        /\ writer'[s]["progress"].phase = "begun" /\ writer'[s]["progress"].bits = bits[s]
        /\ \A q \in Roles : q # "progress" => writer'[s][q] = writer[s][q]
        /\ \A t \in Stores : t # s => writer'[t] = writer[t]
  <2>1. CASE plan[s] \in Compressed
    BY <1>0, <2>1 DEF TypeOK, Create
  <2>2. CASE plan[s] \notin Compressed
    <3>1. writer' = [writer EXCEPT ![s]["progress"] = [phase |-> "begun", bits |-> bits[s]]]
      BY <2>2 DEF Create, FirstCheckpoint, Begun
    <3>2. bits[s] \in SUBSET Segments /\ "progress" \in Roles
      BY <1>0 DEF TypeOK, Roles
    <3>3. pc'[s] = "persisting"
      BY <1>0, <2>2 DEF Create, TypeOK
    <3> QED BY <1>0, <2>2, <3>1, <3>2, <3>3, WriteBegins
  <2> QED BY <2>1, <2>2
<1>3. TypeOK'
  BY SessionLocks, CreateLocks DEF LocksInv
<1>4. StoreInv(s)'
  <2> USE DEF Create, Presized, LengthRight, FirstCheckpoint, StoreInv, TypeOK, Idle, Quiet, Roles
  <2>1. OpeningInv(s)'
    BY <1>0, <1>w DEF OpeningInv, EndingInv, Opened
  <2>2. EndingInv(s)'
    BY <1>0, <1>w DEF OpeningInv, EndingInv, Opened
  <2>3. CheckpointBehind(s)'
    BY <1>0, <1>1 DEF OpeningInv, CheckpointBehind, Opened, Settled
  <2>4. WriterBehind(s)'
    BY <1>0, <1>w DEF OpeningInv, WriterBehind, Opened
  <2>5. Claims(s)' => Right(s)'
    BY <1>0, <1>1, <1>w DEF OpeningInv, EndingInv, Claims, Right, Opened, Settled, CheckpointSound, Files
  <2> QED BY <2>1, <2>2, <2>3, <2>4, <2>5 DEF StoreInv
<1>5. CheckpointSound'
  BY <1>0, StoreAssumption DEF Create, Presized, LengthRight, FirstCheckpoint, TypeOK, Files, CheckpointSound, StoreInv, OpeningInv
<1> QED BY <1>1, <1>2, <1>3, <1>4, <1>5, StepOfOne

LEMMA ReserveKeeps ==
  ASSUME SessionInv, NEW s \in Stores, Reserve(s)
  PROVE  SessionInv'
<1> USE DEF disk, opening, holding, verify, ends
<1>0. TypeOK /\ CheckpointSound /\ StoreInv(s)
  BY DEF SessionInv
<1>1. ~Settled(s)
  BY <1>0 DEF Reserve, StoreInv, EndingInv, OpeningInv, Settled
<1>2. OnlyOf(s)
  BY <1>0 DEF Reserve, FirstCheckpoint, Begun, OnlyOf, Same, TypeOK
<1>w. /\ writer' \in [Stores -> [Roles -> [phase : {"no", "begun", "open"},
                                               bits : SUBSET Segments]]]
     /\ writer'[s]["progress"].phase = "begun" /\ writer'[s]["progress"].bits = bits[s]
     /\ \A q \in Roles : q # "progress" => writer'[s][q] = writer[s][q]
     /\ \A t \in Stores : t # s => writer'[t] = writer[t]
  BY WriteBegins DEF SessionInv, TypeOK, Reserve, FirstCheckpoint, Begun, Roles
<1>3. TypeOK'
  BY SessionLocks, ReserveLocks DEF LocksInv
<1>4. StoreInv(s)'
  <2> USE DEF Reserve, FirstCheckpoint, Begun, StoreInv, TypeOK, Idle, Quiet, Roles
  <2>1. OpeningInv(s)'
    BY <1>0, <1>w DEF OpeningInv, EndingInv, Opened
  <2>2. EndingInv(s)'
    BY <1>0, <1>w DEF OpeningInv, EndingInv, Opened
  <2>3. CheckpointBehind(s)'
    BY <1>0, <1>1 DEF OpeningInv, CheckpointBehind, Opened, Settled
  <2>4. WriterBehind(s)'
    BY <1>0, <1>w DEF OpeningInv, WriterBehind, Opened
  <2>5. Claims(s)' => Right(s)'
    BY <1>0, <1>1, <1>w DEF OpeningInv, EndingInv, Claims, Right, Opened, Settled, CheckpointSound, Files
  <2> QED BY <2>1, <2>2, <2>3, <2>4, <2>5 DEF StoreInv
<1>5. CheckpointSound'
  BY <1>0, StoreAssumption DEF Reserve, FirstCheckpoint, Begun, TypeOK, Files, CheckpointSound, StoreInv, OpeningInv
<1> QED BY <1>1, <1>2, <1>3, <1>4, <1>5, StepOfOne

LEMMA ReserveFailsKeeps ==
  ASSUME SessionInv, NEW s \in Stores, ReserveFails(s)
  PROVE  SessionInv'
<1> USE DEF disk, opening, holding, verify, ends
<1>0. TypeOK /\ CheckpointSound /\ StoreInv(s)
  BY DEF SessionInv
<1>1. ~Settled(s)
  BY <1>0 DEF ReserveFails, StoreInv, EndingInv, OpeningInv, Settled
<1>2. OnlyOf(s)
  BY <1>0 DEF ReserveFails, OnlyOf, Same, TypeOK
<1>3. TypeOK'
  BY SessionLocks, ReserveFailsLocks DEF LocksInv
<1>4. StoreInv(s)'
  <2> USE DEF ReserveFails, StoreInv, TypeOK, Idle, Quiet, Roles
  <2>1. OpeningInv(s)'
    BY <1>0 DEF OpeningInv, EndingInv, Opened
  <2>2. EndingInv(s)'
    BY <1>0 DEF OpeningInv, EndingInv, Opened
  <2>3. CheckpointBehind(s)'
    BY <1>0, <1>1 DEF OpeningInv, CheckpointBehind, Opened, Settled
  <2>4. WriterBehind(s)'
    BY <1>0 DEF OpeningInv, WriterBehind, Opened
  <2>5. Claims(s)' => Right(s)'
    BY <1>0, <1>1 DEF OpeningInv, EndingInv, Claims, Right, Opened, Settled, CheckpointSound, Files
  <2> QED BY <2>1, <2>2, <2>3, <2>4, <2>5 DEF StoreInv
<1>5. CheckpointSound'
  BY <1>0, StoreAssumption DEF ReserveFails, TypeOK, Files, CheckpointSound, StoreInv, OpeningInv
<1> QED BY <1>1, <1>2, <1>3, <1>4, <1>5, StepOfOne

LEMMA EndKeeps ==
  ASSUME SessionInv, NEW s \in Stores, End(s)
  PROVE  SessionInv'
<1> USE DEF disk, opening, holding, verify, ends
<1>0. TypeOK /\ CheckpointSound /\ StoreInv(s)
  BY DEF SessionInv
<1>1. ~Settled(s)
  BY <1>0 DEF End, StoreInv, EndingInv, OpeningInv, Settled
<1>2. OnlyOf(s)
  BY <1>0 DEF End, Release, OnlyOf, Same, TypeOK
<1>3. TypeOK'
  BY SessionLocks, EndLocks DEF LocksInv
<1>4. StoreInv(s)'
  <2> USE DEF End, Release, StoreInv, TypeOK, Idle, Quiet, Roles
  <2>1. OpeningInv(s)'
    BY <1>0 DEF OpeningInv, EndingInv, Opened
  <2>2. EndingInv(s)'
    BY <1>0 DEF OpeningInv, EndingInv, Opened
  <2>3. CheckpointBehind(s)'
    BY <1>0, <1>1 DEF OpeningInv, CheckpointBehind, Opened, Settled
  <2>4. WriterBehind(s)'
    BY <1>0 DEF OpeningInv, WriterBehind, Opened
  <2>5. Claims(s)' => Right(s)'
    BY <1>0, <1>1 DEF OpeningInv, EndingInv, Claims, Right, Opened, Settled, CheckpointSound, Files
  <2> QED BY <2>1, <2>2, <2>3, <2>4, <2>5 DEF StoreInv
<1>5. CheckpointSound'
  BY <1>0, StoreAssumption DEF End, Release, TypeOK, Files, CheckpointSound, StoreInv, OpeningInv
<1> QED BY <1>1, <1>2, <1>3, <1>4, <1>5, StepOfOne

LEMMA DisposeKeeps ==
  ASSUME SessionInv, NEW s \in Stores, Dispose(s)
  PROVE  SessionInv'
<1> USE DEF disk, opening, holding, verify, ends
<1>0. TypeOK /\ CheckpointSound /\ StoreInv(s)
  BY DEF SessionInv
<1>1. ~Settled(s)
  BY <1>0 DEF Dispose, StoreInv, EndingInv, OpeningInv, Settled
<1>2. OnlyOf(s)
  BY <1>0 DEF Dispose, KeepsDirectory, Quiet, OnlyOf, Same, TypeOK
<1>w. \/ /\ ~KeepsDirectory(s) /\ writer' = writer
        /\ ending' = [ending EXCEPT ![s] = "removing"]
     \/ /\ KeepsDirectory(s) /\ ending' = [ending EXCEPT ![s] = "recording"]
        /\ writer' \in [Stores -> [Roles -> [phase : {"no", "begun", "open"},
                                             bits : SUBSET Segments]]]
        /\ writer'[s]["end"].phase = "begun" /\ writer'[s]["end"].bits = bits[s]
        /\ \A q \in Roles : q # "end" => writer'[s][q] = writer[s][q]
        /\ \A t \in Stores : t # s => writer'[t] = writer[t]
  <2>1. CASE ~KeepsDirectory(s)
    BY <1>0, <2>1 DEF TypeOK, Dispose
  <2>2. CASE KeepsDirectory(s)
    <3>1. writer' = [writer EXCEPT ![s]["end"] = [phase |-> "begun", bits |-> bits[s]]]
      BY <2>2 DEF Dispose, Begun
    <3>2. bits[s] \in SUBSET Segments /\ "end" \in Roles
      BY <1>0 DEF TypeOK, Roles
    <3>3. ending' = [ending EXCEPT ![s] = "recording"]
      BY <2>2 DEF Dispose
    <3> QED BY <1>0, <2>2, <3>1, <3>2, <3>3, WriteBegins
  <2> QED BY <2>1, <2>2
<1>3. TypeOK'
  BY SessionLocks, DisposeLocks DEF LocksInv
<1>4. StoreInv(s)'
  <2> USE DEF Dispose, KeepsDirectory, Quiet, StoreInv, TypeOK, Idle, Quiet, Roles
  <2>1. OpeningInv(s)'
    BY <1>0, <1>w DEF OpeningInv, EndingInv, Opened
  <2>2. EndingInv(s)'
    BY <1>0, <1>w DEF OpeningInv, EndingInv, Opened
  <2>3. CheckpointBehind(s)'
    BY <1>0, <1>1 DEF OpeningInv, CheckpointBehind, Opened, Settled
  <2>4. WriterBehind(s)'
    BY <1>0, <1>w DEF OpeningInv, WriterBehind, Opened
  <2>5. Claims(s)' => Right(s)'
    BY <1>0, <1>1, <1>w DEF OpeningInv, EndingInv, Claims, Right, Opened, Settled, CheckpointSound, Files
  <2> QED BY <2>1, <2>2, <2>3, <2>4, <2>5 DEF StoreInv
<1>5. CheckpointSound'
  BY <1>0, StoreAssumption DEF Dispose, KeepsDirectory, Quiet, TypeOK, Files, CheckpointSound, StoreInv, OpeningInv
<1> QED BY <1>1, <1>2, <1>3, <1>4, <1>5, StepOfOne

LEMMA VerifyKeeps ==
  ASSUME SessionInv, NEW s \in Stores, Verify(s)
  PROVE  SessionInv'
<1> USE DEF disk, opening, holding, verify, ends
<1>0. TypeOK /\ CheckpointSound /\ StoreInv(s)
  BY DEF SessionInv
<1>1. ~Settled(s)
  BY <1>0 DEF Verify, StoreInv, EndingInv, OpeningInv, Settled
<1>2. OnlyOf(s)
  BY <1>0 DEF Verify, OnlyOf, Same, TypeOK
<1>3. TypeOK'
  BY SessionLocks, VerifyLocks DEF LocksInv
<1>4. StoreInv(s)'
  <2> USE DEF Verify, StoreInv, TypeOK, Idle, Quiet, Roles
  <2>1. OpeningInv(s)'
    BY <1>0 DEF OpeningInv, EndingInv, Opened
  <2>2. EndingInv(s)'
    BY <1>0 DEF OpeningInv, EndingInv, Opened
  <2>3. CheckpointBehind(s)'
    BY <1>0, <1>1 DEF OpeningInv, CheckpointBehind, Opened, Settled
  <2>4. WriterBehind(s)'
    BY <1>0 DEF OpeningInv, WriterBehind, Opened
  <2>5. Claims(s)' => Right(s)'
    BY <1>0, <1>1 DEF OpeningInv, EndingInv, Claims, Right, Opened, Settled, CheckpointSound, Files
  <2> QED BY <2>1, <2>2, <2>3, <2>4, <2>5 DEF StoreInv
<1>5. CheckpointSound'
  BY <1>0, StoreAssumption DEF Verify, TypeOK, Files, CheckpointSound, StoreInv, OpeningInv
<1> QED BY <1>1, <1>2, <1>3, <1>4, <1>5, StepOfOne

LEMMA OpenSinkKeeps ==
  ASSUME SessionInv, NEW s \in Stores, OpenSink(s)
  PROVE  SessionInv'
<1> USE DEF disk, opening, holding, verify, ends
<1>0. TypeOK /\ CheckpointSound /\ StoreInv(s)
  BY DEF SessionInv
<1>1. ~Settled(s)
  BY <1>0 DEF OpenSink, StoreInv, EndingInv, OpeningInv, Settled
<1>2. OnlyOf(s)
  BY <1>0 DEF OpenSink, OnlyOf, Same, TypeOK
<1>3. TypeOK'
  BY SessionLocks, OpenSinkLocks DEF LocksInv
<1>4. StoreInv(s)'
  <2> USE DEF OpenSink, StoreInv, TypeOK, Idle, Quiet, Roles
  <2>1. OpeningInv(s)'
    BY <1>0 DEF OpeningInv, EndingInv, Opened
  <2>2. EndingInv(s)'
    BY <1>0 DEF OpeningInv, EndingInv, Opened
  <2>3. CheckpointBehind(s)'
    BY <1>0, <1>1 DEF OpeningInv, CheckpointBehind, Opened, Settled
  <2>4. WriterBehind(s)'
    BY <1>0 DEF OpeningInv, WriterBehind, Opened
  <2>5. Claims(s)' => Right(s)'
    BY <1>0, <1>1 DEF OpeningInv, EndingInv, Claims, Right, Opened, Settled, CheckpointSound, Files
  <2> QED BY <2>1, <2>2, <2>3, <2>4, <2>5 DEF StoreInv
<1>5. CheckpointSound'
  BY <1>0, StoreAssumption DEF OpenSink, TypeOK, Files, CheckpointSound, StoreInv, OpeningInv
<1> QED BY <1>1, <1>2, <1>3, <1>4, <1>5, StepOfOne

LEMMA OpenSinkFailsKeeps ==
  ASSUME SessionInv, NEW s \in Stores, OpenSinkFails(s)
  PROVE  SessionInv'
<1> USE DEF disk, opening, holding, verify, ends
<1>0. TypeOK /\ CheckpointSound /\ StoreInv(s)
  BY DEF SessionInv
<1>1. ~Settled(s)
  BY <1>0 DEF OpenSinkFails, StoreInv, EndingInv, OpeningInv, Settled
<1>2. OnlyOf(s)
  BY <1>0 DEF OpenSinkFails, SinkRefused, OnlyOf, Same, TypeOK
<1>3. TypeOK'
  BY SessionLocks, OpenSinkFailsLocks DEF LocksInv
<1>4. StoreInv(s)'
  <2> USE DEF OpenSinkFails, SinkRefused, StoreInv, TypeOK, Idle, Quiet, Roles
  <2>1. OpeningInv(s)'
    BY <1>0 DEF OpeningInv, EndingInv, Opened
  <2>2. EndingInv(s)'
    BY <1>0 DEF OpeningInv, EndingInv, Opened
  <2>3. CheckpointBehind(s)'
    BY <1>0, <1>1 DEF OpeningInv, CheckpointBehind, Opened, Settled
  <2>4. WriterBehind(s)'
    BY <1>0 DEF OpeningInv, WriterBehind, Opened
  <2>5. Claims(s)' => Right(s)'
    BY <1>0, <1>1 DEF OpeningInv, EndingInv, Claims, Right, Opened, Settled, CheckpointSound, Files
  <2> QED BY <2>1, <2>2, <2>3, <2>4, <2>5 DEF StoreInv
<1>5. CheckpointSound'
  BY <1>0, StoreAssumption DEF OpenSinkFails, SinkRefused, TypeOK, Files, CheckpointSound, StoreInv, OpeningInv
<1> QED BY <1>1, <1>2, <1>3, <1>4, <1>5, StepOfOne

LEMMA InflateKeeps ==
  ASSUME SessionInv, NEW s \in Stores, Inflate(s)
  PROVE  SessionInv'
<1> USE DEF disk, opening, holding, verify, ends
<1>0. TypeOK /\ CheckpointSound /\ StoreInv(s)
  BY DEF SessionInv
<1>1. ~Settled(s)
  BY <1>0 DEF Inflate, StoreInv, EndingInv, OpeningInv, Settled
<1>2. OnlyOf(s)
  BY <1>0 DEF Inflate, Intact, OnlyOf, Same, TypeOK
<1>3. TypeOK'
  BY SessionLocks, InflateLocks DEF LocksInv
<1>4. StoreInv(s)'
  <2> USE DEF Inflate, Intact, StoreInv, TypeOK, Idle, Quiet, Roles
  <2>1. OpeningInv(s)'
    BY <1>0 DEF OpeningInv, EndingInv, Opened
  <2>2. EndingInv(s)'
    BY <1>0 DEF OpeningInv, EndingInv, Opened
  <2>3. CheckpointBehind(s)'
    BY <1>0, <1>1 DEF OpeningInv, CheckpointBehind, Opened, Settled
  <2>4. WriterBehind(s)'
    BY <1>0 DEF OpeningInv, WriterBehind, Opened
  <2>5. Claims(s)' => Right(s)'
    BY <1>0, <1>1 DEF OpeningInv, EndingInv, Claims, Right, Opened, Settled, CheckpointSound, Files
  <2> QED BY <2>1, <2>2, <2>3, <2>4, <2>5 DEF StoreInv
<1>5. CheckpointSound'
  BY <1>0, StoreAssumption DEF Inflate, Intact, TypeOK, Files, CheckpointSound, StoreInv, OpeningInv
<1> QED BY <1>1, <1>2, <1>3, <1>4, <1>5, StepOfOne

LEMMA InflateFailsKeeps ==
  ASSUME SessionInv, NEW s \in Stores, InflateFails(s)
  PROVE  SessionInv'
<1> USE DEF disk, opening, holding, verify, ends
<1>0. TypeOK /\ CheckpointSound /\ StoreInv(s)
  BY DEF SessionInv
<1>1. ~Settled(s)
  BY <1>0 DEF InflateFails, StoreInv, EndingInv, OpeningInv, Settled
<1>2. OnlyOf(s)
  BY <1>0 DEF InflateFails, DiscardWorkingData, Release, OnlyOf, Same, TypeOK
<1>3. TypeOK'
  BY SessionLocks, InflateFailsLocks DEF LocksInv
<1>4. StoreInv(s)'
  <2> USE DEF InflateFails, DiscardWorkingData, Release, StoreInv, TypeOK, Idle, Quiet, Roles
  <2>1. OpeningInv(s)'
    BY <1>0 DEF OpeningInv, EndingInv, Opened
  <2>2. EndingInv(s)'
    <3>1. closed'[s] = TRUE /\ handle'[s] = FALSE /\ sink'[s] = FALSE
      BY <1>0
    <3>2. ending'[s] # "no" /\ ver'[s] = "over" /\ sealed'[s] = FALSE
      BY <1>0 DEF EndingInv
    <3>3. writer' = writer /\ writer[s]["seal"].phase = "no"
      BY <1>0 DEF EndingInv
    <3>4. CASE ending[s] \in {"no", "done"}
      BY <1>0, <3>1, <3>2, <3>3, <3>4 DEF EndingInv
    <3>5. CASE ending[s] \notin {"no", "done"}
      BY <1>0, <3>1, <3>2, <3>3, <3>5 DEF EndingInv
    <3> QED BY <3>4, <3>5
  <2>3. CheckpointBehind(s)'
    BY <1>0, <1>1 DEF OpeningInv, CheckpointBehind, Opened, Settled
  <2>4. WriterBehind(s)'
    BY <1>0 DEF OpeningInv, WriterBehind, Opened
  <2>5. Claims(s)' => Right(s)'
    BY <1>0, <1>1 DEF OpeningInv, EndingInv, Claims, Right, Opened, Settled, CheckpointSound, Files
  <2> QED BY <2>1, <2>2, <2>3, <2>4, <2>5 DEF StoreInv
<1>5. CheckpointSound'
  BY <1>0, StoreAssumption DEF InflateFails, DiscardWorkingData, Release, TypeOK, Files, CheckpointSound, StoreInv, OpeningInv
<1> QED BY <1>1, <1>2, <1>3, <1>4, <1>5, StepOfOne

LEMMA HashGivesUpKeeps ==
  ASSUME SessionInv, NEW s \in Stores, HashGivesUp(s)
  PROVE  SessionInv'
<1> USE DEF disk, opening, holding, verify, ends
<1>0. TypeOK /\ CheckpointSound /\ StoreInv(s)
  BY DEF SessionInv
<1>1. ~Settled(s)
  BY <1>0 DEF HashGivesUp, StoreInv, EndingInv, OpeningInv, Settled
<1>2. OnlyOf(s)
  BY <1>0 DEF HashGivesUp, OnlyOf, Same, TypeOK
<1>3. TypeOK'
  BY SessionLocks, HashGivesUpLocks DEF LocksInv
<1>4. StoreInv(s)'
  <2> USE DEF HashGivesUp, StoreInv, TypeOK, Idle, Quiet, Roles
  <2>1. OpeningInv(s)'
    BY <1>0 DEF OpeningInv, EndingInv, Opened
  <2>2. EndingInv(s)'
    BY <1>0 DEF OpeningInv, EndingInv, Opened
  <2>3. CheckpointBehind(s)'
    BY <1>0, <1>1 DEF OpeningInv, CheckpointBehind, Opened, Settled
  <2>4. WriterBehind(s)'
    BY <1>0 DEF OpeningInv, WriterBehind, Opened
  <2>5. Claims(s)' => Right(s)'
    BY <1>0, <1>1 DEF OpeningInv, EndingInv, Claims, Right, Opened, Settled, CheckpointSound, Files
  <2> QED BY <2>1, <2>2, <2>3, <2>4, <2>5 DEF StoreInv
<1>5. CheckpointSound'
  BY <1>0, StoreAssumption DEF HashGivesUp, TypeOK, Files, CheckpointSound, StoreInv, OpeningInv
<1> QED BY <1>1, <1>2, <1>3, <1>4, <1>5, StepOfOne

LEMMA HashMismatchKeeps ==
  ASSUME SessionInv, NEW s \in Stores, HashMismatch(s)
  PROVE  SessionInv'
<1> USE DEF disk, opening, holding, verify, ends
<1>0. TypeOK /\ CheckpointSound /\ StoreInv(s)
  BY DEF SessionInv
<1>1. ~Settled(s)
  BY <1>0 DEF HashMismatch, StoreInv, EndingInv, OpeningInv, Settled
<1>2. OnlyOf(s)
  BY <1>0 DEF HashMismatch, DiscardWorkingData, Release, OnlyOf, Same, TypeOK
<1>3. TypeOK'
  BY SessionLocks, HashMismatchLocks DEF LocksInv
<1>4. StoreInv(s)'
  <2> USE DEF HashMismatch, DiscardWorkingData, Release, StoreInv, TypeOK, Idle, Quiet, Roles
  <2>1. OpeningInv(s)'
    BY <1>0 DEF OpeningInv, EndingInv, Opened
  <2>2. EndingInv(s)'
    <3>1. closed'[s] = TRUE /\ handle'[s] = FALSE /\ sink'[s] = FALSE
      BY <1>0
    <3>2. ending'[s] # "no" /\ ver'[s] = "over" /\ sealed'[s] = FALSE
      BY <1>0 DEF EndingInv
    <3>3. writer' = writer /\ writer[s]["seal"].phase = "no"
      BY <1>0 DEF EndingInv
    <3>4. CASE ending[s] \in {"no", "done"}
      BY <1>0, <3>1, <3>2, <3>3, <3>4 DEF EndingInv
    <3>5. CASE ending[s] \notin {"no", "done"}
      BY <1>0, <3>1, <3>2, <3>3, <3>5 DEF EndingInv
    <3> QED BY <3>4, <3>5
  <2>3. CheckpointBehind(s)'
    BY <1>0, <1>1 DEF OpeningInv, CheckpointBehind, Opened, Settled
  <2>4. WriterBehind(s)'
    BY <1>0 DEF OpeningInv, WriterBehind, Opened
  <2>5. Claims(s)' => Right(s)'
    BY <1>0, <1>1 DEF OpeningInv, EndingInv, Claims, Right, Opened, Settled, CheckpointSound, Files
  <2> QED BY <2>1, <2>2, <2>3, <2>4, <2>5 DEF StoreInv
<1>5. CheckpointSound'
  BY <1>0, StoreAssumption DEF HashMismatch, DiscardWorkingData, Release, TypeOK, Files, CheckpointSound, StoreInv, OpeningInv
<1> QED BY <1>1, <1>2, <1>3, <1>4, <1>5, StepOfOne

LEMMA SealKeeps ==
  ASSUME SessionInv, NEW s \in Stores, Seal(s)
  PROVE  SessionInv'
<1> USE DEF disk, opening, holding, verify, ends
<1>0. TypeOK /\ CheckpointSound /\ StoreInv(s)
  BY DEF SessionInv
<1>1. ~Settled(s)
  BY <1>0 DEF Seal, StoreInv, EndingInv, OpeningInv, Settled
<1>2. OnlyOf(s)
  BY <1>0 DEF Seal, OnlyOf, Same, TypeOK
<1>3. TypeOK'
  BY SessionLocks, SealLocks DEF LocksInv
<1>4. StoreInv(s)'
  <2> USE DEF Seal, Hashable, StoreInv, TypeOK, Idle, Quiet, Roles
  <2>1. OpeningInv(s)'
    BY <1>0 DEF OpeningInv, EndingInv, Opened
  <2>2. EndingInv(s)'
    <3>1. /\ ver'[s] = "settling" /\ sealed'[s]
          /\ UNCHANGED <<ending, closed, handle, sink, writer, again, there>>
      BY <1>0
    <3>2. ~again[s] /\ (ending[s] = "removing" => sink[s])
      BY <1>0 DEF EndingInv
    <3> QED BY <1>0, <3>1, <3>2 DEF EndingInv
  <2>3. CheckpointBehind(s)'
    BY <1>0, <1>1 DEF OpeningInv, CheckpointBehind, Opened, Settled
  <2>4. WriterBehind(s)'
    BY <1>0 DEF OpeningInv, WriterBehind, Opened
  <2>5. Claims(s)
    <3>1. CASE closed[s]
      BY <1>0, <3>1 DEF EndingInv, Claims, Opened
    <3>2. CASE ~closed[s]
      BY <1>0, <3>2 DEF EndingInv, Claims, Opened
    <3> QED BY <3>1, <3>2
  <2>6. Right(s)'
    BY <1>0, <2>5 DEF Right, Files
  <2> QED BY <2>1, <2>2, <2>3, <2>4, <2>6 DEF StoreInv
<1>5. CheckpointSound'
  BY <1>0, StoreAssumption DEF Seal, TypeOK, Files, CheckpointSound, StoreInv, OpeningInv
<1> QED BY <1>1, <1>2, <1>3, <1>4, <1>5, StepOfOne

LEMMA SealCheckpointKeeps ==
  ASSUME SessionInv, NEW s \in Stores, SealCheckpoint(s)
  PROVE  SessionInv'
<1> USE DEF disk, opening, holding, verify, ends
<1>0. TypeOK /\ CheckpointSound /\ StoreInv(s)
  BY DEF SessionInv
<1>1. ~Settled(s)
  BY <1>0 DEF SealCheckpoint, StoreInv, EndingInv, OpeningInv, Settled
<1>2. OnlyOf(s)
  BY <1>0 DEF SealCheckpoint, Quiet, Begun, OnlyOf, Same, TypeOK
<1>w. /\ writer' \in [Stores -> [Roles -> [phase : {"no", "begun", "open"},
                                               bits : SUBSET Segments]]]
     /\ writer'[s]["seal"].phase = "begun" /\ writer'[s]["seal"].bits = bits[s]
     /\ \A q \in Roles : q # "seal" => writer'[s][q] = writer[s][q]
     /\ \A t \in Stores : t # s => writer'[t] = writer[t]
  BY WriteBegins DEF SessionInv, TypeOK, SealCheckpoint, Begun, Roles
<1>3. TypeOK'
  BY SessionLocks, SealCheckpointLocks DEF LocksInv
<1>4. StoreInv(s)'
  <2> USE DEF SealCheckpoint, Quiet, Begun, StoreInv, TypeOK, Idle, Quiet, Roles
  <2>1. OpeningInv(s)'
    BY <1>0, <1>w DEF OpeningInv, EndingInv, Opened
  <2>2. EndingInv(s)'
    BY <1>0, <1>w DEF OpeningInv, EndingInv, Opened
  <2>3. CheckpointBehind(s)'
    BY <1>0, <1>1 DEF OpeningInv, CheckpointBehind, Opened, Settled
  <2>4. WriterBehind(s)'
    BY <1>0, <1>w DEF OpeningInv, WriterBehind, Opened
  <2>5. Claims(s)' => Right(s)'
    BY <1>0, <1>1, <1>w DEF OpeningInv, EndingInv, Claims, Right, Opened, Settled, CheckpointSound, Files
  <2> QED BY <2>1, <2>2, <2>3, <2>4, <2>5 DEF StoreInv
<1>5. CheckpointSound'
  BY <1>0, StoreAssumption DEF SealCheckpoint, Quiet, Begun, TypeOK, Files, CheckpointSound, StoreInv, OpeningInv
<1> QED BY <1>1, <1>2, <1>3, <1>4, <1>5, StepOfOne

-----------------------------------------------------------------------------
LEMMA SettledHoldsNothing ==
  ASSUME NEW t \in Stores, StoreInv(t), Settled(t)
  PROVE  ~handle[t] /\ ~sink[t] /\ Idle(t)
BY DEF StoreInv, OpeningInv, EndingInv, Settled, Opened, Idle, Roles, Quiet

\* A new session begins when the last one has settled.
LEMMA OpenKeeps ==
  ASSUME SessionInv, TakesTurns, ResumeFlags = {TRUE}, NEW s \in Stores, Open(s)
  PROVE  SessionInv'
<1> USE DEF disk, opening, holding, verify, ends
<1>0. TypeOK /\ CheckpointSound /\ StoreInv(s)
  BY DEF SessionInv
<1>1. \A t \in Stores : Settled(t)
  BY DEF TakesTurns
<1>2. OnlyOf(s)
  BY <1>0 DEF Open, OnlyOf, Same, TypeOK
<1>3. ASSUME NEW t \in Stores, t # s
      PROVE  Settled(t)' /\ StoreInv(t)'
  BY <1>1, <1>2, <1>3, BystanderKeeps DEF OnlyOf
<1>4. PICK x \in Plans : /\ plan' = [plan EXCEPT ![s] = x]
                         /\ pc' = [pc EXCEPT ![s] = "reading"]
  BY DEF Open
<1>5. TypeOK'
  BY SessionLocks, OpenLocks DEF LocksInv
<1>6. ~handle[s] /\ Idle(s)
  BY <1>0, <1>1, SettledHoldsNothing
<1>7. StoreInv(s)'
  BY <1>0, <1>4, <1>6
     DEF Open, StoreInv, OpeningInv, EndingInv, CheckpointBehind, WriterBehind, Claims,
         Opened, Idle, Quiet, TypeOK, Roles
<1>8. CheckpointSound'
  BY <1>0 DEF Open, CheckpointSound
<1>9. Alone'
  BY <1>3 DEF Alone
<1> QED BY <1>3, <1>5, <1>7, <1>8, <1>9 DEF SessionInv

\* open() removes the directory with nothing to hold it.
LEMMA ClearKeeps ==
  ASSUME SessionInv, NEW s \in Stores, Clear(s)
  PROVE  SessionInv'
<1> USE DEF disk, opening, holding, verify, ends
<1>0. TypeOK /\ CheckpointSound /\ StoreInv(s)
  BY DEF SessionInv
<1>1. ~Settled(s)
  BY DEF Clear, Settled
<1>2. OnlyOf(s)
  BY <1>0 DEF Clear, OnlyOf, Same, TypeOK
<1>3. ASSUME NEW t \in Stores
      PROVE  ~handle[t] /\ ~sink[t] /\ Idle(t)
  <2>1. CASE t = s
    BY <1>0, <2>1 DEF Clear, StoreInv, OpeningInv, Opened
  <2>2. CASE t # s
    <3>1. Settled(t)
      BY <1>1, <2>2 DEF SessionInv, Alone
    <3> QED BY <3>1, SettledHoldsNothing DEF SessionInv
  <2> QED BY <2>1, <2>2
<1>4. ~Held
  BY <1>3 DEF Held, Idle
<1>5. there' = FALSE /\ file' = NoFile /\ stable' = NoFile /\ ckpt' = Absent
  BY <1>4 DEF Clear, RemoveDirectory
<1>6. TypeOK'
  BY SessionLocks, ClearLocks DEF LocksInv
<1>7. StoreInv(s)'
  BY <1>0, <1>5
     DEF Clear, StoreInv, OpeningInv, EndingInv, CheckpointBehind, WriterBehind, Claims,
         Opened, Idle, Quiet, TypeOK, Roles, Absent
<1>8. CheckpointSound'
  BY <1>5 DEF CheckpointSound, Absent
<1> QED BY <1>1, <1>2, <1>6, <1>7, <1>8, StepOfOne

\* dispose('discard'): the directory goes, or something in it is still held.
LEMMA RemoveKeeps ==
  ASSUME SessionInv, NEW s \in Stores, Remove(s)
  PROVE  SessionInv'
<1> USE DEF disk, opening, holding, verify, ends
<1>0. TypeOK /\ CheckpointSound /\ StoreInv(s)
  BY DEF SessionInv
<1>1. ~Settled(s)
  BY DEF Remove, Settled
<1>2. OnlyOf(s)
  BY <1>0 DEF Remove, Disposed, OnlyOf, Same, TypeOK
<1>3. \/ UNCHANGED disk
      \/ there' = FALSE /\ file' = NoFile /\ stable' = NoFile /\ ckpt' = Absent
  BY DEF Remove, RemoveDirectory
<1>4. TypeOK'
  BY SessionLocks, RemoveLocks DEF LocksInv
<1>5. closed[s] /\ ~handle[s] /\ pc[s] = "open" /\ ending[s] = "removing"
  BY <1>0 DEF Remove, StoreInv, EndingInv
<1>6. ending'[s] = "done" \/ (ending'[s] = "settling" /\ policy'[s] = "discard")
  BY <1>0 DEF Remove, Disposed, TypeOK
<1>7. CASE Held
  <2>1. UNCHANGED disk
    BY <1>7 DEF Remove, RemoveDirectory
  <2>2. OpeningInv(s)' /\ EndingInv(s)'
    BY <1>0, <1>5, <1>6, <2>1
       DEF Remove, Disposed, StoreInv, OpeningInv, EndingInv, Opened, Idle, Quiet, TypeOK
  <2>3. CheckpointBehind(s)' /\ WriterBehind(s)'
    BY <1>0, <1>1, <2>1 DEF Remove, StoreInv, CheckpointBehind, WriterBehind, Opened
  <2>4. Claims(s)' => Claims(s)
    BY <1>1, <1>6, <2>1 DEF Remove, Claims, Opened, Settled, Idle
  <2>5. Claims(s)' => Right(s)'
    BY <1>0, <2>1, <2>4 DEF Remove, StoreInv, Right
  <2>6. CheckpointSound'
    BY <1>0, <2>1 DEF CheckpointSound
  <2> QED BY <1>1, <1>2, <1>4, <2>2, <2>3, <2>5, <2>6, StepOfOne DEF StoreInv
<1>8. CASE ~Held
  <2>1. there' = FALSE /\ file' = NoFile /\ stable' = NoFile /\ ckpt' = Absent
    BY <1>8 DEF Remove, RemoveDirectory
  <2>2. ~sink[s] /\ (sealed[s] => ver[s] = "over")
    BY <1>0, <1>5, <1>8 DEF Held, StoreInv, EndingInv
  <2>3. Idle(s)
    BY <1>0, <1>5, <2>2 DEF StoreInv, EndingInv, Idle, Quiet, Roles
  <2>4. OpeningInv(s)' /\ EndingInv(s)'
    BY <1>0, <1>5, <1>6, <2>1, <2>2
       DEF Remove, Disposed, StoreInv, OpeningInv, EndingInv, Opened, Idle, Quiet, TypeOK
  <2>5. CheckpointBehind(s)' /\ WriterBehind(s)' /\ CheckpointSound'
    BY <1>0, <2>1
       DEF Remove, StoreInv, CheckpointBehind, CheckpointSound, WriterBehind, Absent
  <2>6. sealed[s] => Settled(s)'
    BY <1>0, <1>5, <2>2 DEF Remove, Disposed, Settled, StoreInv, EndingInv, TypeOK
  <2>7. ~Claims(s)'
    BY <1>6, <2>1, <2>3, <2>6 DEF Remove, Claims, Idle
  <2> QED BY <1>1, <1>2, <1>4, <2>4, <2>5, <2>7, StepOfOne DEF StoreInv
<1> QED BY <1>7, <1>8
-----------------------------------------------------------------------------
(* Checkpoint writes *)

WriterStates == [Roles -> [phase : {"no", "begun", "open"}, bits : SUBSET Segments]]

\* What a write in flight would put on the device is there.
LEMMA WriterClaims ==
  ASSUME SessionInv, NEW s \in Stores, NEW r \in Roles, writer[s][r].phase # "no"
  PROVE  /\ ~Settled(s) /\ Opened(s)
         /\ Right(s)
         /\ plan[s] \in Plans
         /\ writer[s][r].bits \subseteq bits[s]
<1>1. StoreInv(s)
  BY DEF SessionInv
<1>2. ~Idle(s)
  BY DEF Idle
<1>3. ~Settled(s)
  BY <1>1, <1>2, SettledHoldsNothing
<1>4. Opened(s)
  BY <1>1, <1>2 DEF StoreInv, OpeningInv
<1>5. Right(s)
  BY <1>1, <1>2, <1>4 DEF StoreInv, Claims
<1> QED BY <1>1, <1>3, <1>4, <1>5 DEF StoreInv, OpeningInv, WriterBehind, Opened

\* Wherever a write ends, well or badly, the checkpoint it leaves is sound.
LEMMA CheckpointLeft ==
  ASSUME SessionInv, NEW s \in Stores, NEW r \in Roles, writer[s][r].phase # "no",
         UNCHANGED <<file, stable>>,
         plan'[s] = plan[s], bits'[s] = bits[s],
         ckpt' = ckpt \/ ckpt' = Snapshot(plan[s], writer[s][r].bits)
  PROVE  /\ ckpt' \in Checkpoints
         /\ CheckpointSound'
         /\ Right(s)'
         /\ ckpt'.kind = "good" => ckpt'.plan = plan'[s] /\ ckpt'.bits \subseteq bits'[s]
<1>0. TypeOK /\ CheckpointSound /\ StoreInv(s)
  BY DEF SessionInv
<1>1. /\ ~Settled(s) /\ Opened(s) /\ Right(s)
      /\ plan[s] \in Plans /\ writer[s][r].bits \subseteq bits[s]
  BY WriterClaims
<1>2. ckpt' \in Checkpoints
  BY <1>0, <1>1 DEF Snapshot, Checkpoints, TypeOK
<1>3. Right(s)'
  BY <1>1 DEF Right
<1>4. ckpt'.kind = "good" => ckpt'.plan = plan'[s] /\ ckpt'.bits \subseteq bits'[s]
  BY <1>0, <1>1 DEF Snapshot, StoreInv, CheckpointBehind
<1>5. CheckpointSound'
  BY <1>3, <1>4 DEF CheckpointSound, Right
<1> QED BY <1>2, <1>3, <1>4, <1>5

LEMMA WriterOpensKeeps ==
  ASSUME SessionInv, NEW s \in Stores, NEW r \in Roles, WriterOpens(s, r)
  PROVE  SessionInv'
<1> USE DEF disk, opening, holding, verify, ends
<1>0. TypeOK /\ CheckpointSound /\ StoreInv(s)
  BY DEF SessionInv
<1>1. /\ ~Settled(s) /\ Opened(s) /\ Right(s)
      /\ plan[s] \in Plans /\ writer[s][r].bits \subseteq bits[s]
  BY WriterClaims DEF WriterOpens
<1>2. OnlyOf(s)
  BY <1>0 DEF WriterOpens, OnlyOf, Same, TypeOK
<1>3. /\ writer'[s][r].phase = "open" /\ writer'[s][r].bits = writer[s][r].bits
      /\ \A q \in Roles : q # r => writer'[s][q] = writer[s][q]
      /\ writer' \in [Stores -> WriterStates]
  <2> DEFINE w == [writer[s][r] EXCEPT !.phase = "open"]
             ws == [writer[s] EXCEPT ![r] = w]
  <2>1. writer' = [writer EXCEPT ![s] = ws]
    BY DEF WriterOpens
  <2>2. writer[s] \in WriterStates
    BY <1>0 DEF TypeOK, WriterStates
  <2>3. /\ w.phase = "open" /\ w.bits = writer[s][r].bits
        /\ w \in [phase : {"no", "begun", "open"}, bits : SUBSET Segments]
    BY <2>2 DEF WriterStates
  <2>4. ws[r] = w /\ ws \in WriterStates /\ \A q \in Roles : q # r => ws[q] = writer[s][q]
    BY <2>2, <2>3 DEF WriterStates
  <2>5. writer'[s] = ws
    BY <1>0, <2>1 DEF TypeOK
  <2>6. writer' \in [Stores -> WriterStates]
    BY <1>0, <2>1, <2>4 DEF TypeOK, WriterStates
  <2> QED BY <2>3, <2>4, <2>5, <2>6
<1>4. TypeOK'
  BY SessionLocks, WriterOpensLocks DEF LocksInv
<1>5. OpeningInv(s)' /\ EndingInv(s)' /\ WriterBehind(s)'
  BY <1>0, <1>1, <1>3
     DEF WriterOpens, StoreInv, OpeningInv, EndingInv, WriterBehind, Opened, Idle, Quiet, Roles
<1>6. CheckpointBehind(s)' /\ CheckpointSound'
  BY <1>0, <1>1
     DEF WriterOpens, StoreInv, CheckpointBehind, CheckpointSound, Opened, Unreadable
<1>7. Right(s)'
  BY <1>1 DEF WriterOpens, Right
<1> QED BY <1>1, <1>2, <1>4, <1>5, <1>6, <1>7, StepOfOne DEF StoreInv

\* The three ways a write may end have the same effect on what is not theirs.
LEMMA WriteEnds ==
  ASSUME TypeOK, NEW s \in Stores, NEW r \in Roles,
         NEW v \in [phase : {"no", "begun", "open"}, bits : SUBSET Segments],
         writer' = [writer EXCEPT ![s][r] = v]
  PROVE  /\ writer'[s][r] = v
         /\ \A q \in Roles : q # r => writer'[s][q] = writer[s][q]
         /\ \A t \in Stores : t # s => writer'[t] = writer[t]
         /\ writer' \in [Stores -> WriterStates]
BY DEF TypeOK, WriterStates

LEMMA ProgressOverKeeps ==
  ASSUME SessionInv, NEW s \in Stores, writer[s]["progress"].phase # "no",
         WriteOver(s, "progress"),
         ckpt' = ckpt \/ ckpt' = Snapshot(plan[s], writer[s]["progress"].bits)
  PROVE  SessionInv'
<1> USE DEF disk, opening, holding, verify, ends
<1>0. TypeOK /\ CheckpointSound /\ StoreInv(s) /\ "progress" \in Roles
  BY DEF SessionInv, Roles
<1>1. /\ ~Settled(s) /\ Opened(s) /\ plan[s] \in Plans
  BY <1>0, WriterClaims
<1>2. /\ ckpt' \in Checkpoints /\ CheckpointSound' /\ Right(s)'
      /\ ckpt'.kind = "good" => ckpt'.plan = plan'[s] /\ ckpt'.bits \subseteq bits'[s]
  BY <1>0, CheckpointLeft DEF WriteOver
<1>3. AfterProgress(s)
  BY DEF WriteOver
<1>4. PICK v \in {NotWriting, [phase |-> "begun", bits |-> bits[s]]} :
        /\ writer' = [writer EXCEPT ![s]["progress"] = v]
        /\ v.phase # "no" => pc[s] = "open" /\ ~closed[s]
  <2>1. CASE pc[s] = "persisting" \/ ~Reschedules(s)
    <3>1. writer' = [writer EXCEPT ![s]["progress"] = NotWriting]
      BY <1>3, <2>1 DEF AfterProgress
    <3> WITNESS NotWriting \in {NotWriting, [phase |-> "begun", bits |-> bits[s]]}
    <3> QED BY <3>1 DEF NotWriting
  <2>2. CASE pc[s] # "persisting" /\ Reschedules(s)
    <3>1. writer' = [writer EXCEPT ![s]["progress"] = [phase |-> "begun", bits |-> bits[s]]]
      BY <1>3, <2>2 DEF AfterProgress, Begun
    <3>2. pc[s] = "open" /\ ~closed[s]
      BY <1>0, <2>2, <1>1 DEF Reschedules, Opened, StoreInv, OpeningInv, Idle
    <3> WITNESS [phase |-> "begun", bits |-> bits[s]]
                  \in {NotWriting, [phase |-> "begun", bits |-> bits[s]]}
    <3> QED BY <3>1, <3>2
  <2> QED BY <2>1, <2>2
<1>5. v \in [phase : {"no", "begun", "open"}, bits : SUBSET Segments]
  BY <1>0, <1>4 DEF NotWriting, TypeOK
<1>6. /\ writer'[s]["progress"] = v
      /\ \A q \in Roles : q # "progress" => writer'[s][q] = writer[s][q]
      /\ \A t \in Stores : t # s => writer'[t] = writer[t]
      /\ writer' \in [Stores -> WriterStates]
  BY <1>0, <1>4, <1>5, WriteEnds
<1>7. /\ pc' \in {pc, [pc EXCEPT ![s] = "open"]}
      /\ ending' \in {ending, [ending EXCEPT ![s] = "settling"]}
      /\ dirty' \in {dirty, [dirty EXCEPT ![s] = FALSE]}
      /\ (closed' = closed /\ handle' = handle) \/ Release({s})
      /\ UNCHANGED <<there, file, stable, plan, adopts, stale, bits, sealed, crashes,
                     ver, sink, policy, again>>
  BY <1>3 DEF AfterProgress, WriteOver
<1>8. TypeOK'
  BY <1>0, <1>2, SessionLocks, WriteOverLocks DEF LocksInv
<1>9. ASSUME NEW t \in Stores, t # s
      PROVE  Same(t)
  <2>1. pc'[t] = pc[t] /\ ending'[t] = ending[t] /\ dirty'[t] = dirty[t]
    BY <1>0, <1>7, <1>9 DEF TypeOK
  <2>2. closed'[t] = closed[t] /\ handle'[t] = handle[t]
    <3>1. CASE closed' = closed /\ handle' = handle
      BY <3>1
    <3>2. CASE Release({s})
      BY <1>0, <1>9, <3>2 DEF TypeOK, Release
    <3> QED BY <1>7, <3>1, <3>2
  <2> QED BY <1>6, <1>7, <1>9, <2>1, <2>2 DEF Same
<1>10. WriterBehind(s)'
  <2>1. bits' = bits /\ (v.phase # "no" => v.bits \subseteq bits[s])
    BY <1>4, <1>7 DEF NotWriting
  <2>2. ASSUME NEW r \in Roles, writer'[s][r].phase # "no"
        PROVE  writer'[s][r].bits \subseteq bits[s]
    <3>1. CASE r = "progress"
      BY <1>6, <2>1, <2>2, <3>1
    <3>2. CASE r # "progress"
      BY <1>0, <1>6, <2>2, <3>2 DEF StoreInv, WriterBehind
    <3> QED BY <3>1, <3>2
  <2> QED BY <2>1, <2>2 DEF WriterBehind
<1>11. OpeningInv(s)' /\ EndingInv(s)'
  <2> USE <1>0, <1>4, <1>6, <1>7
      DEF StoreInv, OpeningInv, EndingInv, Opened, Idle, Quiet, Roles
  <2>1. CASE pc[s] = "persisting" /\ stale[s]
    BY <1>1, <1>3, <2>1 DEF AfterProgress, Release, TypeOK
  <2>2. CASE pc[s] = "persisting" /\ ~stale[s]
    BY <1>1, <1>3, <2>2 DEF AfterProgress, TypeOK
  <2>3. CASE pc[s] # "persisting"
    BY <1>1, <1>3, <2>3 DEF AfterProgress, TypeOK
  <2> QED BY <2>1, <2>2, <2>3
<1> QED BY <1>1, <1>2, <1>8, <1>9, <1>10, <1>11, StepOfOne
        DEF StoreInv, CheckpointBehind, OnlyOf

LEMMA SealOverKeeps ==
  ASSUME SessionInv, NEW s \in Stores, writer[s]["seal"].phase # "no",
         WriteOver(s, "seal"),
         ckpt' = ckpt \/ ckpt' = Snapshot(plan[s], writer[s]["seal"].bits)
  PROVE  SessionInv'
<1> USE DEF disk, opening, holding, verify, ends
<1>0. TypeOK /\ CheckpointSound /\ StoreInv(s) /\ "seal" \in Roles
  BY DEF SessionInv, Roles
<1>1. /\ ~Settled(s) /\ Opened(s) /\ plan[s] \in Plans
  BY <1>0, WriterClaims
<1>2. /\ ckpt' \in Checkpoints /\ CheckpointSound' /\ Right(s)'
      /\ ckpt'.kind = "good" => ckpt'.plan = plan'[s] /\ ckpt'.bits \subseteq bits'[s]
  BY <1>0, CheckpointLeft DEF WriteOver
<1>3. /\ AfterSeal(s)
      /\ UNCHANGED <<there, file, stable, plan, adopts, stale, bits, sealed, crashes>>
  BY DEF WriteOver
<1>4. NotWriting \in [phase : {"no", "begun", "open"}, bits : SUBSET Segments]
  BY DEF NotWriting
<1>5. /\ writer'[s]["seal"] = NotWriting
      /\ \A q \in Roles : q # "seal" => writer'[s][q] = writer[s][q]
      /\ \A t \in Stores : t # s => writer'[t] = writer[t]
      /\ writer' \in [Stores -> WriterStates]
  BY <1>0, <1>3, <1>4, WriteEnds DEF AfterSeal
<1>6. TypeOK'
  BY <1>0, <1>2, SessionLocks, WriteOverLocks DEF LocksInv
<1>7. OnlyOf(s)
  BY <1>0, <1>3, <1>5 DEF AfterSeal, OnlyOf, Same, TypeOK
<1>8. WriterBehind(s)' /\ EndingInv(s)' /\ OpeningInv(s)'
  BY <1>0, <1>1, <1>3, <1>5
     DEF AfterSeal, StoreInv, OpeningInv, EndingInv, WriterBehind, Opened, Idle, Quiet,
         Roles, TypeOK, NotWriting
<1> QED BY <1>1, <1>2, <1>6, <1>7, <1>8, StepOfOne DEF StoreInv, CheckpointBehind

LEMMA EndOverKeeps ==
  ASSUME SessionInv, NEW s \in Stores, writer[s]["end"].phase # "no",
         WriteOver(s, "end"),
         ckpt' = ckpt \/ ckpt' = Snapshot(plan[s], writer[s]["end"].bits)
  PROVE  SessionInv'
<1> USE DEF disk, opening, holding, verify, ends
<1>0. TypeOK /\ CheckpointSound /\ StoreInv(s) /\ "end" \in Roles
  BY DEF SessionInv, Roles
<1>1. /\ ~Settled(s) /\ Opened(s) /\ plan[s] \in Plans
  BY <1>0, WriterClaims
<1>2. /\ ckpt' \in Checkpoints /\ CheckpointSound' /\ Right(s)'
      /\ ckpt'.kind = "good" => ckpt'.plan = plan'[s] /\ ckpt'.bits \subseteq bits'[s]
  BY <1>0, CheckpointLeft DEF WriteOver
<1>3. /\ AfterEnd(s)
      /\ UNCHANGED <<there, file, stable, plan, adopts, stale, bits, sealed, crashes>>
  BY DEF WriteOver
<1>4. NotWriting \in [phase : {"no", "begun", "open"}, bits : SUBSET Segments]
  BY DEF NotWriting
<1>5. /\ writer'[s]["end"] = NotWriting
      /\ \A q \in Roles : q # "end" => writer'[s][q] = writer[s][q]
      /\ \A t \in Stores : t # s => writer'[t] = writer[t]
      /\ writer' \in [Stores -> WriterStates]
  BY <1>0, <1>3, <1>4, WriteEnds DEF AfterEnd
<1>6. TypeOK'
  BY <1>0, <1>2, SessionLocks, WriteOverLocks DEF LocksInv
<1>7. OnlyOf(s)
  BY <1>0, <1>3, <1>5 DEF AfterEnd, Disposed, OnlyOf, Same, TypeOK
<1>8. WriterBehind(s)' /\ EndingInv(s)' /\ OpeningInv(s)'
  BY <1>0, <1>1, <1>3, <1>5
     DEF AfterEnd, Disposed, StoreInv, OpeningInv, EndingInv, WriterBehind, Opened, Idle,
         Quiet, Roles, TypeOK, NotWriting
<1> QED BY <1>1, <1>2, <1>6, <1>7, <1>8, StepOfOne DEF StoreInv, CheckpointBehind

LEMMA CheckpointingKeeps ==
  ASSUME SessionInv, NEW s \in Stores, Checkpointing(s)
  PROVE  SessionInv'
<1>1. PICK r \in Roles : WriterOpens(s, r) \/ WriterLands(s, r) \/ WriterFails(s, r)
  BY DEF Checkpointing
<1>2. CASE WriterOpens(s, r)
  BY <1>2, WriterOpensKeeps
<1>3. CASE WriterLands(s, r) \/ WriterFails(s, r)
  <2>1. /\ writer[s][r].phase # "no" /\ WriteOver(s, r)
        /\ ckpt' = ckpt \/ ckpt' = Snapshot(plan[s], writer[s][r].bits)
    BY <1>3 DEF WriterLands, WriterFails
  <2> QED BY <2>1, ProgressOverKeeps, SealOverKeeps, EndOverKeeps DEF Roles
<1> QED BY <1>1, <1>2, <1>3
-----------------------------------------------------------------------------
(* write() *)

\* Only a store whose session is on writes.
LEMMA WritableClaims ==
  ASSUME SessionInv, NEW s \in Stores, NEW i \in Segments, Writable(s, i)
  PROVE  /\ ~Settled(s) /\ ~closed[s] /\ ending[s] = "no"
         /\ Claims(s) /\ Right(s) /\ plan[s] \in Plans
<1>1. StoreInv(s)
  BY DEF SessionInv
<1>2. ~closed[s] /\ ending[s] = "no"
  BY <1>1 DEF StoreInv, EndingInv, Writable
<1>3. Claims(s)
  BY <1>2 DEF Claims, Opened, Writable
<1>4. plan[s] \in Plans
  BY <1>1 DEF StoreInv, OpeningInv, Writable
<1> QED BY <1>1, <1>2, <1>3, <1>4 DEF StoreInv, Settled, Writable

\* A cell that is not claimed yet may come to hold anything.
LEMMA UnclaimedMayChange ==
  ASSUME SessionInv, NEW s \in Stores, NEW i \in Segments, Writable(s, i),
         NEW c \in Cells,
         file' = [file EXCEPT !.cells[i] = c],
         stable' = stable \/ stable' = file',
         ckpt' = ckpt, plan' = plan
  PROVE  /\ file' \in Files /\ stable' \in Files
         /\ \A j \in bits[s] : file'.cells[j] = plan'[s] /\ stable'.cells[j] = plan'[s]
         /\ CheckpointSound'
<1>0. TypeOK /\ StoreInv(s)
  BY DEF SessionInv
<1>1. ~Settled(s) /\ Right(s) /\ plan[s] \in Plans /\ pc[s] = "open" /\ i \notin bits[s]
  BY WritableClaims DEF Writable
<1>2. /\ file' \in Files
      /\ \A j \in Segments : j # i => file'.cells[j] = file.cells[j]
  <2> DEFINE cs == [file.cells EXCEPT ![i] = c]
  <2>1. cs \in [Segments -> Cells] /\ \A j \in Segments : j # i => cs[j] = file.cells[j]
    BY <1>0 DEF TypeOK, Files
  <2>2. file' = [file EXCEPT !.cells = cs]
    OBVIOUS
  <2> HIDE DEF cs
  <2>3. file' \in Files /\ file'.cells = cs
    BY <1>0, <2>1, <2>2 DEF TypeOK, Files
  <2> QED BY <2>1, <2>3
<1>3. stable' \in Files
  BY <1>0, <1>2 DEF TypeOK
<1>4. bits[s] \subseteq Segments
  BY <1>0 DEF TypeOK
<1>5. \A j \in bits[s] : file'.cells[j] = plan'[s] /\ stable'.cells[j] = plan'[s]
  BY <1>1, <1>2, <1>4 DEF Right
<1>6. ckpt.kind = "good" => ckpt.plan = plan[s] /\ ckpt.bits \subseteq bits[s]
  BY <1>0, <1>1 DEF StoreInv, CheckpointBehind, Opened
<1>7. CheckpointSound'
  BY <1>5, <1>6 DEF CheckpointSound
<1> QED BY <1>2, <1>3, <1>5, <1>7

LEMMA WriteKeeps ==
  ASSUME SessionInv, NEW s \in Stores, NEW i \in Segments, Write(s, i)
  PROVE  SessionInv'
<1> USE DEF disk, opening, holding, verify, ends
<1>0. TypeOK /\ CheckpointSound /\ StoreInv(s)
  BY DEF SessionInv
<1>1. /\ ~Settled(s) /\ ~closed[s] /\ ending[s] = "no"
      /\ Claims(s) /\ Right(s) /\ plan[s] \in Plans /\ pc[s] = "open"
  BY WritableClaims DEF Write, Writable
<1>2. /\ file' \in Files /\ stable' \in Files /\ CheckpointSound'
      /\ \A j \in bits[s] : file'.cells[j] = plan'[s] /\ stable'.cells[j] = plan'[s]
  <2>1. plan[s] \in Cells /\ Writable(s, i)
    BY <1>1 DEF Cells, Write
  <2> QED BY <2>1, UnclaimedMayChange DEF Write, Flushed
<1>3. /\ file'.cells[i] = plan'[s] /\ stable'.cells[i] = plan'[s]
  BY <1>0 DEF Write, Flushed, TypeOK, Files
<1> DEFINE B == bits[s] \cup {i}
<1>4. B \in SUBSET Segments /\ bits'[s] = B /\ bits' \in [Stores -> SUBSET Segments]
  BY <1>0 DEF Write, TypeOK
<1>5. /\ writer' \in [Stores -> WriterStates]
      /\ dirty' \in [Stores -> BOOLEAN]
      /\ \A q \in Roles : q # "progress" => writer'[s][q] = writer[s][q]
      /\ writer'[s]["progress"].bits \in {writer[s]["progress"].bits, B}
      /\ \A t \in Stores : t # s => writer'[t] = writer[t] /\ dirty'[t] = dirty[t]
  <2>1. CASE writer[s]["progress"].phase # "no"
    BY <1>0, <2>1 DEF Write, ScheduleCheckpoint, TypeOK, WriterStates
  <2>2. CASE writer[s]["progress"].phase = "no"
    <3>1. writer' = [writer EXCEPT ![s]["progress"] = [phase |-> "begun", bits |-> B]]
      BY <2>2 DEF Write, ScheduleCheckpoint
    <3>2. "progress" \in Roles /\ dirty' = dirty
      BY <2>2 DEF Roles, Write, ScheduleCheckpoint
    <3>3. [phase |-> "begun", bits |-> B] \in [phase : {"no", "begun", "open"}, bits : SUBSET Segments]
      BY <1>4
    <3> HIDE DEF B
    <3>4. /\ writer'[s]["progress"] = [phase |-> "begun", bits |-> B]
          /\ \A q \in Roles : q # "progress" => writer'[s][q] = writer[s][q]
          /\ \A t \in Stores : t # s => writer'[t] = writer[t]
          /\ writer' \in [Stores -> WriterStates]
      BY <1>0, <3>1, <3>2, <3>3, WriteEnds
    <3> QED BY <1>0, <3>2, <3>4 DEF TypeOK
  <2> QED BY <2>1, <2>2
<1>6. TypeOK'
  BY SessionLocks, WriteLocks DEF LocksInv
<1>7. OnlyOf(s)
  BY <1>0, <1>5 DEF Write, OnlyOf, Same, TypeOK
<1>8. WriterBehind(s)'
  <2>1. ASSUME NEW r \in Roles, writer'[s][r].phase # "no"
        PROVE  writer'[s][r].bits \subseteq bits'[s]
    <3>1. CASE r # "progress"
      BY <1>0, <1>4, <1>5, <2>1, <3>1 DEF StoreInv, WriterBehind
    <3>2. CASE r = "progress" /\ writer[s][r].phase = "no"
      <4>1. writer'[s][r].bits = B
        BY <1>0, <1>4, <3>2 DEF Write, ScheduleCheckpoint, TypeOK, Roles
      <4> QED BY <1>4, <4>1
    <3>3. CASE r = "progress" /\ writer[s][r].phase # "no"
      BY <1>0, <1>4, <1>5, <3>3 DEF StoreInv, WriterBehind, Roles
    <3> QED BY <3>1, <3>2, <3>3
  <2> QED BY <2>1 DEF WriterBehind
<1>9. OpeningInv(s)' /\ EndingInv(s)'
  BY <1>0, <1>1, <1>4, <1>5
     DEF Write, Writable, StoreInv, OpeningInv, EndingInv, Opened, Idle, Quiet, Roles
<1>10. CheckpointBehind(s)'
  BY <1>0, <1>1, <1>4 DEF Write, StoreInv, CheckpointBehind, Opened
<1>11. Right(s)'
  BY <1>2, <1>3, <1>4 DEF Right
<1> QED BY <1>1, <1>2, <1>6, <1>7, <1>8, <1>9, <1>10, <1>11, StepOfOne DEF StoreInv

LEMMA WriteRefusedKeeps ==
  ASSUME SessionInv, NEW s \in Stores, NEW i \in Segments, WriteRefused(s, i)
  PROVE  SessionInv'
<1> USE DEF disk, opening, holding, verify, ends
<1>0. TypeOK /\ CheckpointSound /\ StoreInv(s)
  BY DEF SessionInv
<1>1. /\ ~Settled(s) /\ ~closed[s] /\ ending[s] = "no"
      /\ Claims(s) /\ Right(s) /\ plan[s] \in Plans /\ pc[s] = "open" /\ ver[s] = "no"
  BY WritableClaims DEF WriteRefused, Writable
<1>2. /\ file' \in Files /\ stable' \in Files /\ CheckpointSound'
      /\ \A j \in bits[s] : file'.cells[j] = plan'[s] /\ stable'.cells[j] = plan'[s]
  <2>1. PICK c \in {file.cells[i], Torn, plan[s]} : file' = [file EXCEPT !.cells[i] = c]
    BY DEF WriteRefused
  <2>2. c \in Cells
    BY <1>0, <1>1, <2>1 DEF Cells, TypeOK, Files
  <2>3. Writable(s, i) /\ stable' = stable /\ ckpt' = ckpt /\ plan' = plan
    BY DEF WriteRefused
  <2> QED BY <2>1, <2>2, <2>3, UnclaimedMayChange
<1>3. TypeOK'
  BY SessionLocks, WriteRefusedLocks DEF LocksInv
<1>4. OnlyOf(s)
  BY <1>0 DEF WriteRefused, OnlyOf, Same, TypeOK
<1>5. OpeningInv(s)' /\ EndingInv(s)' /\ WriterBehind(s)' /\ CheckpointBehind(s)'
  BY <1>0, <1>1
     DEF WriteRefused, StoreInv, OpeningInv, EndingInv, WriterBehind, CheckpointBehind,
         Opened, Idle, Quiet, Roles, TypeOK
<1>6. Right(s)'
  BY <1>2 DEF WriteRefused, Right
<1> QED BY <1>1, <1>2, <1>3, <1>4, <1>5, <1>6, StepOfOne DEF StoreInv
-----------------------------------------------------------------------------
(* A crash *)

\* What the device comes back with is, cell by cell, what it or the process had.
LEMMA SurvivorIsSound ==
  ASSUME TypeOK, CheckpointSound, Crash
  PROVE  /\ file' \in Files /\ stable' \in Files /\ ckpt' \in Checkpoints
         /\ CheckpointSound'
<1>1. PICK gone \in SUBSET {"data", "checkpoint"} :
        /\ IF "data" \in gone
           THEN file' = NoFile
           ELSE \E f \in [size : {file.size, stable.size}, cells : [Segments -> Cells]] :
                  Survives(f) /\ file' = f
        /\ ckpt' = IF "checkpoint" \in gone THEN Absent ELSE ckpt
  BY DEF Crash
<1>2. stable' = file'
  BY DEF Crash
<1>3. ckpt' \in Checkpoints
  BY <1>1 DEF TypeOK, Absent, Checkpoints
<1>4. file' = NoFile \/ (file' \in Files /\ Survives(file'))
  BY <1>1 DEF TypeOK, Files
<1>5. file' \in Files
  BY <1>4 DEF NoFile, Files, Cells
<1>6. ASSUME NEW p \in Plans, ckpt'.kind = "good", ckpt'.plan = p, file'.size = Size[p],
             NEW i \in ckpt'.bits
      PROVE  file'.cells[i] = p
  <2>1. ckpt' = ckpt
    BY <1>1, <1>6 DEF Absent
  <2>2. Survives(file')
    BY <1>4, <1>6, StoreAssumption DEF NoFile
  <2>3. i \in Segments
    BY <1>3, <1>6 DEF Checkpoints
  <2>4. file.cells[i] = p /\ stable.cells[i] = p
    BY <1>6, <2>1, <2>2 DEF Survives, CheckpointSound
  <2> QED BY <2>2, <2>3, <2>4 DEF Survives
<1>7. CheckpointSound'
  BY <1>2, <1>6 DEF CheckpointSound
<1> QED BY <1>2, <1>3, <1>5, <1>7

LEMMA CrashKeeps ==
  ASSUME SessionInv, Crash
  PROVE  SessionInv'
<1>0. TypeOK /\ CheckpointSound
  BY DEF SessionInv
<1>1. /\ file' \in Files /\ stable' \in Files /\ ckpt' \in Checkpoints
      /\ CheckpointSound'
  BY <1>0, SurvivorIsSound
<1>2. pc' \in [Stores -> {"unused", "dead"}]
  BY DEF Crash
<1>3. TypeOK'
  BY SessionLocks, CrashLocks DEF LocksInv
<1>4. ASSUME NEW s \in Stores
      PROVE  StoreInv(s)' /\ Settled(s)'
  <2>1. pc'[s] \in {"unused", "dead"}
    BY <1>2
  <2>2. Settled(s)' /\ ~Opened(s)'
    BY <2>1 DEF Settled, Opened
  <2>3. \A r \in Roles : writer'[s][r].phase = "no"
    BY DEF Crash, All, NotWriting
  <2>4. /\ ending'[s] = "no" /\ ver'[s] = "no" /\ ~closed'[s] /\ ~sealed'[s]
        /\ ~again'[s] /\ ~sink'[s] /\ ~handle'[s]
    BY DEF Crash, All
  <2> QED BY <2>1, <2>2, <2>3, <2>4
          DEF StoreInv, OpeningInv, EndingInv, CheckpointBehind, WriterBehind, Claims,
              Idle, Quiet, Roles
<1>5. Alone'
  BY <1>4 DEF Alone
<1> QED BY <1>1, <1>3, <1>4, <1>5 DEF SessionInv
-----------------------------------------------------------------------------
(* The theorems *)

\* The step lemmas together: no step leaves the invariant.
LEMMA SessionInductive ==
  ASSUME ResumeFlags = {TRUE}, SessionInv, [Next]_vars, [TakesTurns]_vars
  PROVE  SessionInv'
<1>8. CASE UNCHANGED vars
  BY <1>8 DEF vars, disk, opening, holding, verify, ends, SessionInv, TypeOK, Alone,
     CheckpointSound, StoreInv, OpeningInv, EndingInv, CheckpointBehind, WriterBehind,
     Claims, Right, Settled, Opened, Idle, Quiet
<1>1. ASSUME NEW s \in Stores, Open(s) \/ Abandon(s), TakesTurns
      PROVE  SessionInv'
  BY <1>1, OpenKeeps, AbandonKeeps
<1>2. ASSUME NEW s \in Stores, Opening(s)
      PROVE  SessionInv'
  BY <1>2, ReadCheckpointKeeps, ClearKeeps, CreateFailsKeeps, CreateMismatchKeeps,
     CreateKeeps, ReserveKeeps, ReserveFailsKeeps DEF Opening
<1>3. ASSUME NEW s \in Stores, Checkpointing(s)
      PROVE  SessionInv'
  BY <1>3, CheckpointingKeeps
<1>4. ASSUME NEW s \in Stores, Writing(s)
      PROVE  SessionInv'
  BY <1>4, WriteKeeps, WriteRefusedKeeps DEF Writing
<1>5. ASSUME NEW s \in Stores, End(s) \/ Disposing(s)
      PROVE  SessionInv'
  BY <1>5, EndKeeps, DisposeKeeps, RemoveKeeps DEF Disposing
<1>6. ASSUME NEW s \in Stores, Verify(s) \/ Verifying(s)
      PROVE  SessionInv'
  BY <1>6, VerifyKeeps, OpenSinkKeeps, OpenSinkFailsKeeps, InflateFailsKeeps,
     InflateKeeps, HashGivesUpKeeps, HashMismatchKeeps, SealKeeps,
     SealCheckpointKeeps DEF Verifying
<1>7. CASE Crash
  BY <1>7, CrashKeeps
<1> QED BY <1>1, <1>2, <1>3, <1>4, <1>5, <1>6, <1>7, <1>8 DEF Next

\* Where sessions take turns and open() resumes, every behaviour keeps the invariant.
LEMMA SessionHolds ==
  ASSUME ResumeFlags = {TRUE}
  PROVE  Spec /\ InTurn => []SessionInv
<1>1. SessionInv /\ [Next]_vars /\ [TakesTurns]_vars => SessionInv'
  BY SessionInductive
<1> QED BY <1>1, InitHolds, PTL DEF Spec, InTurn

\* A checkpoint that a later open() would adopt claims only bytes the device
\* holds, whatever failed and whenever the receiver died (write() flushes before
\* it commits; open() clears before it pre-sizes).  Here and below sessions take turns,
\* and open() is told to resume, as its only caller does (App.tsx:261).
THEOREM CheckpointsAreSound ==
  ASSUME ResumeFlags = {TRUE}
  PROVE  Spec /\ InTurn => []CheckpointSound
<1>1. SessionInv => CheckpointSound
  BY DEF SessionInv
<1> QED BY <1>1, SessionHolds, PTL

\* What an open store counts as committed, adopted or written, is on the device
\* (hasCommitted() and committedSegments(), which the receiver resumes from).
THEOREM CommittedIsDurable ==
  ASSUME ResumeFlags = {TRUE}
  PROVE  Spec /\ InTurn => []CommittedDurable
<1>1. ASSUME SessionInv
      PROVE  CommittedDurable
  <2>1. SUFFICES ASSUME NEW s \in Stores, Opened(s), handle[s]
                 PROVE  Right(s)
    BY DEF CommittedDurable, Right
  <2>2. StoreInv(s)
    BY <1>1 DEF SessionInv
  <2>3. ending[s] = "no"
    BY <2>1, <2>2 DEF StoreInv, EndingInv
  <2> QED BY <2>1, <2>2, <2>3 DEF StoreInv, Claims
<1>2. SessionInv => CommittedDurable
  BY <1>1
<1> QED BY <1>2, SessionHolds, PTL

\* Checkpoint and store agree with the device: whatever a resume starts from is
\* there (opfs-segment-store.ts, open(), write() and persistCheckpoint()), of sessions
\* that take turns and resume.  Where they do not, an open() that is abandoned half-way
\* may pre-size the file a later session has written and recorded.
THEOREM ResumesAreTrue ==
  ASSUME ResumeFlags = {TRUE}
  PROVE  Spec /\ InTurn => []ResumeIsTrue
<1>1. CheckpointSound /\ CommittedDurable => ResumeIsTrue
  BY DEF ResumeIsTrue
<1> QED BY <1>1, CheckpointsAreSound, CommittedIsDurable, PTL

-----------------------------------------------------------------------------
(* How a session ends                                                       *)

\* Sessions come one after another.
InOrder ==
  \A s, t \in Stores : t < s /\ pc[s] # "unused" => pc[t] # "unused" /\ Settled(t)

\* While its session is on, the directory is there; while verify() seals a file,
\* and once it has handed it over, the file is whole.
FileStays(s) ==
  /\ Opened(s) /\ ~closed[s] => there
  /\ pc[s] = "open" /\ ver[s] \in {"settling", "sealing", "handed"} /\ Last(s)
       => there /\ Intact(s)

\* A transfer that is sent as it is has no second file to give up for.
AsItIs(s) ==
  plan[s] \notin Compressed => /\ ~sink[s] /\ ~again[s]
                               /\ ver[s] \notin {"sinking", "inflating"}

\* What was asked of dispose() is done.
PolicyKept(s) ==
  /\ ~closed[s] => policy[s] = "discard"
  /\ ending[s] = "recording" => KeepsDirectory(s)
  /\ /\ pc[s] = "open" /\ ending[s] = "done" /\ policy[s] = "discard" /\ ~sealed[s]
     /\ plan[s] \notin Compressed /\ Last(s)
     => ~there

\* What a checkpoint in flight would replace is part of it, and nothing that was
\* committed is missing from the last that will be written.
WriterAhead(s) ==
  /\ writer[s]["progress"].phase # "no" =>
       /\ ckpt.kind = "good" => ckpt.bits \subseteq writer[s]["progress"].bits
       /\ ~dirty[s] => writer[s]["progress"].bits = bits[s]
  /\ \A r \in {"seal", "end"} :
       writer[s][r].phase # "no" => writer[s][r].bits = bits[s]
  /\ ver[s] = "sealing" => Quiet(s)

EndInv(s) == FileStays(s) /\ AsItIs(s) /\ PolicyKept(s) /\ WriterAhead(s)

EndsInv == InOrder /\ \A s \in Stores : EndInv(s)

-----------------------------------------------------------------------------
LEMMA EndsInit == Init => EndsInv
BY DEF Init, All, EndsInv, InOrder, EndInv, FileStays, AsItIs, PolicyKept, WriterAhead,
       Opened, NotWriting, Roles

\* A step of one store leaves the others where they were: the ones before it are
\* settled, and the ones after it not opened.
LEMMA StepOfTheLast ==
  ASSUME SessionInv, EndsInv, NEW s \in Stores, OnlyOf(s),
         \A t \in Stores : t # s => Settled(t),
         \A t \in Stores : t > s => pc[t] = "unused",
         pc'[s] # "unused", EndInv(s)',
         \A t \in Stores : t < s => pc[t] # "unused"
  PROVE  EndsInv'
<1>1. ASSUME NEW t \in Stores, t # s
      PROVE  EndInv(t)' /\ Settled(t)' /\ Same(t)
  <2>1. Settled(t) /\ Same(t) /\ StoreInv(t) /\ EndInv(t)
    BY <1>1 DEF EndsInv, SessionInv, OnlyOf
  <2>2. Idle(t) /\ Settled(t)'
    BY <2>1, BystanderKeeps, SettledHoldsNothing
  <2>3. pc[t] = "unused" \/ ~Last(t)'
    BY <1>1 DEF Last, Stores
  <2>4. FileStays(t)' /\ PolicyKept(t)'
    BY <2>1, <2>3
       DEF Same, FileStays, PolicyKept, EndInv, StoreInv, OpeningInv, EndingInv,
           Settled, Opened
  <2>5. AsItIs(t)' /\ WriterAhead(t)'
    BY <2>1, <2>2 DEF Same, AsItIs, WriterAhead, EndInv, Idle, Roles, Quiet
  <2> QED BY <2>1, <2>2, <2>4, <2>5 DEF EndInv
<1>2. InOrder'
  <2>1. SUFFICES ASSUME NEW u \in Stores, NEW t \in Stores, t < u, pc'[u] # "unused"
                 PROVE  pc'[t] # "unused" /\ Settled(t)'
    BY DEF InOrder
  <2>2. CASE t = s
    BY <1>1, <2>1 DEF Stores, Same
  <2>3. CASE u = s
    BY <1>1, <2>1 DEF Stores, Same
  <2>4. CASE t # s /\ u # s
    BY <1>1, <2>1 DEF EndsInv, InOrder, Same
  <2> QED BY <2>2, <2>3, <2>4
<1> QED BY <1>1, <1>2 DEF EndsInv

LEMMA EndsStep ==
  ASSUME SessionInv, EndsInv, NEW s \in Stores, ~Settled(s), OnlyOf(s),
         pc'[s] # "unused", EndInv(s)'
  PROVE  EndsInv'
<1>1. pc[s] # "unused" /\ \A t \in Stores : t # s => Settled(t)
  BY DEF SessionInv, Alone, Settled
<1>2. ASSUME NEW t \in Stores
      PROVE  /\ t > s => pc[t] = "unused"
             /\ t < s => pc[t] # "unused"
  BY <1>1 DEF EndsInv, InOrder
<1> QED BY <1>1, <1>2, StepOfTheLast

LEMMA LastStays ==
  ASSUME NEW s \in Stores, OnlyOf(s)
  PROVE  Last(s)' <=> Last(s)
<1>1. \A t \in Stores : t > s => pc'[t] = pc[t]
  BY DEF OnlyOf, Same, Stores
<1> QED BY <1>1 DEF Last

LEMMA AbandonStays ==
  ASSUME SessionInv, EndsInv, NEW s \in Stores, Abandon(s)
  PROVE  EndsInv'
<1> USE DEF disk, opening, holding, verify, ends
<1>0. TypeOK /\ StoreInv(s) /\ EndInv(s)
  BY DEF SessionInv, EndsInv
<1>1. ~Settled(s) /\ pc'[s] # "unused"
  BY DEF Abandon, Settled
<1>2. OnlyOf(s)
  BY DEF Abandon, OnlyOf, Same
<1>3. Last(s)' <=> Last(s)
  BY <1>2, LastStays
<1>4. FileStays(s)'
  BY <1>0 DEF Abandon, FileStays, EndInv, Opened
<1>5. AsItIs(s)'
  BY <1>0 DEF Abandon, AsItIs, EndInv
<1>6. PolicyKept(s)'
  BY <1>0 DEF Abandon, PolicyKept, EndInv, StoreInv, OpeningInv
<1>7. WriterAhead(s)'
  BY <1>0 DEF Abandon, WriterAhead, EndInv, StoreInv, OpeningInv
<1> QED BY <1>1, <1>2, <1>4, <1>5, <1>6, <1>7, EndsStep DEF EndInv

LEMMA ReadCheckpointStays ==
  ASSUME SessionInv, EndsInv, NEW s \in Stores, ReadCheckpoint(s)
  PROVE  EndsInv'
<1> USE DEF disk, opening, holding, verify, ends
<1>0. TypeOK /\ StoreInv(s) /\ EndInv(s)
  BY DEF SessionInv, EndsInv
<1>1. ~Settled(s) /\ pc'[s] # "unused"
  BY DEF ReadCheckpoint, Settled
<1>2. OnlyOf(s)
  BY DEF ReadCheckpoint, OnlyOf, Same
<1>3. Last(s)' <=> Last(s)
  BY <1>2, LastStays
<1>4. FileStays(s)'
  BY DEF ReadCheckpoint, FileStays, Opened
<1>5. AsItIs(s)'
  BY <1>0 DEF ReadCheckpoint, AsItIs, EndInv
<1>6. PolicyKept(s)'
  BY <1>0 DEF ReadCheckpoint, PolicyKept, EndInv, StoreInv, OpeningInv
<1>7. WriterAhead(s)'
  BY <1>0 DEF ReadCheckpoint, WriterAhead, StoreInv, OpeningInv, Idle, Roles, Opened
<1> QED BY <1>1, <1>2, <1>4, <1>5, <1>6, <1>7, EndsStep DEF EndInv

LEMMA ClearStays ==
  ASSUME SessionInv, EndsInv, NEW s \in Stores, Clear(s)
  PROVE  EndsInv'
<1> USE DEF disk, opening, holding, verify, ends
<1>0. TypeOK /\ StoreInv(s) /\ EndInv(s)
  BY DEF SessionInv, EndsInv
<1>1. ~Settled(s) /\ pc'[s] # "unused"
  BY DEF Clear, Settled
<1>2. OnlyOf(s)
  BY DEF Clear, OnlyOf, Same
<1>3. Last(s)' <=> Last(s)
  BY <1>2, LastStays
<1>4. FileStays(s)'
  BY DEF Clear, FileStays, Opened
<1>5. AsItIs(s)'
  BY <1>0 DEF Clear, AsItIs, EndInv
<1>6. PolicyKept(s)'
  BY <1>0 DEF Clear, PolicyKept, EndInv, StoreInv, OpeningInv
<1>7. WriterAhead(s)'
  BY <1>0 DEF Clear, WriterAhead, StoreInv, OpeningInv, Idle, Roles, Opened
<1> QED BY <1>1, <1>2, <1>4, <1>5, <1>6, <1>7, EndsStep DEF EndInv

LEMMA CreateFailsStays ==
  ASSUME SessionInv, EndsInv, NEW s \in Stores, CreateFails(s)
  PROVE  EndsInv'
<1> USE DEF disk, opening, holding, verify, ends
<1>0. TypeOK /\ StoreInv(s) /\ EndInv(s)
  BY DEF SessionInv, EndsInv
<1>1. ~Settled(s) /\ pc'[s] # "unused"
  BY DEF CreateFails, Settled
<1>2. OnlyOf(s)
  BY DEF CreateFails, OnlyOf, Same
<1>3. Last(s)' <=> Last(s)
  BY <1>2, LastStays
<1>4. FileStays(s)'
  BY DEF CreateFails, FileStays
<1>5. AsItIs(s)'
  BY <1>0 DEF CreateFails, AsItIs, EndInv
<1>6. PolicyKept(s)'
  BY <1>0 DEF CreateFails, PolicyKept, EndInv, StoreInv, OpeningInv
<1>7. WriterAhead(s)'
  BY <1>0 DEF CreateFails, WriterAhead, EndInv, StoreInv, OpeningInv
<1> QED BY <1>1, <1>2, <1>4, <1>5, <1>6, <1>7, EndsStep DEF EndInv

LEMMA CreateMismatchStays ==
  ASSUME SessionInv, EndsInv, NEW s \in Stores, CreateMismatch(s)
  PROVE  EndsInv'
<1> USE DEF disk, opening, holding, verify, ends
<1>0. TypeOK /\ StoreInv(s) /\ EndInv(s)
  BY DEF SessionInv, EndsInv
<1>1. ~Settled(s) /\ pc'[s] # "unused"
  BY DEF CreateMismatch, Settled
<1>2. OnlyOf(s)
  BY DEF CreateMismatch, OnlyOf, Same
<1>3. Last(s)' <=> Last(s)
  BY <1>2, LastStays
<1>4. FileStays(s)'
  BY DEF CreateMismatch, FileStays
<1>5. AsItIs(s)'
  BY <1>0 DEF CreateMismatch, AsItIs, EndInv
<1>6. PolicyKept(s)'
  BY <1>0 DEF CreateMismatch, PolicyKept, EndInv, StoreInv, OpeningInv
<1>7. WriterAhead(s)'
  BY <1>0 DEF CreateMismatch, WriterAhead, StoreInv, OpeningInv, Idle, Roles, Opened
<1> QED BY <1>1, <1>2, <1>4, <1>5, <1>6, <1>7, EndsStep DEF EndInv

LEMMA ReserveStays ==
  ASSUME SessionInv, EndsInv, NEW s \in Stores, Reserve(s)
  PROVE  EndsInv'
<1> USE DEF disk, opening, holding, verify, ends
<1>0. TypeOK /\ StoreInv(s) /\ EndInv(s)
  BY DEF SessionInv, EndsInv
<1>1. ~Settled(s) /\ pc'[s] # "unused"
  BY DEF Reserve, Settled
<1>2. OnlyOf(s)
  BY DEF Reserve, FirstCheckpoint, OnlyOf, Same
<1>3. Last(s)' <=> Last(s)
  BY <1>2, LastStays
<1>4. FileStays(s)'
  BY <1>0 DEF Reserve, FileStays, EndInv, Opened
<1>5. AsItIs(s)'
  BY <1>0 DEF Reserve, AsItIs, EndInv
<1>6. PolicyKept(s)'
  BY <1>0 DEF Reserve, PolicyKept, EndInv, StoreInv, OpeningInv
<1>7. WriterAhead(s)'
  BY <1>0, <1>1
     DEF Reserve, FirstCheckpoint, Begun, WriterAhead, EndInv, StoreInv, OpeningInv,
         CheckpointBehind, Opened
<1> QED BY <1>1, <1>2, <1>4, <1>5, <1>6, <1>7, EndsStep DEF EndInv

LEMMA ReserveFailsStays ==
  ASSUME SessionInv, EndsInv, NEW s \in Stores, ReserveFails(s)
  PROVE  EndsInv'
<1> USE DEF disk, opening, holding, verify, ends
<1>0. TypeOK /\ StoreInv(s) /\ EndInv(s)
  BY DEF SessionInv, EndsInv
<1>1. ~Settled(s) /\ pc'[s] # "unused"
  BY DEF ReserveFails, Settled
<1>2. OnlyOf(s)
  BY DEF ReserveFails, OnlyOf, Same
<1>3. Last(s)' <=> Last(s)
  BY <1>2, LastStays
<1>4. FileStays(s)'
  BY <1>0 DEF ReserveFails, TypeOK, FileStays, Opened
<1>5. AsItIs(s)'
  BY <1>0 DEF ReserveFails, AsItIs, EndInv
<1>6. PolicyKept(s)'
  BY <1>0 DEF ReserveFails, PolicyKept, EndInv, StoreInv, OpeningInv
<1>7. WriterAhead(s)'
  BY <1>0 DEF ReserveFails, WriterAhead, EndInv, StoreInv, OpeningInv
<1> QED BY <1>1, <1>2, <1>4, <1>5, <1>6, <1>7, EndsStep DEF EndInv

LEMMA EndStays ==
  ASSUME SessionInv, EndsInv, NEW s \in Stores, End(s)
  PROVE  EndsInv'
<1> USE DEF disk, opening, holding, verify, ends
<1>0. TypeOK /\ StoreInv(s) /\ EndInv(s)
  BY DEF SessionInv, EndsInv
<1>1. ~Settled(s) /\ pc'[s] # "unused"
  BY <1>0 DEF End, StoreInv, EndingInv, Settled
<1>2. OnlyOf(s)
  BY <1>0 DEF End, Release, OnlyOf, Same, TypeOK
<1>3. Last(s)' <=> Last(s)
  BY <1>2, LastStays
<1>4. FileStays(s)'
  BY <1>0, <1>3 DEF End, Release, FileStays, EndInv, Intact
<1>5. AsItIs(s)'
  BY <1>0 DEF End, AsItIs, EndInv
<1>6. PolicyKept(s)'
  BY <1>0 DEF End, Release, TypeOK, PolicyKept
<1>7. WriterAhead(s)'
  BY <1>0 DEF End, WriterAhead, EndInv, Quiet
<1> QED BY <1>1, <1>2, <1>4, <1>5, <1>6, <1>7, EndsStep DEF EndInv

LEMMA VerifyStays ==
  ASSUME SessionInv, EndsInv, NEW s \in Stores, Verify(s)
  PROVE  EndsInv'
<1> USE DEF disk, opening, holding, verify, ends
<1>0. TypeOK /\ StoreInv(s) /\ EndInv(s)
  BY DEF SessionInv, EndsInv
<1>1. ~Settled(s) /\ pc'[s] # "unused"
  BY <1>0 DEF Verify, StoreInv, EndingInv, Settled
<1>2. OnlyOf(s)
  BY DEF Verify, OnlyOf, Same
<1>3. Last(s)' <=> Last(s)
  BY <1>2, LastStays
<1>4. FileStays(s)'
  BY <1>0 DEF Verify, FileStays, EndInv, Opened
<1>5. AsItIs(s)'
  BY <1>0 DEF Verify, AsItIs, EndInv
<1>6. PolicyKept(s)'
  BY <1>0 DEF Verify, PolicyKept, EndInv, StoreInv, EndingInv
<1>7. WriterAhead(s)'
  BY <1>0 DEF Verify, WriterAhead, EndInv
<1> QED BY <1>1, <1>2, <1>4, <1>5, <1>6, <1>7, EndsStep DEF EndInv

LEMMA OpenSinkStays ==
  ASSUME SessionInv, EndsInv, NEW s \in Stores, OpenSink(s)
  PROVE  EndsInv'
<1> USE DEF disk, opening, holding, verify, ends
<1>0. TypeOK /\ StoreInv(s) /\ EndInv(s)
  BY DEF SessionInv, EndsInv
<1>1. ~Settled(s) /\ pc'[s] # "unused"
  BY DEF OpenSink, Settled
<1>2. OnlyOf(s)
  BY DEF OpenSink, OnlyOf, Same
<1>3. Last(s)' <=> Last(s)
  BY <1>2, LastStays
<1>4. FileStays(s)'
  BY DEF OpenSink, FileStays
<1>5. AsItIs(s)'
  BY <1>0 DEF OpenSink, AsItIs, EndInv
<1>6. PolicyKept(s)'
  BY <1>0 DEF OpenSink, PolicyKept, AsItIs, EndInv, KeepsDirectory
<1>7. WriterAhead(s)'
  BY <1>0 DEF OpenSink, WriterAhead, EndInv
<1> QED BY <1>1, <1>2, <1>4, <1>5, <1>6, <1>7, EndsStep DEF EndInv

LEMMA OpenSinkFailsStays ==
  ASSUME SessionInv, EndsInv, NEW s \in Stores, OpenSinkFails(s)
  PROVE  EndsInv'
<1> USE DEF disk, opening, holding, verify, ends
<1>0. TypeOK /\ StoreInv(s) /\ EndInv(s)
  BY DEF SessionInv, EndsInv
<1>1. ~Settled(s) /\ pc'[s] # "unused"
  BY DEF OpenSinkFails, Settled
<1>2. OnlyOf(s)
  BY DEF OpenSinkFails, OnlyOf, Same
<1>3. Last(s)' <=> Last(s)
  BY <1>2, LastStays
<1>4. FileStays(s)'
  BY <1>0 DEF OpenSinkFails, FileStays, EndInv, Opened
<1>5. AsItIs(s)'
  BY <1>0 DEF OpenSinkFails, AsItIs, EndInv
<1>6. PolicyKept(s)'
  BY <1>0 DEF OpenSinkFails, PolicyKept, AsItIs, EndInv, KeepsDirectory
<1>7. WriterAhead(s)'
  BY <1>0 DEF OpenSinkFails, WriterAhead, EndInv
<1> QED BY <1>1, <1>2, <1>4, <1>5, <1>6, <1>7, EndsStep DEF EndInv

LEMMA InflateFailsStays ==
  ASSUME SessionInv, EndsInv, NEW s \in Stores, InflateFails(s)
  PROVE  EndsInv'
<1> USE DEF disk, opening, holding, verify, ends
<1>0. TypeOK /\ StoreInv(s) /\ EndInv(s)
  BY DEF SessionInv, EndsInv
<1>1. ~Settled(s) /\ pc'[s] # "unused"
  BY DEF InflateFails, Settled
<1>2. OnlyOf(s)
  BY <1>0 DEF InflateFails, DiscardWorkingData, Release, OnlyOf, Same, TypeOK
<1>3. Last(s)' <=> Last(s)
  BY <1>2, LastStays
<1>4. FileStays(s)'
  BY <1>0 DEF InflateFails, DiscardWorkingData, Release, TypeOK, FileStays
<1>5. AsItIs(s)'
  BY <1>0 DEF InflateFails, AsItIs, EndInv
<1>6. PolicyKept(s)'
  BY <1>0
     DEF InflateFails, DiscardWorkingData, Release, TypeOK, PolicyKept, EndInv,
         KeepsDirectory
<1>7. WriterAhead(s)'
  BY <1>0 DEF InflateFails, WriterAhead, EndInv
<1> QED BY <1>1, <1>2, <1>4, <1>5, <1>6, <1>7, EndsStep DEF EndInv

LEMMA InflateStays ==
  ASSUME SessionInv, EndsInv, NEW s \in Stores, Inflate(s)
  PROVE  EndsInv'
<1> USE DEF disk, opening, holding, verify, ends
<1>0. TypeOK /\ StoreInv(s) /\ EndInv(s)
  BY DEF SessionInv, EndsInv
<1>1. ~Settled(s) /\ pc'[s] # "unused"
  BY DEF Inflate, Settled
<1>2. OnlyOf(s)
  BY DEF Inflate, OnlyOf, Same
<1>3. Last(s)' <=> Last(s)
  BY <1>2, LastStays
<1>4. FileStays(s)'
  BY <1>0 DEF Inflate, FileStays, EndInv, Opened
<1>5. AsItIs(s)'
  BY <1>0 DEF Inflate, AsItIs, EndInv
<1>6. PolicyKept(s)'
  BY <1>0 DEF Inflate, PolicyKept, AsItIs, EndInv, KeepsDirectory
<1>7. WriterAhead(s)'
  BY <1>0 DEF Inflate, WriterAhead, EndInv
<1> QED BY <1>1, <1>2, <1>4, <1>5, <1>6, <1>7, EndsStep DEF EndInv

LEMMA HashGivesUpStays ==
  ASSUME SessionInv, EndsInv, NEW s \in Stores, HashGivesUp(s)
  PROVE  EndsInv'
<1> USE DEF disk, opening, holding, verify, ends
<1>0. TypeOK /\ StoreInv(s) /\ EndInv(s)
  BY DEF SessionInv, EndsInv
<1>1. ~Settled(s) /\ pc'[s] # "unused"
  BY DEF HashGivesUp, Settled
<1>2. OnlyOf(s)
  BY DEF HashGivesUp, OnlyOf, Same
<1>3. Last(s)' <=> Last(s)
  BY <1>2, LastStays
<1>4. FileStays(s)'
  BY <1>0 DEF HashGivesUp, FileStays, EndInv, Opened
<1>5. AsItIs(s)'
  BY <1>0 DEF HashGivesUp, AsItIs, EndInv
<1>6. PolicyKept(s)'
  BY <1>0, <1>3 DEF HashGivesUp, PolicyKept, EndInv, KeepsDirectory
<1>7. WriterAhead(s)'
  BY <1>0 DEF HashGivesUp, WriterAhead, EndInv
<1> QED BY <1>1, <1>2, <1>4, <1>5, <1>6, <1>7, EndsStep DEF EndInv

LEMMA HashMismatchStays ==
  ASSUME SessionInv, EndsInv, NEW s \in Stores, HashMismatch(s)
  PROVE  EndsInv'
<1> USE DEF disk, opening, holding, verify, ends
<1>0. TypeOK /\ StoreInv(s) /\ EndInv(s)
  BY DEF SessionInv, EndsInv
<1>1. ~Settled(s) /\ pc'[s] # "unused"
  BY DEF HashMismatch, Settled
<1>2. OnlyOf(s)
  BY <1>0 DEF HashMismatch, DiscardWorkingData, Release, OnlyOf, Same, TypeOK
<1>3. Last(s)' <=> Last(s)
  BY <1>2, LastStays
<1>4. FileStays(s)'
  BY <1>0 DEF HashMismatch, DiscardWorkingData, Release, TypeOK, FileStays
<1>5. AsItIs(s)'
  BY <1>0
     DEF HashMismatch, DiscardWorkingData, Hashable, AsItIs, EndInv, StoreInv, EndingInv
<1>6. PolicyKept(s)'
  BY <1>0
     DEF HashMismatch, DiscardWorkingData, Release, TypeOK, PolicyKept, EndInv,
         KeepsDirectory
<1>7. WriterAhead(s)'
  BY <1>0 DEF HashMismatch, WriterAhead, EndInv
<1> QED BY <1>1, <1>2, <1>4, <1>5, <1>6, <1>7, EndsStep DEF EndInv

LEMMA SealStays ==
  ASSUME SessionInv, EndsInv, NEW s \in Stores, Seal(s)
  PROVE  EndsInv'
<1> USE DEF disk, opening, holding, verify, ends
<1>0. TypeOK /\ StoreInv(s) /\ EndInv(s)
  BY DEF SessionInv, EndsInv
<1>1. ~Settled(s) /\ pc'[s] # "unused"
  BY DEF Seal, Settled
<1>2. OnlyOf(s)
  BY DEF Seal, OnlyOf, Same
<1>3. Last(s)' <=> Last(s)
  BY <1>2, LastStays
<1>4. FileStays(s)'
  BY <1>0
     DEF Seal, HashMatches, Hashable, FileStays, EndInv, StoreInv, EndingInv, Opened,
         Intact
<1>5. AsItIs(s)'
  BY <1>0 DEF Seal, AsItIs, EndInv
<1>6. PolicyKept(s)'
  BY <1>0 DEF Seal, TypeOK, PolicyKept, EndInv, KeepsDirectory
<1>7. WriterAhead(s)'
  BY <1>0 DEF Seal, WriterAhead, EndInv
<1> QED BY <1>1, <1>2, <1>4, <1>5, <1>6, <1>7, EndsStep DEF EndInv

LEMMA SealCheckpointStays ==
  ASSUME SessionInv, EndsInv, NEW s \in Stores, SealCheckpoint(s)
  PROVE  EndsInv'
<1> USE DEF disk, opening, holding, verify, ends
<1>0. TypeOK /\ StoreInv(s) /\ EndInv(s)
  BY DEF SessionInv, EndsInv
<1>1. ~Settled(s) /\ pc'[s] # "unused"
  BY DEF SealCheckpoint, Settled
<1>2. OnlyOf(s)
  BY DEF SealCheckpoint, OnlyOf, Same
<1>3. Last(s)' <=> Last(s)
  BY <1>2, LastStays
<1>4. FileStays(s)'
  BY <1>0, <1>3 DEF SealCheckpoint, FileStays, EndInv, Opened, Intact
<1>5. AsItIs(s)'
  BY <1>0 DEF SealCheckpoint, AsItIs, EndInv
<1>6. PolicyKept(s)'
  BY <1>0 DEF SealCheckpoint, PolicyKept, EndInv, StoreInv, EndingInv, KeepsDirectory
<1>7. WriterAhead(s)'
  BY <1>0 DEF SealCheckpoint, Begun, WriterAhead, EndInv, Quiet
<1> QED BY <1>1, <1>2, <1>4, <1>5, <1>6, <1>7, EndsStep DEF EndInv

LEMMA CreateStays ==
  ASSUME SessionInv, EndsInv, NEW s \in Stores, Create(s)
  PROVE  EndsInv'
<1> USE DEF disk, opening, holding, verify, ends
<1>0. TypeOK /\ StoreInv(s) /\ EndInv(s)
  BY DEF SessionInv, EndsInv
<1>1. ~Settled(s) /\ pc'[s] # "unused"
  BY <1>0 DEF Create, Settled, TypeOK
<1>2. OnlyOf(s)
  BY <1>0 DEF Create, FirstCheckpoint, OnlyOf, Same, TypeOK
<1>3. FileStays(s)' /\ AsItIs(s)' /\ PolicyKept(s)'
  BY <1>0 DEF Create, FileStays, AsItIs, PolicyKept, EndInv, StoreInv, OpeningInv
<1>4. WriterAhead(s)'
  <2>1. /\ Idle(s) /\ ver'[s] = "no" /\ bits' = bits /\ ckpt' = ckpt
        /\ ckpt.kind = "good" => ckpt.bits = bits[s]
    BY <1>0 DEF Create, StoreInv, OpeningInv, Opened
  <2>2. CASE writer' = writer
    BY <2>1, <2>2 DEF WriterAhead, Idle, Roles
  <2>3. CASE writer' = [writer EXCEPT ![s]["progress"] = [phase |-> "begun", bits |-> bits[s]]]
    <3>1. /\ writer'[s]["progress"].bits = bits[s]
          /\ \A r \in {"seal", "end"} : writer'[s][r] = writer[s][r]
      BY <1>0, <2>3 DEF TypeOK, Roles
    <3> QED BY <2>1, <3>1 DEF WriterAhead, Idle, Roles
  <2> QED BY <2>2, <2>3 DEF Create, FirstCheckpoint, Begun
<1> QED BY <1>1, <1>2, <1>3, <1>4, EndsStep DEF EndInv

\* A removal finds the directory held by nobody once the store is not sealed,
\* and by nobody but the store where it is.
LEMMA RemoveStays ==
  ASSUME SessionInv, EndsInv, NEW s \in Stores, Remove(s)
  PROVE  EndsInv'
<1> USE DEF disk, opening, holding, verify, ends
<1>0. TypeOK /\ StoreInv(s) /\ EndInv(s)
  BY DEF SessionInv, EndsInv
<1>1. ~Settled(s) /\ pc'[s] # "unused" /\ closed[s] /\ Quiet(s)
  BY <1>0 DEF Remove, Settled, StoreInv, EndingInv
<1>2. OnlyOf(s)
  BY <1>0 DEF Remove, Disposed, OnlyOf, Same, TypeOK
<1>3. Last(s)' <=> Last(s)
  BY <1>2, LastStays
<1>4. sink[s] => UNCHANGED disk
  BY DEF Remove, RemoveDirectory, Held
<1>5. FileStays(s)'
  BY <1>0, <1>3, <1>4 DEF Remove, FileStays, EndInv, StoreInv, EndingInv, Intact
<1>6. AsItIs(s)' /\ WriterAhead(s)'
  BY <1>0
     DEF Remove, RemoveDirectory, Disposed, AsItIs, WriterAhead, EndInv, Quiet, Absent
<1>7. ~sealed[s] /\ plan[s] \notin Compressed => ~there'
  <2>1. SUFFICES ASSUME ~sealed[s], plan[s] \notin Compressed
                 PROVE  ~Held
    BY DEF Remove, RemoveDirectory
  <2>2. ~handle[s] /\ ~sink[s] /\ Idle(s)
    BY <1>0, <2>1 DEF Remove, EndInv, AsItIs, StoreInv, EndingInv, Idle, Quiet, Roles
  <2>3. ASSUME NEW t \in Stores, t # s
        PROVE  ~handle[t] /\ ~sink[t] /\ Idle(t)
    <3>1. Settled(t) /\ StoreInv(t)
      BY <1>1, <2>3 DEF SessionInv, Alone
    <3> QED BY <3>1
               DEF StoreInv, OpeningInv, EndingInv, Settled, Opened, Idle, Roles, Quiet
  <2> QED BY <2>2, <2>3 DEF Held, Idle
<1>8. PolicyKept(s)'
  BY <1>0, <1>7 DEF Remove, Disposed, TypeOK, PolicyKept, EndInv
<1> QED BY <1>1, <1>2, <1>5, <1>6, <1>8, EndsStep DEF EndInv
-----------------------------------------------------------------------------
(* Writes *)

LEMMA WriterOpensStays ==
  ASSUME SessionInv, EndsInv, NEW s \in Stores, NEW r \in Roles, WriterOpens(s, r)
  PROVE  EndsInv'
<1> USE DEF disk, opening, holding, verify, ends
<1>0. TypeOK /\ StoreInv(s) /\ EndInv(s)
  BY DEF SessionInv, EndsInv
<1>1. ~Settled(s) /\ pc[s] \in {"persisting", "open"}
  BY <1>0, WriterClaims DEF WriterOpens, Opened, StoreInv, OpeningInv, Idle
<1>2. OnlyOf(s)
  BY DEF WriterOpens, OnlyOf, Same
<1>3. Last(s)' <=> Last(s)
  BY <1>2, LastStays
<1>4. FileStays(s)' /\ AsItIs(s)' /\ PolicyKept(s)'
  BY <1>0, <1>3
     DEF WriterOpens, FileStays, AsItIs, PolicyKept, EndInv, Intact, KeepsDirectory
<1>5. \A q \in Roles : /\ writer'[s][q].bits = writer[s][q].bits
                       /\ writer'[s][q].phase = "no" <=> writer[s][q].phase = "no"
  BY DEF WriterOpens
<1>6. ckpt'.kind = "good" => ckpt' = ckpt
  BY DEF WriterOpens, Unreadable
<1>7. WriterAhead(s)'
  BY <1>0, <1>6 DEF WriterOpens, WriterAhead, EndInv, Quiet
<1> QED BY <1>1, <1>2, <1>4, <1>7, EndsStep DEF WriterOpens, EndInv

\* What is on the device or in flight when a write ends, well or badly, is part
\* of what the store has committed.
LEMMA WriteOverStays ==
  ASSUME SessionInv, EndsInv, NEW s \in Stores, NEW r \in Roles,
         writer[s][r].phase # "no", WriteOver(s, r),
         ckpt' = ckpt \/ ckpt' = Snapshot(plan[s], writer[s][r].bits)
  PROVE  EndsInv'
<1>0. TypeOK /\ StoreInv(s) /\ EndInv(s)
  BY DEF SessionInv, EndsInv
<1>1. ~Settled(s) /\ Opened(s)
  BY WriterClaims
<1>2. UNCHANGED <<there, file, plan, adopts, stale, bits, sealed>>
  BY DEF WriteOver
<1>3. ckpt'.kind = "good" => ckpt'.bits \subseteq bits[s]
  BY CheckpointLeft DEF WriteOver
<1>4. CASE r = "progress"
  <2> USE <1>4
  <2>1. AfterProgress(s)
    BY DEF WriteOver
  <2>2. /\ pc'[s] = "open" /\ pc[s] \in {"persisting", "open"}
        /\ ver' = ver /\ sink' = sink /\ policy' = policy /\ again' = again
        /\ \A q \in Roles : q # "progress" => writer'[s][q] = writer[s][q]
    <3>1. pc[s] \in {"persisting", "open"}
      BY <1>0 DEF Opened, StoreInv, OpeningInv, Idle
    <3> QED BY <1>0, <2>1, <3>1 DEF AfterProgress, TypeOK
  <2>3. OnlyOf(s)
    <3>1. \A t \in Stores : t # s => writer'[t] = writer[t] /\ dirty'[t] = dirty[t]
      BY <1>0, <2>1 DEF AfterProgress, TypeOK
    <3>2. \A t \in Stores : t # s => pc'[t] = pc[t] /\ ending'[t] = ending[t]
      BY <1>0, <2>1 DEF AfterProgress, TypeOK
    <3>3. \A t \in Stores : t # s => closed'[t] = closed[t] /\ handle'[t] = handle[t]
      <4>1. (closed' = closed /\ handle' = handle) \/ Release({s})
        BY <2>1 DEF AfterProgress
      <4>2. CASE Release({s})
        BY <1>0, <4>2 DEF Release, TypeOK
      <4> QED BY <4>1, <4>2
    <3> QED BY <1>2, <2>2, <3>1, <3>2, <3>3 DEF OnlyOf, Same
  <2>4. Last(s)' <=> Last(s)
    BY <2>3, LastStays
  <2>5. (closed'[s] = closed[s] /\ ending'[s] = ending[s])
          \/ (closed'[s] /\ ending'[s] = "settling")
    BY <1>0, <2>1 DEF AfterProgress, Release, TypeOK
  <2>6. FileStays(s)' /\ AsItIs(s)' /\ PolicyKept(s)'
    BY <1>0, <1>2, <2>2, <2>4, <2>5
       DEF FileStays, AsItIs, PolicyKept, EndInv, Opened, Intact, KeepsDirectory,
           StoreInv, OpeningInv
  <2>7. writer'[s]["progress"].phase # "no" => writer'[s]["progress"].bits = bits[s]
    BY <1>0, <2>1 DEF AfterProgress, TypeOK, NotWriting, Begun
  <2>8. WriterAhead(s)'
    BY <1>0, <1>2, <1>3, <2>2, <2>7 DEF WriterAhead, EndInv, Quiet, Roles
  <2> QED BY <1>1, <2>2, <2>3, <2>6, <2>8, EndsStep DEF EndInv
<1>5. CASE r = "seal"
  <2>1. AfterSeal(s) /\ ver[s] = "sealing"
    BY <1>0, <1>5 DEF WriteOver, StoreInv, EndingInv
  <2>2. OnlyOf(s)
    BY <1>2, <2>1 DEF AfterSeal, OnlyOf, Same
  <2>3. Last(s)' <=> Last(s)
    BY <2>2, LastStays
  <2>4. FileStays(s)' /\ AsItIs(s)' /\ PolicyKept(s)'
    BY <1>0, <1>2, <2>1, <2>3
       DEF AfterSeal, FileStays, AsItIs, PolicyKept, EndInv, Opened, Intact,
           KeepsDirectory
  <2>5. WriterAhead(s)'
    BY <1>0, <1>2, <2>1 DEF AfterSeal, WriterAhead, EndInv, Quiet, NotWriting
  <2> QED BY <1>1, <2>1, <2>2, <2>4, <2>5, EndsStep DEF AfterSeal, EndInv, Opened
<1>6. CASE r = "end"
  <2>1. AfterEnd(s) /\ ending[s] = "recording" /\ closed[s] /\ Quiet(s)
    BY <1>0, <1>6 DEF WriteOver, StoreInv, EndingInv
  <2>2. OnlyOf(s)
    BY <1>0, <1>2, <2>1 DEF AfterEnd, Disposed, OnlyOf, Same, TypeOK
  <2>3. Last(s)' <=> Last(s)
    BY <2>2, LastStays
  <2>4. FileStays(s)' /\ AsItIs(s)' /\ PolicyKept(s)'
    BY <1>0, <1>2, <2>1, <2>3
       DEF AfterEnd, Disposed, FileStays, AsItIs, PolicyKept, EndInv, Intact,
           KeepsDirectory, TypeOK
  <2>5. WriterAhead(s)'
    BY <1>0, <1>2, <2>1 DEF AfterEnd, WriterAhead, EndInv, Quiet, NotWriting
  <2> QED BY <1>1, <2>1, <2>2, <2>4, <2>5, EndsStep DEF AfterEnd, EndInv, Opened
<1> QED BY <1>4, <1>5, <1>6 DEF Roles

LEMMA DisposeStays ==
  ASSUME SessionInv, EndsInv, NEW s \in Stores, Dispose(s)
  PROVE  EndsInv'
<1> USE DEF disk, opening, holding, verify, ends
<1>0. TypeOK /\ StoreInv(s) /\ EndInv(s)
  BY DEF SessionInv, EndsInv
<1>1. ~Settled(s) /\ pc'[s] # "unused" /\ closed[s] /\ Quiet(s)
  BY <1>0 DEF Dispose, Settled, StoreInv, EndingInv
<1>2. OnlyOf(s)
  BY <1>0 DEF Dispose, OnlyOf, Same, TypeOK
<1>3. Last(s)' <=> Last(s)
  BY <1>2, LastStays
<1>4. FileStays(s)' /\ AsItIs(s)'
  BY <1>0, <1>3 DEF Dispose, FileStays, AsItIs, EndInv, Opened, Intact
<1>5. PolicyKept(s)'
  BY <1>0 DEF Dispose, PolicyKept, EndInv, KeepsDirectory, TypeOK
<1>6. WriterAhead(s)'
  <2>1. CASE writer' = writer
    BY <1>0, <2>1 DEF Dispose, WriterAhead, EndInv, Quiet
  <2>2. CASE writer' = [writer EXCEPT ![s]["end"] = [phase |-> "begun", bits |-> bits[s]]]
    <3>1. /\ writer'[s]["end"].bits = bits[s]
          /\ writer'[s]["progress"] = writer[s]["progress"]
          /\ writer'[s]["seal"] = writer[s]["seal"]
      BY <1>0, <2>2 DEF TypeOK, Roles
    <3> QED BY <1>0, <3>1 DEF Dispose, WriterAhead, EndInv, Quiet
  <2> QED BY <2>1, <2>2 DEF Dispose, Begun
<1> QED BY <1>1, <1>2, <1>4, <1>5, <1>6, EndsStep DEF EndInv

LEMMA WriteStays ==
  ASSUME SessionInv, EndsInv, NEW s \in Stores, NEW i \in Segments, Write(s, i)
  PROVE  EndsInv'
<1> USE DEF disk, opening, holding, verify, ends
<1>0. TypeOK /\ StoreInv(s) /\ EndInv(s) /\ Writable(s, i) /\ pc[s] = "open" /\ ver[s] = "no"
  BY DEF SessionInv, EndsInv, Write, Writable
<1>1. ~Settled(s) /\ ~closed[s] /\ ending[s] = "no"
  BY <1>0, WritableClaims
<1>2. OnlyOf(s)
  BY <1>0 DEF Write, ScheduleCheckpoint, OnlyOf, Same, TypeOK
<1>3. FileStays(s)' /\ AsItIs(s)' /\ PolicyKept(s)'
  BY <1>0, <1>1 DEF Write, FileStays, AsItIs, PolicyKept, EndInv, Opened
<1>4. /\ writer[s]["seal"].phase = "no" /\ writer[s]["end"].phase = "no"
      /\ ckpt.kind = "good" => ckpt.bits \subseteq bits[s]
  BY <1>0, <1>1 DEF StoreInv, EndingInv, CheckpointBehind, Opened
<1>5. bits'[s] = bits[s] \cup {i} /\ ckpt' = ckpt
  BY <1>0 DEF Write, TypeOK
<1>6. WriterAhead(s)'
  <2>1. CASE writer[s]["progress"].phase # "no"
    <3>1. dirty'[s] /\ writer' = writer
      BY <1>0, <2>1 DEF Write, ScheduleCheckpoint, TypeOK
    <3> QED BY <1>0, <1>4, <3>1 DEF Write, WriterAhead, EndInv
  <2>2. CASE writer[s]["progress"].phase = "no"
    <3>1. /\ writer'[s]["progress"].bits = bits'[s]
          /\ writer'[s]["seal"] = writer[s]["seal"] /\ writer'[s]["end"] = writer[s]["end"]
      BY <1>0, <2>2 DEF Write, ScheduleCheckpoint, TypeOK, Roles
    <3> QED BY <1>0, <1>4, <3>1 DEF Write, WriterAhead
  <2> QED BY <2>1, <2>2
<1> QED BY <1>0, <1>1, <1>2, <1>3, <1>6, EndsStep DEF Write, EndInv

LEMMA WriteRefusedStays ==
  ASSUME SessionInv, EndsInv, NEW s \in Stores, NEW i \in Segments, WriteRefused(s, i)
  PROVE  EndsInv'
<1> USE DEF disk, opening, holding, verify, ends
<1>0. TypeOK /\ StoreInv(s) /\ EndInv(s) /\ Writable(s, i) /\ pc[s] = "open" /\ ver[s] = "no"
  BY DEF SessionInv, EndsInv, WriteRefused, Writable
<1>1. ~Settled(s) /\ ~closed[s]
  BY <1>0, WritableClaims
<1>2. OnlyOf(s)
  BY DEF WriteRefused, OnlyOf, Same
<1>3. FileStays(s)' /\ AsItIs(s)' /\ PolicyKept(s)' /\ WriterAhead(s)'
  BY <1>0, <1>1
     DEF WriteRefused, FileStays, AsItIs, PolicyKept, WriterAhead, EndInv, Opened,
         StoreInv, EndingInv
<1> QED BY <1>0, <1>1, <1>2, <1>3, EndsStep DEF WriteRefused, EndInv

LEMMA OpenStays ==
  ASSUME TakesTurns, SessionInv, EndsInv, NEW s \in Stores, Open(s)
  PROVE  EndsInv'
<1> USE DEF disk, opening, holding, verify, ends
<1>0. TypeOK /\ StoreInv(s) /\ EndInv(s) /\ pc[s] = "unused"
  BY DEF SessionInv, EndsInv, Open
<1>1. \A t \in Stores : Settled(t) /\ (t < s => pc[t] # "unused")
  BY DEF Open, TakesTurns
<1>2. \A t \in Stores : t > s => pc[t] = "unused"
  BY <1>0 DEF EndsInv, InOrder
<1>3. OnlyOf(s)
  BY DEF Open, OnlyOf, Same
<1>4. pc'[s] \in {"reading", "creating"}
  BY <1>0 DEF Open, TypeOK
<1>5. EndInv(s)'
  BY <1>0
     DEF Open, EndInv, FileStays, AsItIs, PolicyKept, WriterAhead, Opened, StoreInv,
         OpeningInv
<1> QED BY <1>1, <1>2, <1>3, <1>4, <1>5, StepOfTheLast

LEMMA CrashStays ==
  ASSUME SessionInv, EndsInv, Crash
  PROVE  EndsInv'
<1>1. ASSUME NEW s \in Stores
      PROVE  /\ EndInv(s)' /\ Settled(s)'
             /\ pc'[s] = "unused" <=> pc[s] = "unused"
  BY DEF Crash, All, EndInv, FileStays, AsItIs, PolicyKept, WriterAhead, Opened,
         Settled, NotWriting, Roles
<1>2. InOrder'
  BY <1>1 DEF EndsInv, InOrder
<1> QED BY <1>1, <1>2 DEF EndsInv

-----------------------------------------------------------------------------
(* The theorems *)

\* The step lemmas together.
LEMMA EndsInductive ==
  ASSUME SessionInv, EndsInv, [Next]_vars, [TakesTurns]_vars
  PROVE  EndsInv'
<1>8. CASE UNCHANGED vars
  BY <1>8
     DEF vars, disk, opening, holding, verify, ends, EndsInv, InOrder, EndInv,
         FileStays, AsItIs, PolicyKept, WriterAhead, Settled, Opened, Last, Intact,
         KeepsDirectory, Quiet
<1>1. ASSUME NEW s \in Stores, Open(s) \/ Abandon(s), TakesTurns
      PROVE  EndsInv'
  BY <1>1, OpenStays, AbandonStays
<1>2. ASSUME NEW s \in Stores, Opening(s)
      PROVE  EndsInv'
  BY <1>2, ReadCheckpointStays, ClearStays, CreateFailsStays, CreateMismatchStays,
     CreateStays, ReserveStays, ReserveFailsStays
     DEF Opening
<1>3. ASSUME NEW s \in Stores, Checkpointing(s)
      PROVE  EndsInv'
  <2>1. PICK r \in Roles : WriterOpens(s, r) \/ WriterLands(s, r) \/ WriterFails(s, r)
    BY <1>3 DEF Checkpointing
  <2>2. CASE WriterOpens(s, r)
    BY <2>2, WriterOpensStays
  <2>3. CASE WriterLands(s, r) \/ WriterFails(s, r)
    BY <2>3, WriteOverStays DEF WriterLands, WriterFails
  <2> QED BY <2>1, <2>2, <2>3
<1>4. ASSUME NEW s \in Stores, Writing(s)
      PROVE  EndsInv'
  BY <1>4, WriteStays, WriteRefusedStays DEF Writing
<1>5. ASSUME NEW s \in Stores, End(s) \/ Disposing(s)
      PROVE  EndsInv'
  BY <1>5, EndStays, DisposeStays, RemoveStays DEF Disposing
<1>6. ASSUME NEW s \in Stores, Verify(s) \/ Verifying(s)
      PROVE  EndsInv'
  BY <1>6, VerifyStays, OpenSinkStays, OpenSinkFailsStays, InflateFailsStays,
     InflateStays, HashGivesUpStays, HashMismatchStays, SealStays, SealCheckpointStays
     DEF Verifying
<1>7. CASE Crash
  BY <1>7, CrashStays
<1> QED BY <1>1, <1>2, <1>3, <1>4, <1>5, <1>6, <1>7, <1>8 DEF Next

LEMMA EndsHolds ==
  ASSUME ResumeFlags = {TRUE}
  PROVE  Spec /\ InTurn => [](SessionInv /\ EndsInv)
<1>1. SessionInv /\ EndsInv /\ [Next]_vars /\ [TakesTurns]_vars => (SessionInv /\ EndsInv)'
  BY SessionInductive, EndsInductive
<1>2. Init => SessionInv /\ EndsInv
  BY InitHolds, EndsInit
<1> QED BY <1>1, <1>2, PTL DEF Spec, InTurn

\* However a session ends, of sessions that take turns and resume - cancelled,
\* failed or sealed, with a checkpoint, a verification or another dispose() in
\* flight - a file that was handed over is whole, and one that was discarded has
\* left nothing (opfs-segment-store.ts, seal() and dispose()).
THEOREM SessionsEndAsTold ==
  ASSUME ResumeFlags = {TRUE}
  PROVE  Spec /\ InTurn => []EndsAsTold
<1>1. ASSUME EndsInv
      PROVE  HandedOverStaysWhole
  BY <1>1 DEF EndsInv, EndInv, FileStays, HandedOverStaysWhole
<1>2. ASSUME SessionInv, EndsInv
      PROVE  DiscardRemoves
  BY <1>2 DEF EndsInv, EndInv, PolicyKept, DiscardRemoves, Settled
<1>3. SessionInv /\ EndsInv => EndsAsTold
  BY <1>1, <1>2 DEF EndsAsTold
<1> QED BY <1>3, EndsHolds, PTL

\* A checkpoint that is good becomes another only where a write of it lands.
LEMMA OnlyLandings ==
  ASSUME [Next]_vars, ckpt' # ckpt, ckpt'.kind = "good"
  PROVE  \E s \in Stores, r \in Roles : WriterLands(s, r)
<1> USE DEF disk, opening, holding, verify, ends, RemoveDirectory, Absent, Unreadable
<1>1. ASSUME NEW s \in Stores,
             Open(s) \/ Abandon(s) \/ Opening(s) \/ End(s) \/ Disposing(s) \/ Verify(s)
      PROVE  FALSE
  BY <1>1
     DEF Open, Abandon, Opening, ReadCheckpoint, Clear, CreateFails, CreateMismatch,
         Create, Reserve, ReserveFails, End, Disposing, Dispose, Remove, Verify
<1>2. ASSUME NEW s \in Stores, Writing(s) \/ Verifying(s)
      PROVE  FALSE
  BY <1>2
     DEF Writing, Write, WriteRefused, Verifying, OpenSink, OpenSinkFails, InflateFails,
         Inflate, HashGivesUp, HashMismatch, Seal, SealCheckpoint
<1>3. ASSUME NEW s \in Stores, NEW r \in Roles, WriterOpens(s, r) \/ WriterFails(s, r)
      PROVE  FALSE
  BY <1>3 DEF WriterOpens, WriterFails
<1>4. ASSUME Crash
      PROVE  FALSE
  <2>1. PICK gone \in SUBSET {"data", "checkpoint"} :
          ckpt' = IF "checkpoint" \in gone THEN Absent ELSE ckpt
    BY <1>4 DEF Crash
  <2> QED BY <2>1
<1>5. ~UNCHANGED vars
  BY DEF vars
<1> QED BY <1>1, <1>2, <1>3, <1>4, <1>5 DEF Next, Checkpointing

\* A landing has all that was on the device, and is the whole of what the store
\* has committed unless another write follows.
LEMMA Landing ==
  ASSUME SessionInv, EndsInv, NEW s \in Stores, NEW r \in Roles, WriterLands(s, r)
  PROVE  /\ ckpt' = Snapshot(plan[s], writer[s][r].bits)
         /\ ckpt.kind = "good" => ckpt.bits \subseteq writer[s][r].bits
         /\ \A t \in Stores : pc[t] = "open" /\ ~closed[t] => t = s
         /\ pc[s] = "open" /\ ~closed[s] /\ writer'[s]["progress"] = NotWriting
              => writer[s][r].bits = bits'[s]
<1>0. TypeOK /\ StoreInv(s) /\ EndInv(s) /\ writer[s][r].phase # "no"
  BY DEF SessionInv, EndsInv, WriterLands
<1>1. ~Settled(s) /\ Opened(s)
  BY <1>0, WriterClaims
<1>2. bits' = bits /\ ckpt' = Snapshot(plan[s], writer[s][r].bits)
  BY DEF WriterLands, WriteOver
<1>3. ASSUME NEW t \in Stores, pc[t] = "open", ~closed[t]
      PROVE  t = s
  BY <1>1, <1>3 DEF SessionInv, Alone, StoreInv, EndingInv, Settled
<1>4. ckpt.kind = "good" => ckpt.bits \subseteq writer[s][r].bits
  BY <1>0, <1>1 DEF EndInv, WriterAhead, StoreInv, CheckpointBehind, Roles
<1>5. ASSUME pc[s] = "open", ~closed[s], writer'[s]["progress"] = NotWriting
      PROVE  writer[s][r].bits = bits[s]
  <2>1. CASE r = "progress"
    <3>1. AfterProgress(s)
      BY <2>1 DEF WriterLands, WriteOver
    <3>2. ~dirty[s]
      <4>1. SUFFICES ASSUME dirty[s] PROVE FALSE
        OBVIOUS
      <4>2. writer' = [writer EXCEPT ![s]["progress"] = Begun(s)]
        BY <1>5, <3>1, <4>1 DEF AfterProgress, Reschedules
      <4>3. writer'[s]["progress"].phase = "begun"
        BY <1>0, <4>2 DEF Begun, TypeOK, Roles
      <4> QED BY <1>5, <4>3 DEF NotWriting
    <3> QED BY <1>0, <2>1, <3>2 DEF EndInv, WriterAhead
  <2>2. CASE r # "progress"
    BY <1>0, <2>2 DEF EndInv, WriterAhead, Roles
  <2> QED BY <2>1, <2>2
<1> QED BY <1>2, <1>3, <1>4, <1>5

\* The policy of a session that ended with 'retain' is not changed while the
\* transfer is one that is sent as it is.
LEMMA RetainedStays ==
  ASSUME SessionInv, EndsInv, [Next]_vars, NEW s \in Stores,
         pc[s] = "open", policy[s] = "retain", plan[s] \notin Compressed
  PROVE  policy'[s] = "retain" \/ pc'[s] = "dead"
<1> USE DEF disk, opening, holding, verify, ends
<1>0. /\ TypeOK /\ closed[s] /\ ~again[s] /\ ~sink[s] /\ ver[s] # "inflating"
  BY DEF SessionInv, EndsInv, EndInv, PolicyKept, AsItIs
<1>1. ASSUME NEW t \in Stores, Open(t) \/ Abandon(t) \/ Opening(t) \/ Verify(t) \/ Writing(t)
      PROVE  policy' = policy
  BY <1>1
     DEF Open, Abandon, Opening, ReadCheckpoint, Clear, CreateFails, CreateMismatch,
         Create, Reserve, ReserveFails, Verify, Writing, Write, WriteRefused
<1>2. ASSUME NEW t \in Stores, End(t) \/ Disposing(t)
      PROVE  policy'[s] = policy[s]
  BY <1>0, <1>2 DEF End, Disposing, Dispose, Remove, Disposed, TypeOK
<1>3. ASSUME NEW t \in Stores, Checkpointing(t)
      PROVE  policy'[s] = policy[s]
  <2>1. PICK r \in Roles : WriterOpens(t, r) \/ WriteOver(t, r)
    BY <1>3 DEF Checkpointing, WriterLands, WriterFails
  <2> QED BY <1>0, <2>1
             DEF WriterOpens, WriteOver, AfterProgress, AfterSeal, AfterEnd, Disposed,
                 TypeOK
<1>4. ASSUME NEW t \in Stores, Verifying(t)
      PROVE  policy'[s] = policy[s]
  <2>1. CASE InflateFails(t) \/ HashMismatch(t)
    <3>1. t # s
      BY <1>0, <2>1 DEF InflateFails, HashMismatch, Hashable
    <3> QED BY <1>0, <2>1, <3>1
               DEF InflateFails, HashMismatch, DiscardWorkingData, TypeOK
  <2>2. CASE ~(InflateFails(t) \/ HashMismatch(t))
    BY <1>4, <2>2
       DEF Verifying, OpenSink, OpenSinkFails, Inflate, HashGivesUp, Seal,
           SealCheckpoint
  <2> QED BY <2>1, <2>2
<1>5. CASE Crash
  BY <1>5 DEF Crash
<1>6. CASE UNCHANGED vars
  BY <1>6 DEF vars
<1> QED BY <1>1, <1>2, <1>3, <1>4, <1>5, <1>6 DEF Next

\* Of sessions that take turns and resume, what a resume starts from is never behind
\* what the session promised: a
\* checkpoint is only replaced by one that has all of its segments, the last that
\* is written has all that was committed, and an interruption that kept the file
\* is not undone (persistCheckpoint(), scheduleCheckpoint() and dispose()).
THEOREM ResumePointsStay ==
  ASSUME ResumeFlags = {TRUE}
  PROVE  Spec /\ InTurn => ResumePointStays
<1> DEFINE Grows == ckpt.kind = "good" /\ ckpt'.kind = "good" /\ ckpt.plan = ckpt'.plan
                      => ckpt.bits \subseteq ckpt'.bits
           CatchesUp == \A s \in Stores :
             /\ pc[s] = "open" /\ ~closed[s]
             /\ ckpt' # ckpt /\ ckpt'.kind = "good" /\ writer'[s]["progress"] = NotWriting
             => ckpt' = Snapshot(plan[s], bits'[s])
           Stays == \A s \in Stores :
             pc[s] = "open" /\ policy[s] = "retain" /\ plan[s] \notin Compressed
             => policy'[s] = "retain" \/ pc'[s] = "dead"
<1>1. ASSUME SessionInv, EndsInv, [Next]_vars
      PROVE  Grows /\ CatchesUp
  <2>1. CASE ckpt' = ckpt \/ ckpt'.kind # "good"
    BY <2>1
  <2>2. CASE ckpt' # ckpt /\ ckpt'.kind = "good"
    <3>1. PICK s \in Stores, r \in Roles : WriterLands(s, r)
      BY <1>1, <2>2, OnlyLandings
    <3> QED BY <1>1, <3>1, Landing DEF Snapshot
  <2> QED BY <2>2
<1>2. ASSUME SessionInv, EndsInv, [Next]_vars
      PROVE  Stays
  BY <1>2, RetainedStays
<1>3. SessionInv /\ EndsInv /\ [Next]_vars => [Grows /\ CatchesUp /\ Stays]_vars
  BY <1>1, <1>2
<1>4. Spec /\ InTurn => [][Grows /\ CatchesUp /\ Stays]_vars
  BY <1>3, EndsHolds, PTL DEF Spec
<1> QED BY <1>4, PTL
           DEF ResumePointStays, ResumePointGrows, CheckpointCatchesUp,
               InterruptionStays
=============================================================================
