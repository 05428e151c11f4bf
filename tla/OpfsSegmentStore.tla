--------------------------- MODULE OpfsSegmentStore ---------------------------
(***************************************************************************)
(* The segment store of the receiver on the origin private file system      *)
(* (mobile-web/src/opfs-segment-store.ts and opfs.ts), from open() to       *)
(* dispose(), with the part of the pipeline that verifies a stored transfer *)
(* and ends its session (receive-pipeline.ts).                              *)
(*                                                                         *)
(* Every store works in the one session directory its manifest's ids name.  *)
(* A step is what runs between two awaits; the device, the checkpoint       *)
(* writer and a crash act between steps.  A plan is what a checkpoint is    *)
(* matched on: ids, digest, sizes and segment count.  A cell of data.part   *)
(* holds zeros, a torn write, or the bytes the plan it names puts there.    *)
(***************************************************************************)
EXTENDS Integers, FiniteSets

CONSTANTS Segments,    \* the segment indices of a plan
          Plans,       \* the manifests sent under this directory's ids
          Size,        \* plan -> its transportSize
          Compressed,  \* the plans whose original goes through original.part
          MaxOpens,    \* bound: stores opened in one behaviour
          MaxCrashes,  \* bound: times the tab or the device dies
          ResumeFlags, \* the values of options.resume
          Overlap,     \* may a session open before the last one has settled?
          Faults,      \* what may fail: see FaultKinds
          Zero, Torn, NoPlan

FaultKinds == {"create", "truncate", "reserve", "checkpoint", "write", "sink", "read",
               "hash"}

ASSUME StoreAssumption ==
  /\ Size \in [Plans -> Nat \ {0}]
  /\ Compressed \subseteq Plans
  /\ MaxOpens \in Nat
  /\ MaxCrashes \in Nat
  /\ ResumeFlags \subseteq BOOLEAN
  /\ Overlap \in BOOLEAN
  /\ Faults \subseteq FaultKinds
  /\ {Zero, Torn, NoPlan} \cap Plans = {}

Stores == 1 .. MaxOpens

VARIABLES
  there,    \* the session directory exists
  file,     \* data.part as the process sees it
  stable,   \* data.part as the device holds it
  ckpt,     \* checkpoint.json
  pc,       \* store -> how far open() has got
  plan,     \* store -> the plan it was opened for
  adopts,   \* store -> open() has matched a checkpoint
  stale,    \* store -> its session ended while open() was running
  bits,     \* store -> committed
  handle,   \* store -> holds the access handle of data.part
  closed,   \* store -> release() has run
  sealed,   \* store -> seal() has begun
  dirty,    \* store -> checkpointDirty
  writer,   \* store -> its checkpoint writes in flight
  sink,     \* store -> its original.part is held open
  ver,      \* store -> how far verify() has got
  ending,   \* store -> how far dispose() has got
  policy,   \* store -> the policy dispose() was given
  again,    \* store -> a second dispose('discard') waits for the first
  crashes

disk    == <<there, file, stable, ckpt>>
opening == <<pc, plan, adopts, stale>>
holding == <<bits, handle, closed, sealed>>
verify  == <<sink, ver>>
ends    == <<ending, policy, again>>
vars    == <<disk, opening, holding, dirty, writer, verify, ends, crashes>>

Cells == {Zero, Torn} \cup Plans
Files == [size : Nat, cells : [Segments -> Cells]]

\* (mutant)
NoFileNegative == [size |-> -1, cells |-> [i \in Segments |-> Zero]]

NoFile == [size |-> 0, cells |-> [i \in Segments |-> Zero]]
Presized(p) == [size |-> Size[p], cells |-> [i \in Segments |-> Zero]]

Checkpoints == [kind : {"absent", "unreadable", "good"},
                plan : Plans \cup {NoPlan}, bits : SUBSET Segments]

Absent == [kind |-> "absent", plan |-> NoPlan, bits |-> {}]
Unreadable == [kind |-> "unreadable", plan |-> NoPlan, bits |-> {}]
Snapshot(p, B) == [kind |-> "good", plan |-> p, bits |-> B]

Roles == {"progress", "seal", "end"}
NotWriting == [phase |-> "no", bits |-> {}]
Begun(s) == [phase |-> "begun", bits |-> bits[s]]

\* The same in every store.
All(x) == [s \in Stores |-> x]

Init ==
  /\ there = FALSE
  /\ file = NoFile
  /\ stable = NoFile
  /\ ckpt = Absent
  /\ pc = All("unused")
  /\ plan = All(NoPlan)
  /\ adopts = All(FALSE) /\ stale = All(FALSE)
  /\ bits = All({}) /\ handle = All(FALSE)
  /\ closed = All(FALSE) /\ sealed = All(FALSE)
  /\ dirty = All(FALSE) /\ writer = All([r \in Roles |-> NotWriting])
  /\ sink = All(FALSE) /\ ver = All("no")
  /\ ending = All("no") /\ policy = All("discard") /\ again = All(FALSE)
  /\ crashes = 0
-----------------------------------------------------------------------------
(* The device *)

\* A handle or a writable on a file of the directory: it cannot be removed.
Held == \E s \in Stores : \/ handle[s]
                          \/ sink[s]
                          \/ \E r \in Roles : writer[s][r].phase = "open"

\* removeSessionDirectory(): a refusal is swallowed.
RemoveDirectory ==
  IF Held THEN UNCHANGED disk
          ELSE /\ there' = FALSE
               /\ file' = NoFile
               /\ stable' = NoFile
               /\ ckpt' = Absent

\* release(), where a set S of stores is released.
Release(S) ==
  /\ closed' = [s \in Stores |-> closed[s] \/ s \in S]
  /\ handle' = [s \in Stores |-> handle[s] /\ s \notin S]
-----------------------------------------------------------------------------
(* open() *)

\* Nothing of the store is still running.
Settled(s) ==
  \/ pc[s] \in {"unused", "failed", "dead"}
  \/ pc[s] = "open" /\ ending[s] = "done" /\ ver[s] \in {"no", "over", "handed"}

\* The session of the store is over, though its dispose() may still be running.
Ended(s) == \/ pc[s] \in {"unused", "failed", "dead"}
            \/ stale[s]
            \/ closed[s]

\* The rule that says when the pipeline may open the next store.
MayFollow(s) == IF Overlap THEN Ended(s) ELSE Settled(s)

Open(s) ==
  /\ pc[s] = "unused"
  /\ \A t \in Stores : t < s => pc[t] # "unused"
  /\ \A t \in Stores : MayFollow(t)
  /\ \E p \in Plans, resume \in ResumeFlags :
       /\ plan' = [plan EXCEPT ![s] = p]
       /\ pc' = [pc EXCEPT ![s] = IF resume THEN "reading" ELSE "creating"]
  /\ UNCHANGED <<disk, adopts, stale, holding, dirty, writer, verify, ends, crashes>>

\* The session ends while storage is being opened: the answer will be dropped.
Abandon(s) ==
  /\ pc[s] \in {"reading", "clearing", "creating", "reserving", "persisting"}
  /\ ~stale[s]
  /\ stale' = [stale EXCEPT ![s] = TRUE]
  /\ UNCHANGED <<disk, pc, plan, adopts, holding, dirty, writer, verify, ends, crashes>>

\* matchCheckpoint()
Matches(s) == ckpt.kind = "good" /\ ckpt.plan = plan[s]

ReadCheckpoint(s) ==
  /\ pc[s] = "reading"
  /\ adopts' = [adopts EXCEPT ![s] = Matches(s)]
  /\ bits' = [bits EXCEPT ![s] = IF Matches(s) THEN ckpt.bits ELSE {}]
  /\ pc' = [pc EXCEPT ![s] = IF Matches(s) \/ ckpt.kind = "absent"
                             THEN "creating" ELSE "clearing"]
  /\ UNCHANGED <<disk, plan, stale, handle, closed, sealed, dirty, writer, verify, ends, crashes>>

\* A checkpoint that is not this transfer's takes its directory with it.
Clear(s) ==
  /\ pc[s] = "clearing"
  /\ RemoveDirectory
  /\ pc' = [pc EXCEPT ![s] = "creating"]
  /\ UNCHANGED <<plan, adopts, stale, holding, dirty, writer, verify, ends, crashes>>

\* The adopted file is as long as the plan says.
LengthRight(s) == file.size = Size[plan[s]]

\* The data file cannot be opened, or will not take the transfer's size: the
\* probe has then already emptied it.
CreateFails(s) ==
  /\ pc[s] = "creating"
  /\ there' = TRUE
  /\ \/ /\ "create" \in Faults \/ \E t \in Stores : handle[t]
        /\ UNCHANGED <<file, stable>>
     \/ /\ "truncate" \in Faults /\ ~adopts[s] /\ \A t \in Stores : ~handle[t]
        /\ file' = NoFile
        /\ UNCHANGED stable
  /\ pc' = [pc EXCEPT ![s] = "failed"]
  /\ UNCHANGED <<ckpt, plan, adopts, stale, holding, dirty, writer, verify, ends, crashes>>

\* The file is not the one the checkpoint speaks of: closed, cleared, and
\* opened again without resuming.
CreateMismatch(s) ==
  /\ pc[s] = "creating"
  /\ \A t \in Stores : ~handle[t]
  /\ adopts[s] /\ ~LengthRight(s)
  /\ there' = TRUE
  /\ adopts' = [adopts EXCEPT ![s] = FALSE]
  /\ bits' = [bits EXCEPT ![s] = {}]
  /\ pc' = [pc EXCEPT ![s] = "clearing"]
  /\ UNCHANGED <<file, stable, ckpt, plan, stale, handle, closed, sealed, dirty, writer, verify, ends, crashes>>

\* persistCheckpoint(), awaited: no store is handed out before it is over.
FirstCheckpoint(s) ==
  writer' = [writer EXCEPT ![s]["progress"] = Begun(s)]

Create(s) ==
  /\ pc[s] = "creating"
  /\ \A t \in Stores : ~handle[t]
  /\ adopts[s] => LengthRight(s)
  /\ there' = TRUE
  /\ file' = IF adopts[s] THEN file ELSE Presized(plan[s])
  /\ handle' = [handle EXCEPT ![s] = TRUE]
  /\ IF plan[s] \in Compressed
     THEN pc' = [pc EXCEPT ![s] = "reserving"] /\ UNCHANGED writer
     ELSE pc' = [pc EXCEPT ![s] = "persisting"] /\ FirstCheckpoint(s)
  /\ UNCHANGED <<stable, ckpt, plan, adopts, stale, bits, closed, sealed, dirty, verify, ends, crashes>>

\* OpfsOriginalSink.reserve()
Reserve(s) ==
  /\ pc[s] = "reserving"
  /\ pc' = [pc EXCEPT ![s] = "persisting"]
  /\ FirstCheckpoint(s)
  /\ UNCHANGED <<disk, plan, adopts, stale, holding, dirty, verify, ends, crashes>>

ReserveFails(s) ==
  /\ pc[s] = "reserving"
  /\ "reserve" \in Faults \/ \E t \in Stores : sink[t]
  /\ pc' = [pc EXCEPT ![s] = "failed"]
  /\ handle' = [handle EXCEPT ![s] = FALSE]
  /\ UNCHANGED <<disk, plan, adopts, stale, bits, closed, sealed, dirty, writer, verify, ends, crashes>>
-----------------------------------------------------------------------------
(* Checkpoint writes *)

\* (mutant)
ReschedulesAlways(s) == TRUE

\* A burst of segments collapses to one more write of the latest state.
Reschedules(s) == dirty[s] /\ ~closed[s]

\* What follows a checkpoint write of the role: open() answers, a coalesced
\* write starts, seal() or dispose() goes on.
AfterProgress(s) ==
  IF pc[s] = "persisting"
  THEN /\ pc' = [pc EXCEPT ![s] = "open"]
       /\ writer' = [writer EXCEPT ![s]["progress"] = NotWriting]
       \* onProvisioned() of a session that has gone: release and discard.
       /\ IF stale[s]
          THEN Release({s}) /\ ending' = [ending EXCEPT ![s] = "settling"]
          ELSE UNCHANGED <<closed, handle, ending>>
       /\ UNCHANGED <<dirty, ver, sink, policy, again>>
  ELSE /\ IF Reschedules(s)
          THEN /\ dirty' = [dirty EXCEPT ![s] = FALSE]
               /\ writer' = [writer EXCEPT ![s]["progress"] = Begun(s)]
          ELSE /\ writer' = [writer EXCEPT ![s]["progress"] = NotWriting]
               /\ UNCHANGED dirty
       /\ UNCHANGED <<pc, closed, handle, ending, ver, sink, policy, again>>

AfterSeal(s) ==
  /\ writer' = [writer EXCEPT ![s]["seal"] = NotWriting]
  /\ handle' = [handle EXCEPT ![s] = FALSE]
  /\ sink' = [sink EXCEPT ![s] = FALSE]
  /\ ver' = [ver EXCEPT ![s] = IF closed[s] THEN "over" ELSE "handed"]
  /\ UNCHANGED <<pc, closed, dirty, ending, policy, again>>

\* dispose() is over, unless verify() has asked for another.
Disposed(s) ==
  IF again[s]
  THEN /\ ending' = [ending EXCEPT ![s] = "settling"]
       /\ policy' = [policy EXCEPT ![s] = "discard"]
       /\ again' = [again EXCEPT ![s] = FALSE]
  ELSE /\ ending' = [ending EXCEPT ![s] = "done"]
       /\ UNCHANGED <<policy, again>>

AfterEnd(s) ==
  /\ writer' = [writer EXCEPT ![s]["end"] = NotWriting]
  /\ Disposed(s)
  /\ UNCHANGED <<pc, closed, handle, dirty, ver, sink>>

WriteOver(s, r) ==
  /\ \/ r = "progress" /\ AfterProgress(s)
     \/ r = "seal" /\ AfterSeal(s)
     \/ r = "end" /\ AfterEnd(s)
  /\ UNCHANGED <<there, file, stable, plan, adopts, stale, bits, sealed, crashes>>

\* createWritable(): the entry exists, empty, before anything is in it.
WriterOpens(s, r) ==
  /\ writer[s][r].phase = "begun"
  /\ there
  /\ writer' = [writer EXCEPT ![s][r].phase = "open"]
  /\ ckpt' = IF ckpt.kind = "absent" THEN Unreadable ELSE ckpt
  /\ UNCHANGED <<there, file, stable, opening, holding, dirty, verify, ends, crashes>>

\* close() replaces the file in one step.
WriterLands(s, r) ==
  /\ writer[s][r].phase = "open"
  /\ ckpt' = Snapshot(plan[s], writer[s][r].bits)
  /\ WriteOver(s, r)

\* A checkpoint that cannot be written costs a resume, not a transfer.
WriterFails(s, r) ==
  /\ writer[s][r].phase # "no"
  /\ "checkpoint" \in Faults \/ (writer[s][r].phase = "begun" /\ ~there)
  /\ WriteOver(s, r)
  /\ UNCHANGED ckpt

\* (mutant)
ScheduleCheckpointOnce(s, B) ==
  IF writer[s]["progress"].phase # "no"
  THEN UNCHANGED <<dirty, writer>>
  ELSE /\ writer' = [writer EXCEPT ![s]["progress"] = [phase |-> "begun", bits |-> B]]
       /\ UNCHANGED dirty

\* scheduleCheckpoint()
ScheduleCheckpoint(s, B) ==
  IF writer[s]["progress"].phase # "no"
  THEN dirty' = [dirty EXCEPT ![s] = TRUE] /\ UNCHANGED writer
  ELSE /\ writer' = [writer EXCEPT ![s]["progress"] = [phase |-> "begun", bits |-> B]]
       /\ UNCHANGED dirty
-----------------------------------------------------------------------------
(* write() *)

Writable(s, i) == /\ pc[s] = "open"
                  /\ handle[s]
                  /\ ver[s] = "no"
                  /\ i \notin bits[s]

\* (mutant)
Unflushed == UNCHANGED stable

\* flush()
Flushed == stable' = file'

Write(s, i) ==
  /\ Writable(s, i)
  /\ file' = [file EXCEPT !.cells[i] = plan[s]]
  /\ Flushed
  /\ bits' = [bits EXCEPT ![s] = @ \cup {i}]
  /\ ScheduleCheckpoint(s, bits[s] \cup {i})
  /\ UNCHANGED <<there, ckpt, opening, handle, closed, sealed, verify, ends, crashes>>

\* A short write, or a write or flush that throws: the session faults, so
\* nothing more is written and verify() answers at once.
WriteRefused(s, i) ==
  /\ Writable(s, i)
  /\ "write" \in Faults
  /\ \E c \in {file.cells[i], Torn, plan[s]} : file' = [file EXCEPT !.cells[i] = c]
  /\ ver' = [ver EXCEPT ![s] = "over"]
  /\ UNCHANGED <<there, stable, ckpt, opening, holding, dirty, writer, sink, ends, crashes>>
-----------------------------------------------------------------------------
(* The end of a session, and dispose() *)

\* reset() or release() of the pipeline, with the policy of the reason.
End(s) ==
  /\ pc[s] = "open"
  /\ ~closed[s]
  /\ Release({s})
  /\ \E reason \in {"discard", "retain"} : policy' = [policy EXCEPT ![s] = reason]
  /\ ending' = [ending EXCEPT ![s] = "settling"]
  /\ UNCHANGED <<disk, opening, bits, sealed, dirty, writer, verify, again, crashes>>

\* (mutant)
KeepsDirectoryOfPolicy(s) == policy[s] = "retain"

KeepsDirectory(s) == policy[s] = "retain" \/ sealed[s]

\* settled(): no progress write is in flight.
Quiet(s) == writer[s]["progress"].phase = "no"

Dispose(s) ==
  /\ ending[s] = "settling" /\ pc[s] = "open"
  /\ Quiet(s)
  /\ IF KeepsDirectory(s)
     THEN /\ ending' = [ending EXCEPT ![s] = "recording"]
          /\ writer' = [writer EXCEPT ![s]["end"] = Begun(s)]
     ELSE /\ ending' = [ending EXCEPT ![s] = "removing"]
          /\ UNCHANGED writer
  /\ UNCHANGED <<disk, opening, holding, dirty, verify, policy, again, crashes>>

Remove(s) ==
  /\ ending[s] = "removing" /\ pc[s] = "open"
  /\ RemoveDirectory
  /\ Disposed(s)
  /\ UNCHANGED <<opening, holding, dirty, writer, verify, crashes>>

\* discardWorkingData(): dispose('discard') joins the chain of cleanups.
DiscardWorkingData(s) ==
  /\ Release({s})
  /\ IF ending[s] \in {"no", "done"}
     THEN /\ ending' = [ending EXCEPT ![s] = "settling"]
          /\ policy' = [policy EXCEPT ![s] = "discard"]
          /\ UNCHANGED again
     ELSE /\ again' = [again EXCEPT ![s] = TRUE]
          /\ UNCHANGED <<ending, policy>>
-----------------------------------------------------------------------------
(* verify() *)

Intact(s) == /\ file.size = Size[plan[s]]
             /\ \A i \in Segments : file.cells[i] = plan[s]

Verify(s) ==
  /\ pc[s] = "open" /\ ver[s] = "no" /\ ~closed[s]
  /\ bits[s] = Segments
  /\ ver' = [ver EXCEPT ![s] = IF plan[s] \in Compressed THEN "sinking" ELSE "hashing"]
  /\ UNCHANGED <<disk, opening, holding, dirty, writer, sink, ends, crashes>>

\* openOriginalSink()
OpenSink(s) ==
  /\ ver[s] = "sinking" /\ pc[s] = "open"
  /\ there /\ \A t \in Stores : ~sink[t]
  /\ sink' = [sink EXCEPT ![s] = TRUE]
  /\ ver' = [ver EXCEPT ![s] = "inflating"]
  /\ UNCHANGED <<disk, opening, holding, dirty, writer, ends, crashes>>

SinkRefused == "sink" \in Faults \/ ~there \/ \E t \in Stores : sink[t]

OpenSinkFails(s) ==
  /\ ver[s] = "sinking" /\ pc[s] = "open"
  /\ SinkRefused
  /\ ver' = [ver EXCEPT ![s] = IF closed[s] THEN "over" ELSE "no"]
  /\ UNCHANGED <<disk, opening, holding, dirty, writer, sink, ends, crashes>>

\* inflateWindowContainer() gives up: its input is not the container, its
\* output will not go in, or the session has gone from under it.
InflateFails(s) ==
  /\ ver[s] = "inflating" /\ pc[s] = "open"
  /\ closed[s] \/ ~Intact(s) \/ "sink" \in Faults
  /\ sink' = [sink EXCEPT ![s] = FALSE]
  /\ ver' = [ver EXCEPT ![s] = "over"]
  /\ DiscardWorkingData(s)
  /\ UNCHANGED <<disk, opening, bits, sealed, dirty, writer, crashes>>

\* A session that goes during the last window is not noticed here.
Inflate(s) ==
  /\ ver[s] = "inflating" /\ pc[s] = "open"
  /\ Intact(s)
  /\ ver' = [ver EXCEPT ![s] = "hashing"]
  /\ UNCHANGED <<disk, opening, holding, dirty, writer, sink, ends, crashes>>

\* (mutant)
HashGivesUpHolding(s) ==
  /\ ver[s] = "hashing" /\ pc[s] = "open"
  /\ closed[s] \/ "read" \in Faults
  /\ ver' = [ver EXCEPT ![s] = "over"]
  /\ UNCHANGED <<disk, opening, holding, dirty, writer, sink, ends, crashes>>

\* digestSegmentStore() finds the session gone or the bytes unreadable, or the
\* name of the file is one that may not be exported.
HashGivesUp(s) ==
  /\ ver[s] = "hashing" /\ pc[s] = "open"
  /\ closed[s] \/ "read" \in Faults
  /\ sink' = [sink EXCEPT ![s] = FALSE]
  /\ ver' = [ver EXCEPT ![s] = "over"]
  /\ UNCHANGED <<disk, opening, holding, dirty, writer, ends, crashes>>

\* What the hash tells: the bytes on the device are the file.
HashMatches(s) == Intact(s)

\* original.part can be read when the store is closed, and its hash is only
\* interrupted where it yields.
Hashable(s) == ~closed[s] \/ sink[s]

\* The bytes are not the file, or the manifest's hash is of another one.
HashMismatch(s) ==
  /\ ver[s] = "hashing" /\ pc[s] = "open"
  /\ Hashable(s)
  /\ ~HashMatches(s) \/ "hash" \in Faults
  /\ sink' = [sink EXCEPT ![s] = FALSE]
  /\ ver' = [ver EXCEPT ![s] = "over"]
  /\ DiscardWorkingData(s)
  /\ UNCHANGED <<disk, opening, bits, sealed, dirty, writer, crashes>>

\* seal(), up to its first await.
Seal(s) ==
  /\ ver[s] = "hashing" /\ pc[s] = "open"
  /\ Hashable(s) /\ HashMatches(s)
  /\ sealed' = [sealed EXCEPT ![s] = TRUE]
  /\ stable' = IF handle[s] THEN file ELSE stable
  /\ ver' = [ver EXCEPT ![s] = "settling"]
  /\ UNCHANGED <<there, file, ckpt, opening, bits, handle, closed, dirty, writer, sink, ends, crashes>>

SealCheckpoint(s) ==
  /\ ver[s] = "settling" /\ pc[s] = "open"
  /\ Quiet(s)
  /\ ver' = [ver EXCEPT ![s] = "sealing"]
  /\ writer' = [writer EXCEPT ![s]["seal"] = Begun(s)]
  /\ UNCHANGED <<disk, opening, holding, dirty, sink, ends, crashes>>
-----------------------------------------------------------------------------
(* The tab is killed or the device loses power.  What was not flushed may    *)
(* be lost, cell by cell; a removal under way may have taken either file.    *)

Removing == \E s \in Stores : \/ pc[s] = "clearing"
                              \/ pc[s] = "open" /\ ending[s] = "removing"

Survives(f) ==
  /\ f.size \in {file.size, stable.size}
  /\ \A i \in Segments : f.cells[i] \in {file.cells[i], stable.cells[i]}

Crash ==
  /\ crashes < MaxCrashes
  /\ \E s \in Stores : ~Settled(s)
  /\ crashes' = crashes + 1
  /\ \E gone \in IF Removing /\ ~Held THEN SUBSET {"data", "checkpoint"} ELSE {{}} :
       /\ IF "data" \in gone
          THEN file' = NoFile
          ELSE \E f \in [size : {file.size, stable.size},
                         cells : [Segments -> Cells]] :
                 Survives(f) /\ file' = f
       /\ ckpt' = IF "checkpoint" \in gone THEN Absent ELSE ckpt
  /\ stable' = file'
  /\ pc' = [s \in Stores |-> IF pc[s] = "unused" THEN "unused" ELSE "dead"]
  /\ plan' = All(NoPlan)
  /\ adopts' = All(FALSE) /\ stale' = All(FALSE)
  /\ bits' = All({}) /\ handle' = All(FALSE)
  /\ closed' = All(FALSE) /\ sealed' = All(FALSE)
  /\ dirty' = All(FALSE) /\ writer' = All([r \in Roles |-> NotWriting])
  /\ sink' = All(FALSE) /\ ver' = All("no")
  /\ ending' = All("no") /\ policy' = All("discard") /\ again' = All(FALSE)
  /\ UNCHANGED there
-----------------------------------------------------------------------------
Opening(s) == \/ ReadCheckpoint(s)
              \/ Clear(s)
              \/ CreateFails(s)
              \/ CreateMismatch(s)
              \/ Create(s)
              \/ Reserve(s)
              \/ ReserveFails(s)

Checkpointing(s) == \E r \in Roles : \/ WriterOpens(s, r)
                                     \/ WriterLands(s, r)
                                     \/ WriterFails(s, r)

Writing(s) == \E i \in Segments : Write(s, i) \/ WriteRefused(s, i)

Verifying(s) == \/ OpenSink(s)
                \/ OpenSinkFails(s)
                \/ InflateFails(s)
                \/ Inflate(s)
                \/ HashGivesUp(s)
                \/ HashMismatch(s)
                \/ Seal(s)
                \/ SealCheckpoint(s)

Disposing(s) == Dispose(s) \/ Remove(s)

Next == \/ \E s \in Stores : \/ Open(s)
                             \/ Abandon(s)
                             \/ Opening(s)
                             \/ Checkpointing(s)
                             \/ Writing(s)
                             \/ End(s)
                             \/ Disposing(s)
                             \/ Verify(s)
                             \/ Verifying(s)
        \/ Crash

Spec == Init /\ [][Next]_vars

\* Promises settle: what the code awaits is answered in the end.
Fairness == \A s \in Stores : /\ WF_vars(Opening(s))
                              /\ WF_vars(Checkpointing(s))
                              /\ WF_vars(Verifying(s))
                              /\ WF_vars(Disposing(s))

FairSpec == Spec /\ Fairness
-----------------------------------------------------------------------------
(* Properties *)

Opened(s) == pc[s] \in {"reserving", "persisting", "open"}

TypeOK ==
  /\ there \in BOOLEAN
  /\ file \in Files /\ stable \in Files
  /\ ckpt \in Checkpoints
  /\ pc \in [Stores -> {"unused", "reading", "clearing", "creating", "reserving",
                        "persisting", "open", "failed", "dead"}]
  /\ plan \in [Stores -> Plans \cup {NoPlan}]
  /\ adopts \in [Stores -> BOOLEAN]
  /\ stale \in [Stores -> BOOLEAN]
  /\ bits \in [Stores -> SUBSET Segments]
  /\ handle \in [Stores -> BOOLEAN]
  /\ closed \in [Stores -> BOOLEAN]
  /\ sealed \in [Stores -> BOOLEAN]
  /\ dirty \in [Stores -> BOOLEAN]
  /\ writer \in [Stores -> [Roles -> [phase : {"no", "begun", "open"},
                                      bits : SUBSET Segments]]]
  /\ sink \in [Stores -> BOOLEAN]
  /\ ver \in [Stores -> {"no", "sinking", "inflating", "hashing", "settling",
                         "sealing", "handed", "over"}]
  /\ ending \in [Stores -> {"no", "settling", "recording", "removing", "done"}]
  /\ policy \in [Stores -> {"discard", "retain"}]
  /\ again \in [Stores -> BOOLEAN]
  /\ crashes \in Nat

\* Whatever dies and whenever, a checkpoint that a later open() would adopt
\* (good, and beside a data file of its length) claims only segments whose
\* bytes the device holds.  This is why write() flushes before it commits and
\* open() clears before it pre-sizes.
CheckpointSound ==
  \A p \in Plans : \A f \in {file, stable} :
    ckpt.kind = "good" /\ ckpt.plan = p /\ f.size = Size[p]
      => \A i \in ckpt.bits : file.cells[i] = p /\ stable.cells[i] = p

\* A store that holds its data file counts as committed only segments whose
\* bytes are on the device, adopted ones included.
CommittedDurable ==
  \A s \in Stores : Opened(s) /\ handle[s] =>
    \A i \in bits[s] : file.cells[i] = plan[s] /\ stable.cells[i] = plan[s]

\* What the receiver would resume from is true of the device, be it read from
\* the checkpoint or from the store.
ResumeIsTrue == CheckpointSound /\ CommittedDurable

\* No way out of open(), verify() or dispose() keeps a lock: the next session
\* on the device could not open its file.
NothingHeldAfterwards ==
  \A s \in Stores : pc[s] = "failed" \/ (pc[s] = "open" /\ Settled(s)) =>
    ~handle[s] /\ ~sink[s]

\* No session has been opened on the directory since the store's.
Last(s) == \A t \in Stores : t > s => pc[t] = "unused"

\* A verified file that was handed to the export route stays whole, whatever
\* ends the session, until another is opened in its place.
HandedOverStaysWhole ==
  \A s \in Stores :
    pc[s] = "open" /\ ver[s] = "handed" /\ Last(s) => there /\ Intact(s)

\* A session of a transfer that is sent as it is, never sealed and ended with
\* 'discard', leaves nothing of itself on the device ("Everything unsealed -
\* cancelled, failed, interrupted - follows the policy it was given",
\* opfs-segment-store.ts:618).
DiscardRemoves ==
  \A s \in Stores :
    /\ pc[s] = "open" /\ Settled(s) /\ policy[s] = "discard" /\ ~sealed[s] /\ Last(s)
    /\ plan[s] \notin Compressed
    => ~there

\* A session ends as it was told to: handed over it keeps its file, discarded it
\* leaves none, whatever verify(), seal() and the checkpoint writer had in
\* flight when it ended.
EndsAsTold == HandedOverStaysWhole /\ DiscardRemoves

\* A resumable transfer never goes backwards: a checkpoint on the device is
\* only replaced, for the same plan, by one that has all of its segments.
ResumePointGrows ==
  [][ckpt.kind = "good" /\ ckpt'.kind = "good" /\ ckpt.plan = ckpt'.plan
       => ckpt.bits \subseteq ckpt'.bits]_vars

\* Coalescing loses nothing: a checkpoint that lands with no write after it has
\* the whole of what the open store has committed.
CheckpointCatchesUp ==
  [][\A s \in Stores :
       /\ pc[s] = "open" /\ ~closed[s]
       /\ ckpt' # ckpt /\ ckpt'.kind = "good" /\ writer'[s]["progress"] = NotWriting
       => ckpt' = Snapshot(plan[s], bits'[s])]_vars

\* An interrupted session keeps what arrived ("so the partial file is kept",
\* receive-pipeline.ts:155): once the session of a transfer that is sent as it
\* is has ended with 'retain', no late answer of its verification turns that into
\* a 'discard'.
InterruptionStays ==
  [][\A s \in Stores :
       pc[s] = "open" /\ policy[s] = "retain" /\ plan[s] \notin Compressed
       => policy'[s] = "retain" \/ pc'[s] = "dead"]_vars

\* What a resume starts from is never behind what the session promised.
ResumePointStays == ResumePointGrows /\ CheckpointCatchesUp /\ InterruptionStays

\* dispose() comes to its end, and so does the chain of them: settled() never
\* waits for a checkpoint write that keeps being scheduled again.
DisposeEnds ==
  \A s \in Stores : ending[s] = "settling" ~> (ending[s] = "done" \/ pc[s] = "dead")

\* What verify() was asked for is answered, unless the tab dies first.
VerifyAnswers ==
  \A s \in Stores : ver[s] = "sinking" \/ ver[s] = "hashing"
    ~> (ver[s] \in {"handed", "over", "no"} \/ pc[s] = "dead")

\* Nothing of a session outlives it for good, whether it was open or its store was
\* still being opened: the cleanup that outgoingCleanup waits for comes to its end
\* (receive-worker-core.ts:180), whoever holds the file or the directory meanwhile.
SessionsSettle ==
  \A s \in Stores : stale[s] \/ closed[s] ~> Settled(s)

\* Both calls that the pipeline awaits come back, and every session that was
\* abandoned or released comes to its end.
EveryCallEnds == DisposeEnds /\ VerifyAnswers /\ SessionsSettle
=============================================================================
