----------------------------- MODULE Checkpoint -----------------------------
(***************************************************************************)
(* The checkpoint a session leaves beside its data (opfs.ts): what is       *)
(* written of the segments it has, what a later run believes of what it     *)
(* finds there, and which abandoned sessions a sweep removes.               *)
(*                                                                         *)
(* A bitmap is a sequence of bytes and its text a sequence of base 64       *)
(* digits; times are numbers, names and digests values that are equal or    *)
(* not.  What is at a checkpoint's path is {} or {[opens, size, parsed]}:   *)
(* whether it can be opened, and {} in parsed for text that is not the JSON *)
(* of a record.                                                            *)
(***************************************************************************)
EXTENDS FramesV2, FiniteSets

CONSTANT Malformed      \* a field of another type or shape

MaxCheckpointSegments == 2^24                              \* maxSegmentCount
MaxCommittedChars == 4 * CeilDiv(CeilDiv(MaxCheckpointSegments, 8), 3)
MaxCheckpointBytes == MaxCommittedChars + 4096

(***************************************************************************)
(* The bitmap, least significant bit first, and its text.                  *)
(***************************************************************************)
ByteOf(bits) ==
  LET sum[k \in 0..8] == IF k = 0 THEN 0
                         ELSE sum[k - 1] + (IF k - 1 \in bits THEN 2^(k - 1) ELSE 0)
  IN  sum[8]

BitmapOf(committed, count) ==
  [i \in 1..CeilDiv(count, 8) |-> ByteOf({s % 8 : s \in {c \in committed : c \div 8 = i - 1}})]

Marked(bytes) ==
  {s \in 0..(8 * Len(bytes) - 1) : (bytes[(s \div 8) + 1] \div 2^(s % 8)) % 2 = 1}

Pad == 64
ByteAt(bytes, i) == IF i <= Len(bytes) THEN bytes[i] ELSE 0

\* bytesToBase64(): three bytes make four digits.
Base64(bytes) ==
  [k \in 1..(4 * CeilDiv(Len(bytes), 3)) |->
     LET at == 3 * ((k - 1) \div 4)
         a  == ByteAt(bytes, at + 1)
         b  == ByteAt(bytes, at + 2)
         c  == ByteAt(bytes, at + 3)
     IN  CASE k % 4 = 1 -> a \div 4
           [] k % 4 = 2 -> (a % 4) * 16 + b \div 16
           [] k % 4 = 3 -> IF at + 2 > Len(bytes) THEN Pad ELSE (b % 16) * 4 + c \div 64
           [] OTHER     -> IF at + 3 > Len(bytes) THEN Pad ELSE c % 64]

\* base64ToBytes(): the bytes, or none of a text that is malformed.
Unbase64(text) ==
  LET pads   == {i \in DOMAIN text : text[i] = Pad}
      count  == ((Len(text) - Cardinality(pads)) * 3) \div 4
      first(j)  == (4 * (j - 1)) \div 3 + 1
      octet(j)  == LET x == text[first(j)] y == text[first(j) + 1]
                   IN  CASE j % 3 = 1 -> x * 4 + y \div 16
                         [] j % 3 = 2 -> (x % 16) * 16 + y \div 4
                         [] OTHER     -> (x % 4) * 64 + y
  IN  IF /\ Len(text) % 4 = 0
         /\ pads \in {{}, {Len(text)}, {Len(text) - 1, Len(text)}}
         /\ \A i \in DOMAIN text : text[i] \in 0..Pad
      THEN {[j \in 1..count |-> octet(j)]}
      ELSE {}

(***************************************************************************)
(* What a session writes: identity is [sessionId, fileId, sha256, filename, *)
(* mimeType, originalSize], plan is a SegmentPlan.                         *)
(***************************************************************************)
\* committedBytesOf()
BytesOf(plan, committed) ==
  LET sum[s \in 0..plan.segmentCount] ==
        IF s = 0 THEN 0
        ELSE sum[s - 1] + IF s - 1 \in committed
                          THEN SegmentRange(plan, s - 1).to - SegmentRange(plan, s - 1).from ELSE 0
  IN  sum[plan.segmentCount]

\* OpfsSegmentStore.snapshot(), over the template of open(): state is the
\* session's, which seal() makes "verified".
Snapshot(identity, plan, committed, createdAt, now, state) ==
  [schema |-> 1, protocol |-> 2, dataFile |-> "data.part",
   sessionId |-> identity.sessionId, fileId |-> identity.fileId, sha256 |-> identity.sha256,
   filename |-> identity.filename, mimeType |-> identity.mimeType,
   originalSize |-> identity.originalSize,
   transportSize |-> plan.transportSize, segmentSize |-> plan.segmentSize,
   symbolSize |-> plan.symbolSize, segmentCount |-> plan.segmentCount,
   createdAt |-> createdAt, updatedAt |-> now,
   bytesCommitted |-> BytesOf(plan, committed), segmentsCommitted |-> Cardinality(committed),
   committed |-> Base64(BitmapOf(committed, plan.segmentCount)),
   state |-> state]

\* The file of a checkpoint: its bitmap, and the text of its other fields.
OnDisk(checkpoint, others) ==
  {[opens |-> TRUE, size |-> Len(checkpoint.committed) + others, parsed |-> {checkpoint}]}

\* writeCheckpoint(): what was there stays until the new one is closed.
WriteCheckpoint(entry, checkpoint, others, works) ==
  IF works THEN OnDisk(checkpoint, others) ELSE entry

(***************************************************************************)
(* What a later run reads.                                                 *)
(***************************************************************************)
IsCheckpoint(c) ==
  /\ c.schema = 1 /\ c.protocol = 2 /\ c.dataFile = "data.part"
  /\ \A f \in {"filename", "mimeType", "originalSize", "sha256"} : c[f] # Malformed
  /\ {c.sessionId, c.fileId} \subseteq 0..MaxU32
  /\ {c.segmentSize, c.symbolSize, c.segmentCount} \subseteq Nat \ {0}
  /\ c.segmentCount <= MaxCheckpointSegments
  /\ {c.transportSize, c.createdAt, c.updatedAt, c.bytesCommitted, c.segmentsCommitted} \subseteq Nat
  /\ Len(c.committed) <= MaxCommittedChars
  /\ Unbase64(c.committed) # {}
  /\ c.state \in {"receiving", "complete", "verified"}

\* readCheckpointEntry(): what is broken is told from what is not there, and
\* what cannot be opened is not there.
ReadEntry(entry) ==
  LET usable == {e \in entry : e.opens}
      read   == {e \in usable : e.size <= MaxCheckpointBytes}
  IN  [present    |-> usable # {},
       checkpoint |-> {c \in UNION {e.parsed : e \in read} : IsCheckpoint(c)}]

\* (mutant)
UncountedDisagreements(c, bits, plan) ==
  ~ Marked(bits) \subseteq 0..(plan.segmentCount - 1)

\* The bitmap against the plan and against its own counters; an empty text is
\* the bitmap of a session that has just been opened.
Inconsistent(c, bits, plan) ==
  \/ Len(bits) \notin {0, CeilDiv(plan.segmentCount, 8)}
  \/ ~ Marked(bits) \subseteq 0..(plan.segmentCount - 1)
  \/ Cardinality(Marked(bits)) # c.segmentsCommitted
  \/ BytesOf(plan, Marked(bits)) # c.bytesCommitted

\* (mutant)
RefusalsIgnoringPlan(c, identity, plan) ==
     Check(c.sessionId # identity.sessionId \/ c.fileId # identity.fileId, "CHECKPOINT_SESSION_MISMATCH")
  \o Check(c.sha256 # identity.sha256, "CHECKPOINT_FILE_MISMATCH")
  \o Check(\E bits \in Unbase64(c.committed) : Inconsistent(c, bits, plan), "CHECKPOINT_INCONSISTENT")

\* matchCheckpoint()
MatchRefusals(c, identity, plan) ==
     Check(c.sessionId # identity.sessionId \/ c.fileId # identity.fileId, "CHECKPOINT_SESSION_MISMATCH")
  \o Check(c.sha256 # identity.sha256, "CHECKPOINT_FILE_MISMATCH")
  \o Check(\E f \in {"transportSize", "segmentSize", "symbolSize", "segmentCount"} : c[f] # plan[f],
           "CHECKPOINT_PLAN_MISMATCH")
  \o Check(Len(c.committed) > MaxCommittedChars \/ Unbase64(c.committed) = {}, "CHECKPOINT_UNREADABLE")
  \o Check(\E bits \in Unbase64(c.committed) : Inconsistent(c, bits, plan), "CHECKPOINT_INCONSISTENT")

MatchCheckpoint(read, identity, plan) ==
  IF read.checkpoint = {}
  THEN Refused(<<IF read.present THEN "CHECKPOINT_UNREADABLE" ELSE "CHECKPOINT_ABSENT">>)
  ELSE LET c        == CHOOSE x \in read.checkpoint : TRUE
           refusals == MatchRefusals(c, identity, plan)
           bits     == CHOOSE b \in Unbase64(c.committed) : TRUE
       IN  IF refusals # <<>> THEN Refused(refusals)
           ELSE Accepted([committed |-> Marked(bits), segments |-> c.segmentsCommitted,
                          bytes |-> c.bytesCommitted, createdAt |-> c.createdAt])

(***************************************************************************)
(* sweepStaleSessions(), over the directories in the order they are listed: *)
(* [name, entry, locked]; keep is {} or the name of the one that is about   *)
(* to open.  A removal of one that is held does nothing.                   *)
(***************************************************************************)
Readable(directory) == ReadEntry(directory.entry).checkpoint
UpdatedAt(directory) == (CHOOSE c \in Readable(directory) : TRUE).updatedAt

Survivors(list, keep, now, retention) ==
  {i \in DOMAIN list : /\ list[i].name \notin keep
                       /\ Readable(list[i]) # {}
                       /\ now - UpdatedAt(list[i]) <= retention}

\* How many survivors come before this one, newest first.
Rank(i, list, survivors) ==
  Cardinality({j \in survivors : \/ UpdatedAt(list[j]) > UpdatedAt(list[i])
                                 \/ UpdatedAt(list[j]) = UpdatedAt(list[i]) /\ j < i})

SweptAway(list, keep, now, retention, most) ==
  LET survivors == Survivors(list, keep, now, retention)
  IN  {i \in DOMAIN list :
         /\ list[i].name \notin keep /\ ~list[i].locked
         /\ i \in survivors => Rank(i, list, survivors) >= most}

\* discardRetainedSessions() is the sweep with both bounds at nothing.
Discarded(list, now) == SweptAway(list, {}, now, 0, 0)
-----------------------------------------------------------------------------
(* Properties *)

Identity ==
  [sessionId |-> 1, fileId |-> 2, sha256 |-> "a", filename |-> "n", mimeType |-> "t", originalSize |-> 40]

\* bound: plans of up to ten segments, the last of them shorter or not.
Plans == {SegmentPlan(size, 4, 2) : size \in {3, 4, 9, 29, 32, 33, 38, 40}}

\* bound: every choice of segments of a small plan, and of a large one those
\* with at most two segments present or missing.
Progress(plan) ==
  LET all == 0..(plan.segmentCount - 1)
  IN  {c \in SUBSET all : \/ plan.segmentCount <= 3
                          \/ Cardinality(c) <= 2 \/ Cardinality(all \ c) <= 2}

Flipped(bytes, s) ==
  [bytes EXCEPT ![(s \div 8) + 1] = IF s \in Marked(bytes) THEN @ - 2^(s % 8) ELSE @ + 2^(s % 8)]

\* What a broken write, another build or another transfer leaves in its place.
Altered(c) ==
  LET bits == CHOOSE b \in Unbase64(c.committed) : TRUE
  IN  {[c EXCEPT !.committed = Base64(Flipped(bits, s))] : s \in 0..(8 * Len(bits) - 1)}
      \cup {[c EXCEPT !.committed = SubSeq(@, 1, n)] : n \in 1..(Len(c.committed) - 1)}
      \cup {[c EXCEPT !.committed = @ \o <<0, 0, 0, 0>>],
            [c EXCEPT !.segmentsCommitted = @ + 1], [c EXCEPT !.bytesCommitted = @ + 1],
            [c EXCEPT !.schema = 2], [c EXCEPT !.segmentCount = MaxCheckpointSegments + 1],
            [c EXCEPT !.sha256 = "b"], [c EXCEPT !.sha256 = Malformed],
            [c EXCEPT !.filename = Malformed], [c EXCEPT !.sessionId = 3],
            [c EXCEPT !.symbolSize = 1], [c EXCEPT !.transportSize = @ + 1]}

\* A session that opens on what an earlier run of its transfer left has exactly
\* the segments that run had, through the text of the bitmap and the bounds a
\* reader puts on it; and it opens on nothing else: one bit of the bitmap that
\* is wrong, a text that was cut, a counter, the digest or the plan of another
\* transfer is refused.  A new session's empty bitmap is adopted as empty, and
\* where a checkpoint could not be written the one before it still counts.
CheckpointsCarry ==
  \A plan \in Plans : \A committed \in Progress(plan) :
    LET c        == Snapshot(Identity, plan, committed, 5, 7, "receiving")
        earlier  == OnDisk(Snapshot(Identity, plan, {}, 5, 5, "receiving"), 400)
        found(entry) == MatchCheckpoint(ReadEntry(entry), Identity, plan)
        adopts(set)  == Accepted([committed |-> set, segments |-> Cardinality(set),
                                  bytes |-> BytesOf(plan, set), createdAt |-> 5])
    IN  /\ \A others \in {400, 4096} :
             /\ found(WriteCheckpoint(earlier, c, others, TRUE)) = adopts(committed)
             /\ found(WriteCheckpoint(earlier, c, others, FALSE)) = adopts({})
        /\ \A other \in Altered(c) :
             LET read == found(OnDisk(other, 400))
             IN  ~read.ok /\ read.code # "CHECKPOINT_ABSENT"
        /\ ~found({[opens |-> TRUE, size |-> MaxCheckpointBytes + 1, parsed |-> {c}]}).ok
        /\ found({[opens |-> FALSE, size |-> 400, parsed |-> {c}]}) = Refused(<<"CHECKPOINT_ABSENT">>)
        /\ found(OnDisk([c EXCEPT !.committed = <<>>], 400)).ok <=> committed = {}

Entries ==
  {{}, {[opens |-> TRUE, size |-> 10, parsed |-> {}]}}
  \cup {OnDisk(Snapshot(Identity, SegmentPlan(9, 4, 2), {0}, 0, t, "receiving"), 400) : t \in {1, 6, 7, 9}}

Listings ==
  {list \in UNION {[1..n -> [name : {"own", "other"}, entry : Entries, locked : BOOLEAN]] : n \in 0..3} :
     Cardinality({i \in DOMAIN list : list[i].name = "own"}) <= 1}

\* What is left behind on a device has an end.  A sweep spares the session that
\* is about to open and keeps the newest of the others, no more of them than it
\* may and none that is too old or that nothing could resume, save those that
\* are held; and the person who discards them all is left with none of the
\* rest, even where the clock has been set back.
SweepsHaveAnEnd ==
  \A list \in Listings, most \in 0..2 :
    LET gone == SweptAway(list, {"own"}, 8, 5, most)
        left == {i \in DOMAIN list \ gone : list[i].name # "own" /\ ~list[i].locked}
    IN  /\ \A i \in gone : list[i].name # "own" /\ ~list[i].locked
        /\ Cardinality(left) <= most
        /\ \A i \in left : Readable(list[i]) # {} /\ UpdatedAt(list[i]) >= 3
        /\ \A i \in left, j \in gone : Readable(list[j]) # {} => UpdatedAt(list[i]) >= UpdatedAt(list[j])
        /\ \A i \in DOMAIN list : ~list[i].locked => i \in Discarded(list, 8)
=============================================================================
