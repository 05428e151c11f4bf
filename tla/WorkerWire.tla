----------------------------- MODULE WorkerWire -----------------------------
(***************************************************************************)
(* What crosses between the receiver's screen and its worker: the messages  *)
(* each side makes, from the numbers it has, and the guard the other side   *)
(* reads them through.  A guard that refuses drops the message in silence,  *)
(* and what waits for it waits for good: a frame's slot, a verdict.         *)
(*                                                                         *)
(* NotACount stands for whatever is no count: undefined, NaN, below zero.   *)
(***************************************************************************)
EXTENDS Integers, Sequences, FiniteSets

NotACount == -1
IsCount(n) == n >= 0

SessionEndReasons == {"cancelled", "failed", "interrupted", "completed"}

\* FRAME_OUTCOME, and which of them mean that a code was read.
FrameOutcomes == {"no-code", "duplicate", "accepted", "manifest", "pending-manifest",
                  "pending-storage", "rejected", "foreign", "stale"}

(***************************************************************************)
(* The guards.                                                             *)
(***************************************************************************)
LimitNames == {"maxDecodePixels", "dedupeCapacity", "maxActiveSegments",
               "segmentBudgetBytes", "storageMarginRatio"}

IsRequest(m) ==
  CASE m.type = "open"  -> /\ \A l \in LimitNames : IsCount(m.limits[l])
                           /\ m.resume \in {"absent", "true", "false"}
    [] m.type \in {"close", "reset"} -> m.reason \in SessionEndReasons \cup {"absent"}
    [] m.type = "frame" ->
         /\ \A f \in {"frameId", "capturedAt", "width", "height"} : IsCount(m[f])
         /\ m.captureScale # NotACount
         /\ \/ m.pixels # NotACount
            \/ m.bitmap
    [] OTHER -> m.type = "verify"

\* isReceiverSessionPath() and isReceiverSessionFile(), of one origin's files.
SessionPath == <<"deqr", "sessions", "session">>

\* (mutant)
DataFileOnly == {"data.part"}

SessionFiles == {"data.part", "original.part"}

IsVerifiedSource(s) ==
  \/ s.kind = "bytes"
  \/ s.kind = "opfs" /\ s.path = SessionPath /\ s.file \in SessionFiles

IsProgress(p) ==
  /\ \A f \in {"unitsTotal", "storageRequiredBytes", "storageAvailableBytes"} : IsCount(p[f])
  /\ p.storageConfidence \in {"none", "reported", "unknown"}

IsEvent(m) ==
  CASE m.type = "ready"    -> m.acceptsBitmap \in BOOLEAN
    [] m.type = "frame"    -> /\ \A f \in {"frameId", "decodeMs", "pipelineMs", "staleDropped"} :
                                   IsCount(m[f])
    [] m.type = "progress" -> IsProgress(m.progress)
    [] m.type = "verify-progress" ->
         /\ IsCount(m.bytesHashed) /\ IsCount(m.bytesTotal)
         /\ m.phase \in {"decompressing", "hashing"}
    [] m.type = "verified" -> IsCount(m.size) /\ IsVerifiedSource(m.source)
    [] OTHER -> m.type \in {"failed", "fatal"}

(***************************************************************************)
(* What the camera captures: the middle square of the video, scaled down.   *)
(***************************************************************************)
MaxRoiEdge == 720
MinRoiEdge == 96

Smaller(a, b) == IF a <= b THEN a ELSE b

SourceEdge(width, height) == (Smaller(width, height) * 86) \div 100

\* region(): the edge of what is captured.
RoiEdge(width, height) == Smaller(MaxRoiEdge, SourceEdge(width, height))

Captures(width, height) == width > 0 /\ height > 0 /\ RoiEdge(width, height) >= MinRoiEdge

\* captureBitmap() and capturePixels(), and the message submit() makes of it.
FrameMessage(width, height, bitmap) ==
  LET edge == RoiEdge(width, height)
  IN  [type |-> "frame", frameId |-> 1, capturedAt |-> 1, width |-> edge, height |-> edge,
       captureScale |-> (100 * edge) \div SourceEdge(width, height),
       pixels |-> IF bitmap THEN NotACount ELSE edge * edge * 4, bitmap |-> bitmap]

DefaultLimits ==
  [l \in LimitNames |->
     CASE l = "maxDecodePixels"    -> 720 * 720
       [] l = "dedupeCapacity"     -> 4096
       [] l = "maxActiveSegments"  -> 2
       [] l = "segmentBudgetBytes" -> 4 * 2048 * 1139
       [] OTHER                    -> 15]

OpenMessage(resume) ==
  [type |-> "open", limits |-> DefaultLimits, resume |-> IF resume THEN "true" ELSE "false"]

(***************************************************************************)
(* What the worker makes of it.                                            *)
(***************************************************************************)
\* pixelsOf(): whether the frame is decoded at all.
Decodes(m, limits, offscreen) ==
  /\ m.width >= 1 /\ m.height >= 1
  /\ m.width * m.height <= limits["maxDecodePixels"]
  /\ IF m.pixels # NotACount THEN m.pixels = m.width * m.height * 4
     ELSE m.bitmap /\ offscreen

FrameEvent(outcome, decodeMs, pipelineMs, staleDropped) ==
  [type |-> "frame", frameId |-> 1, outcome |-> outcome, decodeMs |-> decodeMs,
   pipelineMs |-> pipelineMs, staleDropped |-> staleDropped]

\* preflightStorage() as it is reported: quota and usage are NotACount where
\* the browser does not name them.
Available(quota, usage) ==
  LET left == quota - IF usage = NotACount THEN 0 ELSE usage
  IN  IF left > 0 THEN left ELSE 0

\* reportStorage(), of a preflight that was made.
Reported(preflight) ==
  [storageRequiredBytes  |-> preflight.required,
   storageAvailableBytes |-> IF preflight.quota = NotACount THEN 0
                             ELSE Available(preflight.quota, preflight.usage),
   storageConfidence     |-> IF preflight.quota = NotACount THEN "unknown" ELSE "reported"]

Unasked == [storageRequiredBytes |-> 0, storageAvailableBytes |-> 0,
            storageConfidence |-> "none"]

\* progress(): of a session of either protocol, or none, of so many units.
ProgressOf(protocol, units, recovered, adopted, storage) ==
  [protocol |-> protocol, sessionActive |-> protocol = 2 \/ (protocol = 1 /\ units > 0),
   unitsTotal |-> IF protocol = 0 THEN 0 ELSE units,
   unitsRecovered |-> IF protocol = 0 THEN 0 ELSE recovered,
   unitsAdopted |-> IF protocol = 2 THEN adopted ELSE 0,
   resumed |-> protocol = 2 /\ adopted > 0,
   resumeToken |-> protocol = 2,
   storageRequiredBytes |-> storage.storageRequiredBytes,
   storageAvailableBytes |-> storage.storageAvailableBytes,
   storageConfidence |-> storage.storageConfidence]

\* seal(): a compressed file is sealed by its sink, any other by the store.
VerifiedSource(store, compressed) ==
  IF store = "memory" THEN [kind |-> "bytes", path |-> <<>>, file |-> "-"]
  ELSE [kind |-> "opfs", path |-> SessionPath,
        file |-> IF compressed THEN "original.part" ELSE "data.part"]

\* observationOf(): a density is read only of a symbol with an area and a
\* version a symbol can have.
Observes(longestEdge, version) == longestEdge > 0 /\ version \in 1..40

(***************************************************************************)
(* recordFrame(): what the client counts a frame's answer as.               *)
(***************************************************************************)
Read(outcome) == outcome \notin {"stale", "no-code"}
Foreign(reason) == reason \in {"SESSION_MISMATCH", "V1_FRAME"}

CountedAs(outcome, reason) ==
  {k \in {"duplicate", "new", "parse", "foreign"} :
     CASE k = "duplicate" -> outcome = "duplicate"
       [] k = "new"       -> outcome \in {"accepted", "manifest"}
       [] k = "parse"     -> outcome = "rejected" /\ ~Foreign(reason)
       [] OTHER -> outcome = "foreign" \/ (outcome = "rejected" /\ Foreign(reason))}
-----------------------------------------------------------------------------
(* Properties *)

Videos == {0, 111, 112, 480, 720, 837, 838, 1080}   \* bound: edges of a video
Counts == {0, 1, 5}                                 \* bound: numbers in a message

\* Whatever the camera offers, what is captured of it passes the guard and the
\* worker's pixel limit, and lies inside the video: a frame over the limit
\* would be answered "no code" for as long as the session lasts.
FramesAreDecoded ==
  \A width, height \in Videos, bitmap \in BOOLEAN :
    Captures(width, height) =>
      /\ IsRequest(FrameMessage(width, height, bitmap))
      /\ Decodes(FrameMessage(width, height, bitmap), OpenMessage(TRUE).limits, TRUE)
      /\ RoiEdge(width, height) <= Smaller(width, height)

\* Every answer the worker makes passes the client's guard, with a browser that
\* reports its quota and with one that does not.
AnswersAreHeard ==
  /\ \A outcome \in FrameOutcomes, ms, stale \in Counts :
       IsEvent(FrameEvent(outcome, ms, ms, stale))
  /\ \A quota, usage \in Counts \cup {NotACount}, required \in Counts, protocol \in 0..2,
        units, recovered \in Counts :
       LET preflight == [quota |-> quota, usage |-> usage, required |-> required]
       IN  \A storage \in {Unasked, Reported(preflight)} :
             IsEvent([type |-> "progress",
                      progress |-> ProgressOf(protocol, units, recovered, 0, storage)])
  /\ \A store \in {"memory", "opfs"}, compressed \in BOOLEAN :
       IsEvent([type |-> "verified", size |-> 1, source |-> VerifiedSource(store, compressed)])

\* A code that was read is counted once, whatever became of its frame; the two
\* that wait for a manifest or for storage are counted by none.
FramesCountOnce ==
  \A outcome \in FrameOutcomes, reason \in {"CRC_MISMATCH", "SESSION_MISMATCH", "V1_FRAME"} :
    Cardinality(CountedAs(outcome, reason)) =
      IF Read(outcome) /\ outcome \notin {"pending-manifest", "pending-storage"} THEN 1 ELSE 0

\* Nothing one side posts is dropped by the other.
NothingIsRefused == FramesAreDecoded /\ AnswersAreHeard /\ FramesCountOnce
=============================================================================
