--------------------------- MODULE ReceiverScreen ---------------------------
(***************************************************************************)
(* What the receiver's screen says and offers (receiver-view-model.ts and   *)
(* the rendering of App.tsx), as functions of the state it shows, the       *)
(* progress it was last sent and the fault that ended a session.  Sentences *)
(* are reduced to what they claim.                                         *)
(***************************************************************************)
EXTENDS ReceiverSession

(***************************************************************************)
(* Controls.                                                              *)
(***************************************************************************)
\* mayOfferExport(): the one place a save is offered from.
MayOfferExport(s) == s \in {"COMPLETE", "EXPORTING"}

\* (mutant)
ResumesWhatEnded(s) == s \in {"INTERRUPTED", "INCOMPLETE", "RECOVERING", "FAILED"}

\* mayOfferResume(): the states that still hold their bytes.
MayOfferResume(s) == s \in {"INTERRUPTED", "INCOMPLETE", "RECOVERING"}

CanCancel(s) == s \in Live

\* The action dock: what its enabled buttons dispatch.
Dock(s) ==
  CASE MayOfferExport(s) -> {"EXPORT_STARTED", "RESET"}
    [] s \in Startable   -> {"RECEIVE_REQUESTED", "CANCELLED"}
    [] OTHER             -> {"RESET"} \cup IF CanCancel(s) THEN {"CANCELLED"} ELSE {}

Accepts(s, e) == \E t \in Transitions : t[1] = s /\ t[2] = e

(***************************************************************************)
(* What a state is said to be.                                             *)
(***************************************************************************)
PhaseOf(s) ==
  CASE s = "PREFLIGHT"                      -> "PREFLIGHTING"
    [] s = "CAMERA_WARMING"                 -> "PREPARING"
    [] s = "SCANNING"                       -> "READY"
    [] s \in {"RECEIVING", "RECOVERING"}    -> "TRANSFERRING"
    [] s \in {"INCOMPLETE", "INTERRUPTED"}  -> "INTERRUPTED"
    [] s = "COMPLETE"                       -> "VERIFIED"
    [] OTHER                                -> s

CameraStatus(s, scannerFailed) ==
  CASE s \in {"SCANNING", "RECEIVING", "RECOVERING"} -> "active"
    [] s = "INCOMPLETE"                     -> "active, waiting"
    [] s \in {"PREFLIGHT", "CAMERA_WARMING"} -> "preparing"
    [] s = "FAILED" -> IF scannerFailed THEN "scanner unavailable" ELSE "unavailable"
    [] OTHER                                -> "inactive"

\* What the heading says of the file.
Heading(s, failure) ==
  CASE s = "COMPLETE"                        -> "verified"
    [] s = "EXPORTING"                       -> "saving"
    [] s = "FAILED"                          -> failure
    [] s \in {"CANCELLED", "INTERRUPTED", "VERIFYING"} -> s
    [] s \in {"PREFLIGHT", "CAMERA_WARMING"} -> "allow camera"
    [] s = "IDLE"                            -> "paused"
    [] OTHER                                 -> "receiving"

\* What the announcement claims of the bytes that arrived.
Announced(s) ==
  CASE s = "COMPLETE"                  -> "held"
    [] s = "CANCELLED"                 -> "cleared"
    [] s \in {"INTERRUPTED", "INCOMPLETE"} -> "kept"
    [] s = "FAILED"                    -> "not saved"
    [] OTHER                           -> "-"

(***************************************************************************)
(* Faults.                                                                *)
(***************************************************************************)
StorageFaults == {"STORAGE_FULL", "INSUFFICIENT_STORAGE", "STORAGE_UNAVAILABLE",
                  "STORAGE_OPEN_FAILED", "STORAGE_WRITE_FAILED", "STORAGE_READ_FAILED"}
CapacityFaults == {"STORAGE_FULL", "INSUFFICIENT_STORAGE"}
ManifestPolicyFaults == {"SEGMENT_COUNT_EXCEEDED", "TRANSFER_TOO_LARGE", "SEGMENT_TOO_LARGE"}

\* What beginV2Session() refuses a manifest for, before storage is asked.
ManifestFaults == ManifestPolicyFaults \cup
  {"UNSUPPORTED_COMPRESSION", "INCONSISTENT_MANIFEST", "FILE_TYPE_BLOCKED"}

\* What storage answers, while a session opens, is written and is read back.
StoreFaults == {"INSUFFICIENT_STORAGE", "STORAGE_UNAVAILABLE", "STORAGE_OPEN_FAILED",
                "STORAGE_FULL", "STORAGE_WRITE_FAILED", "STORAGE_READ_FAILED"}

\* What the finished file is refused for.
VerifyFaults == {"HASH_MISMATCH", "SIZE_MISMATCH", "TRANSFER_INCOMPLETE", "ENCRYPTED_CONTAINER",
                 "COMPRESSED_CONTAINER_INVALID", "DECOMPRESSION_FAILED", "VERIFICATION_FAILED"}

FaultCodes == ManifestFaults \cup StoreFaults \cup VerifyFaults

\* onProgress() and onFailed(): the kind a code is reported as.
FaultKind(code) == IF code \in StorageFaults THEN "storage" ELSE "transfer"

\* faultCopy(): what is to blame, and whose the remedy is.
FaultCopy(kind, code) ==
  IF code = "UNSUPPORTED_COMPRESSION" THEN [says |-> "compression", remedy |-> "sender"]
  ELSE IF code \in {"ENCRYPTED_CONTAINER", "FILE_TYPE_BLOCKED"} THEN [says |-> code, remedy |-> "none"]
  ELSE IF code \in ManifestPolicyFaults THEN [says |-> "too large", remedy |-> "sender"]
  ELSE CASE kind \in {"camera", "scanner"} -> [says |-> kind, remedy |-> "here"]
         [] kind = "storage" -> IF code \in CapacityFaults THEN [says |-> "no room", remedy |-> "here"]
                                ELSE [says |-> "no storage", remedy |-> "none"]
         [] OTHER -> [says |-> "not verified", remedy |-> "sender"]

(***************************************************************************)
(* Summaries of a progress report.                                         *)
(***************************************************************************)
\* summarizeTransfer(), in hundredths; none before the manifest.
Summary(p) ==
  IF ~p.sessionActive \/ p.unitsTotal = 0 THEN {}
  ELSE {[recovered |-> p.unitsRecovered, total |-> p.unitsTotal,
         percent |-> (100 * p.unitsRecovered) \div p.unitsTotal,
         resumed |-> p.resumed /\ p.unitsAdopted > 0, adopted |-> p.unitsAdopted]}

\* summarizeStorage(): a browser that does not answer has not refused.
StorageSummary(p) ==
  CASE p.storageConfidence = "none"    -> "unasked"
    [] p.storageConfidence = "unknown" -> "unchecked"
    [] OTHER -> IF p.storageAvailableBytes >= p.storageRequiredBytes THEN "enough" ELSE "short"

\* The card with the code, or nothing.
ResumeCard(s, p) ==
  IF ~MayOfferResume(s) \/ p.protocol # 2 \/ p.unitsRecovered = 0 THEN {}
  ELSE {[kept |-> p.unitsRecovered, total |-> p.unitsTotal, code |-> p.resumeToken]}

\* describeVerification(), as onVerifyProgress() calls it: the report does not
\* say whether the file was compressed, so the phase stands for it.
Verification(phase, hashed, total) ==
  [percent |-> IF total > 0 THEN Smaller(100, (100 * hashed) \div total) ELSE 0,
   steps   |-> IF phase = "decompressing" THEN 2 ELSE 1]

\* checkpointRejectionCopy(): why kept bytes were not taken up.
RejectionSays(code) ==
  CASE code \in {"undefined", "CHECKPOINT_ABSENT"} -> "-"
    [] code = "CHECKPOINT_UNREADABLE"       -> "unreadable"
    [] code = "CHECKPOINT_SESSION_MISMATCH" -> "another transfer"
    [] code = "CHECKPOINT_FILE_MISMATCH"    -> "another file"
    [] code = "CHECKPOINT_PLAN_MISMATCH"    -> "another profile"
    [] code = "CHECKPOINT_INCONSISTENT"     -> "inconsistent"
    [] OTHER                                -> "not reused"

\* transferHasStalled(), of a clock.
HasStalled(active, complete, lastUnique, now, threshold) ==
  active /\ ~complete /\ lastUnique > 0 /\ now - lastUnique >= threshold
-----------------------------------------------------------------------------
(* Properties *)

\* No button is dead and no state is a trap: what an enabled button dispatches
\* is accepted in the state it is offered in, but for leaving to the home
\* screen, which needs no session, and for a second save; and some button
\* always leaves the state.
ControlsAnswer ==
  \A s \in States :
    /\ \A e \in Dock(s) : Accepts(s, e) \/ s \in Startable \/ s = "EXPORTING"
    /\ \E e \in Dock(s) : Accepts(s, e)

\* A fault says what can be done: storage trouble never sends the user to the
\* sender, freeing room is advised only where room was short, and what the
\* sender alone can change says so.
FaultsAreExplained ==
  \A code \in FaultCodes :
    LET copy == FaultCopy(FaultKind(code), code)
    IN  /\ code \in StoreFaults => copy.remedy # "sender"
        /\ copy.says = "no room" <=> code \in CapacityFaults
        /\ code \in ManifestPolicyFaults \cup {"UNSUPPORTED_COMPRESSION"} => copy.remedy = "sender"
        /\ code \in ManifestFaults \cup VerifyFaults => copy.says \notin {"no room", "no storage"}

\* Whatever a worker reports, no summary shows more than was received, calls
\* room enough that nobody measured, or offers a code without a session.
SummariesAreHonest ==
  \A protocol \in 0..2, units, recovered, adopted \in 0..3, quota, required \in {0, 1, 5, NotACount} :
    (recovered <= units /\ adopted <= recovered /\ required # NotACount) =>
      LET p == ProgressOf(protocol, units, recovered, adopted,
                          Reported([quota |-> quota, usage |-> 0, required |-> required]))
      IN  /\ \A shows \in Summary(p) :
               /\ shows.percent \in 0..100 /\ shows.adopted <= shows.recovered
               /\ shows.percent = 100 => recovered = units
          /\ StorageSummary(p) = "enough" => quota >= required
          /\ \A card \in ResumeCard("INCOMPLETE", p) : card.code /\ card.kept > 0

\* What the page shows is so: a camera said to be active runs, a code is shown
\* beside an open session (INTERRUPTED shows its own while nobody looks), and what
\* is said to be cleared is gone.
ScreenIsTrue ==
  state = shown =>
    /\ CameraStatus(shown, FALSE) \in {"active", "active, waiting"} <=> camera = "live"
    /\ (MayOfferResume(shown) /\ visible) => opened
    /\ Announced(shown) \in {"cleared", "not saved"} => verified = 0 /\ ~opened

\* Slots and camera follow the screen, and a session that ended holds no file,
\* however taps, stalls, visibility, exports and the death of a worker fall between
\* a reducer's step and its effects.
SessionSound ==
  SlotsComeBack /\ ScanningSees /\ HiddenCameraStops /\ EndedHoldsNoFile

\* What the screen says and offers is so in whatever state: it follows the camera and
\* the session, no message is dropped by the guard it is read through, and the
\* figures are of what happened.
ScreenSound ==
  /\ ScreenIsTrue /\ NothingIsRefused /\ FiguresAreTrue
  /\ ControlsAnswer /\ FaultsAreExplained /\ SummariesAreHonest
=============================================================================
