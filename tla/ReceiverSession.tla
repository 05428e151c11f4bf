--------------------------- MODULE ReceiverSession ---------------------------
(***************************************************************************)
(* A receive session as its three actors see it: the screen (App.tsx with   *)
(* the state machine of receiver-state.ts), the ReceiverClient it drives,   *)
(* and the worker (receive-worker-core.ts) the client posts messages to.    *)
(*                                                                         *)
(* The machine is reduced when an event is dispatched, but the effects that *)
(* open, close and verify sessions run when React commits the state: state  *)
(* and shown are the two.  What a tap reduces is committed before anything  *)
(* else happens on the thread (urgent); other events may pile up.           *)
(***************************************************************************)
EXTENDS ReceiverTelemetry

CONSTANTS MaxInFlight,  \* ReceiverClientOptions.maxInFlight
          MaxEpoch,     \* bound: no session is asked for past this epoch
          MaxExports    \* bound: exports pending at a time

ASSUME ReceiverAssumption ==
  /\ MaxInFlight \in Nat \ {0}
  /\ MaxEpoch \in Nat
  /\ MaxExports \in Nat

VARIABLES
  state,       \* machine.state, as reduced
  shown,       \* the state the effects last ran for
  urgent,      \* a tap waits to be committed
  visible,     \* ~document.hidden
  verified,    \* the epoch whose verified file is held, or 0
  exports,     \* share() calls that have not settled
  erasing,     \* discard() has not settled
  camera,      \* the camera controller
  epoch, opened, inFlight,   \* the client's session
  session,     \* the epoch of the last open()
  alive,       \* the client has a worker
  toWorker, toClient,        \* messages posted and not yet handled
  current,     \* the worker's session: its epoch, or 0
  pipe,        \* what its pipeline has come to
  verifying    \* the epochs whose verify() runs

screen == <<state, shown, urgent, visible>>
held   == <<verified, exports, erasing, camera>>
client == <<epoch, opened, inFlight, session, alive>>
work   == <<current, pipe, verifying>>
vars   == <<screen, held, client, toWorker, toClient, work>>

CameraStates == {"CAMERA_WARMING", "SCANNING", "RECEIVING", "INCOMPLETE", "RECOVERING"}

CameraRuns == CameraStates
Live == {"PREFLIGHT", "VERIFYING"} \cup CameraStates
Clearing == {"IDLE", "INTERRUPTED", "CANCELLED", "FAILED"}
States == Live \cup Clearing \cup {"COMPLETE", "EXPORTING"}

Receiving == {"SCANNING", "RECEIVING", "INCOMPLETE", "RECOVERING"}

\* TRANSITIONS, as a set of <<state, event, state>>.
Listed ==
  {<<s, "RECEIVE_REQUESTED", "PREFLIGHT">> : s \in Clearing \cup {"COMPLETE"}}
  \cup {<<"PREFLIGHT", "PREFLIGHT_PASSED", "CAMERA_WARMING">>,
        <<"CAMERA_WARMING", "CAMERA_READY", "SCANNING">>,
        <<"SCANNING", "FRAME_ACCEPTED", "RECEIVING">>,
        <<"INCOMPLETE", "FRAME_ACCEPTED", "RECOVERING">>,
        <<"RECEIVING", "STALLED", "INCOMPLETE">>,
        <<"RECOVERING", "STALLED", "INCOMPLETE">>,
        <<"VERIFYING", "VERIFIED", "COMPLETE">>,
        <<"EXPORTING", "VERIFIED", "COMPLETE">>,
        <<"COMPLETE", "EXPORT_STARTED", "EXPORTING">>,
        <<"EXPORTING", "EXPORT_SETTLED", "IDLE">>,
        <<"INTERRUPTED", "FOREGROUNDED", "IDLE">>}
  \cup {<<s, "SESSION_COMPLETE", "VERIFYING">> : s \in Receiving}
  \cup {<<s, "SESSION_FAILED", "FAILED">> : s \in Receiving \cup {"VERIFYING"}}
  \cup {<<s, "CAMERA_FAILED", "FAILED">> : s \in Live \ {"VERIFYING"}}
  \cup {<<s, "WORKER_FATAL", "FAILED">> : s \in Live}
  \cup {<<s, "CANCELLED", "CANCELLED">> : s \in Live \cup {"COMPLETE"}}
  \cup {<<s, "BACKGROUNDED", "INTERRUPTED">> : s \in Live \cup {"COMPLETE"}}
  \cup {<<s, "RESET", "IDLE">> : s \in States \ {"IDLE"}}

\* (mutant)
ListedButAHiddenStall == Listed \ {<<"INCOMPLETE", "BACKGROUNDED", "INTERRUPTED">>}

Transitions == Listed

\* reduceReceiver(): an event that is not listed changes nothing.
Reduce(s, e) ==
  IF \E t \in Transitions : t[1] = s /\ t[2] = e
  THEN (CHOOSE t \in Transitions : t[1] = s /\ t[2] = e)[3]
  ELSE s

Dispatch(e) == state' = Reduce(state, e)

Request(type, e, reason) == [type |-> type, epoch |-> e, reason |-> reason]
Event(type, e) == [type |-> type, epoch |-> e, pipe |-> "none", fresh |-> FALSE]
Progress(e, p, fresh) == [type |-> "progress", epoch |-> e, pipe |-> p, fresh |-> fresh]

Init ==
  /\ state = "IDLE" /\ shown = "IDLE" /\ urgent = FALSE /\ visible = TRUE
  /\ verified = 0 /\ exports = 0 /\ erasing = FALSE /\ camera = "off"
  /\ epoch = 0 /\ opened = FALSE /\ inFlight = 0 /\ session = 0
  /\ alive = TRUE
  /\ toWorker = <<>> /\ toClient = <<>>
  /\ current = 0 /\ pipe = "none" /\ verifying = {}
-----------------------------------------------------------------------------
(* Taps, and the page's visibility *)

Tap(e) ==
  /\ visible /\ ~urgent
  /\ Dispatch(e)
  /\ urgent' = (state' # shown)
  /\ UNCHANGED <<shown, visible>>

\* The action dock offers another start from these.
Startable == {"IDLE", "FAILED", "CANCELLED", "INTERRUPTED"}

TapReceive ==
  /\ shown \in Startable
  /\ epoch < MaxEpoch
  /\ Tap("RECEIVE_REQUESTED")
  /\ UNCHANGED <<held, client, toWorker, toClient, work>>

TapCancel ==
  /\ shown \in Live
  /\ Tap("CANCELLED")
  /\ UNCHANGED <<held, client, toWorker, toClient, work>>

TapReset ==
  /\ shown \notin Startable
  /\ Tap("RESET")
  /\ UNCHANGED <<held, client, toWorker, toClient, work>>

\* share(), up to its await.
TapSave ==
  /\ shown \in {"COMPLETE", "EXPORTING"} /\ verified # 0
  /\ exports < MaxExports
  /\ Tap("EXPORT_STARTED")
  /\ exports' = exports + 1
  /\ UNCHANGED <<verified, erasing, camera, client, toWorker, toClient, work>>

\* discard(), up to its await.
TapErase ==
  /\ visible /\ ~urgent
  /\ shown \in {"INTERRUPTED", "INCOMPLETE", "RECOVERING"}
  /\ erasing' = TRUE
  /\ UNCHANGED <<screen, verified, exports, camera, client, toWorker, toClient, work>>

EraseEnds ==
  /\ erasing /\ ~urgent
  /\ erasing' = FALSE
  /\ Dispatch("RESET")
  /\ UNCHANGED <<shown, urgent, visible, verified, exports, camera, client,
                 toWorker, toClient, work>>

\* (mutant)
ExportEndsWithNothing ==
  /\ exports > 0 /\ ~urgent
  /\ exports' = exports - 1 /\ verified' = 0
  /\ Dispatch("EXPORT_SETTLED") \/ Dispatch("VERIFIED")
  /\ UNCHANGED <<shown, urgent, visible, erasing, camera, client, toWorker, toClient, work>>

\* What share() does once exportVerifiedFile() has settled, whichever session
\* is on the screen by then.
ExportEnds ==
  /\ exports > 0 /\ ~urgent
  /\ exports' = exports - 1
  /\ \/ verified' = 0 /\ Dispatch("EXPORT_SETTLED")
     \/ Dispatch("VERIFIED") /\ UNCHANGED verified
  /\ UNCHANGED <<shown, urgent, visible, erasing, camera, client, toWorker, toClient, work>>

Hide ==
  /\ visible /\ ~urgent
  /\ visible' = FALSE
  /\ Dispatch("BACKGROUNDED")
  /\ UNCHANGED <<shown, urgent, held, client, toWorker, toClient, work>>

Show ==
  /\ ~visible /\ ~urgent
  /\ visible' = TRUE
  /\ Dispatch("FOREGROUNDED")
  /\ UNCHANGED <<shown, urgent, held, client, toWorker, toClient, work>>

\* The stall watcher is armed in these two states.
Stall ==
  /\ shown \in {"RECEIVING", "RECOVERING"} /\ ~urgent
  /\ Dispatch("STALLED")
  /\ UNCHANGED <<shown, urgent, visible, held, client, toWorker, toClient, work>>
-----------------------------------------------------------------------------
(* What React runs for a committed state *)

Committed ==
  /\ state # shown
  /\ shown' = state
  /\ urgent' = FALSE
  /\ UNCHANGED <<visible, exports, erasing>>

\* open(): a client without a worker gets one.
CommitPreflight ==
  /\ Committed /\ state = "PREFLIGHT"
  /\ verified' = 0 /\ camera' = "off"
  /\ epoch' = epoch + 1 /\ session' = epoch + 1
  /\ opened' = TRUE /\ inFlight' = 0 /\ alive' = TRUE
  /\ toWorker' = Append(toWorker, Request("open", epoch + 1, "-"))
  /\ Dispatch("PREFLIGHT_PASSED")
  /\ UNCHANGED <<toClient, work>>

\* There is no camera to ask for.
CommitUnsupported ==
  /\ Committed /\ state = "PREFLIGHT"
  /\ verified' = 0 /\ camera' = "off"
  /\ Dispatch("CAMERA_FAILED")
  /\ UNCHANGED <<client, toWorker, toClient, work>>

CommitWarming ==
  /\ Committed /\ state = "CAMERA_WARMING"
  /\ camera' = IF camera = "off" THEN "starting" ELSE camera
  /\ UNCHANGED <<state, verified, client, toWorker, toClient, work>>

\* verify() posts nothing where no session is open.
CommitVerifying ==
  /\ Committed /\ state = "VERIFYING"
  /\ camera' = "off"
  /\ toWorker' = IF opened THEN Append(toWorker, Request("verify", epoch, "-")) ELSE toWorker
  /\ UNCHANGED <<state, verified, client, toClient, work>>

\* (mutant)
CloseKeepingEpoch(reason) ==
  IF opened
  THEN /\ opened' = FALSE /\ inFlight' = 0
       /\ toWorker' = Append(toWorker, Request("close", epoch, reason))
       /\ UNCHANGED <<epoch, session, alive>>
  ELSE UNCHANGED <<client, toWorker>>

\* close()
Close(reason) ==
  IF opened
  THEN /\ opened' = FALSE /\ inFlight' = 0 /\ epoch' = epoch + 1
       /\ toWorker' = Append(toWorker, Request("close", epoch + 1, reason))
       /\ UNCHANGED <<session, alive>>
  ELSE UNCHANGED <<client, toWorker>>

\* (mutant)
CommitEndedSilently ==
  /\ Committed /\ state \in Clearing
  /\ camera' = "off" /\ verified' = 0
  /\ IF state = "FAILED" THEN UNCHANGED <<client, toWorker>>
     ELSE Close(IF state = "INTERRUPTED" THEN "interrupted" ELSE "cancelled")
  /\ UNCHANGED <<state, toClient, work>>

CommitEnded ==
  /\ Committed /\ state \in Clearing
  /\ camera' = "off" /\ verified' = 0
  /\ Close(IF state = "INTERRUPTED" THEN "interrupted" ELSE "cancelled")
  /\ UNCHANGED <<state, toClient, work>>

CommitOther ==
  /\ Committed /\ state \in Receiving \cup {"COMPLETE", "EXPORTING"}
  /\ camera' = IF state \in CameraRuns THEN camera ELSE "off"
  /\ UNCHANGED <<state, verified, client, toWorker, toClient, work>>
-----------------------------------------------------------------------------
(* The camera *)

CameraReady ==
  /\ camera = "starting" /\ visible /\ ~urgent
  /\ camera' = "live"
  /\ Dispatch("CAMERA_READY")
  /\ UNCHANGED <<shown, urgent, visible, verified, exports, erasing, client,
                 toWorker, toClient, work>>

\* start() fails, or the track ends under a running camera.
CameraFails ==
  /\ camera \in {"starting", "live"} /\ ~urgent
  /\ camera' = "ended"
  /\ Dispatch("CAMERA_FAILED")
  /\ UNCHANGED <<shown, urgent, visible, verified, exports, erasing, client,
                 toWorker, toClient, work>>

\* start() finds the page hidden.
CameraAbandoned ==
  /\ camera = "starting" /\ ~visible /\ ~urgent
  /\ camera' = "off"
  /\ UNCHANGED <<screen, verified, exports, erasing, client, toWorker, toClient, work>>

\* (mutant)
CanAlwaysAccept == opened /\ alive

\* canAccept()
CanAccept == opened /\ alive /\ inFlight < MaxInFlight

\* capture() and submit()
Capture ==
  /\ camera = "live" /\ visible /\ ~urgent
  /\ CanAccept
  /\ inFlight' = inFlight + 1
  /\ toWorker' = Append(toWorker, Request("frame", epoch, "-"))
  /\ UNCHANGED <<screen, held, epoch, opened, session, alive, toClient, work>>
-----------------------------------------------------------------------------
(* The worker *)

\* current()
IsCurrent(e) == current # 0 /\ e = current

Handles(type) ==
  /\ alive /\ toWorker # <<>>
  /\ Head(toWorker).type = type
  /\ toWorker' = Tail(toWorker)

OnOpen ==
  /\ Handles("open")
  /\ current' = Head(toWorker).epoch
  /\ pipe' = "none"
  /\ toClient' = Append(toClient, Progress(current', "none", FALSE))
  /\ UNCHANGED <<screen, held, client, verifying>>

OnClose ==
  /\ Handles("close")
  /\ current' = 0 /\ pipe' = "none"
  /\ UNCHANGED <<screen, held, client, toClient, verifying>>

\* A frame of another session, or one that waited too long.
OnFrameStale ==
  /\ Handles("frame")
  /\ toClient' = Append(toClient, Event("frame", Head(toWorker).epoch))
  /\ UNCHANGED <<screen, held, client, work>>

\* What one frame can make of the pipeline.
Outcomes == CASE pipe = "none"   -> {"none", "active", "complete", "faulted"}
              [] pipe = "active" -> {"active", "complete", "faulted"}
              [] OTHER           -> {pipe}

\* process(): one answer for the frame, then a progress report, which is
\* throttled unless something structural has changed or the file is complete.
OnFrame ==
  /\ Handles("frame")
  /\ IsCurrent(Head(toWorker).epoch)
  /\ pipe' \in Outcomes
  /\ LET answered == Append(toClient, Event("frame", Head(toWorker).epoch))
     IN \/ /\ pipe' = pipe /\ pipe # "complete"
           /\ toClient' = answered
        \/ \E fresh \in IF pipe' \in {"none", "faulted"} THEN {FALSE} ELSE BOOLEAN :
             toClient' = Append(answered, Progress(current, pipe', fresh))
  /\ UNCHANGED <<screen, held, client, current, verifying>>

\* The handler throws on a frame: receive-worker.ts answers for it.
OnFrameThrows ==
  /\ Handles("frame")
  /\ toClient' = Append(toClient, Event("fatal", Head(toWorker).epoch))
  /\ UNCHANGED <<screen, held, client, work>>

OnVerify ==
  /\ Handles("verify")
  /\ verifying' = IF IsCurrent(Head(toWorker).epoch)
                  THEN verifying \cup {Head(toWorker).epoch} ELSE verifying
  /\ UNCHANGED <<screen, held, client, toClient, current, pipe>>

VerifyFailed(e) == toClient' = Append(toClient, Event("failed", e))

\* onVerify(), once verify() has answered.
VerifySettles(e) ==
  /\ e \in verifying
  /\ verifying' = verifying \ {e}
  /\ IF IsCurrent(e)
     THEN \/ /\ pipe = "complete"
             /\ toClient' = toClient \o <<Event("verified", e), Progress(e, "complete", TRUE)>>
          \/ VerifyFailed(e)
     ELSE UNCHANGED toClient
  /\ UNCHANGED <<screen, held, client, toWorker, current, pipe>>
-----------------------------------------------------------------------------
(* onMessage() *)

Hears(type) ==
  /\ alive /\ toClient # <<>> /\ ~urgent
  /\ Head(toClient).type = type
  /\ toClient' = Tail(toClient)

\* The event is of the client's session.
IsOurs == Head(toClient).epoch = epoch

OnFrameAnswer ==
  /\ Hears("frame")
  /\ inFlight' = IF inFlight > 0 THEN inFlight - 1 ELSE inFlight
  /\ UNCHANGED <<screen, held, epoch, opened, session, alive, toWorker, work>>

\* onProgress(), and onComplete() after it.
OnProgress ==
  /\ Hears("progress")
  /\ state' = LET m == Head(toClient)
                  s == IF m.fresh THEN Reduce(state, "FRAME_ACCEPTED") ELSE state
              IN IF ~IsOurs THEN state
                 ELSE CASE m.pipe = "faulted"  -> Reduce(state, "SESSION_FAILED")
                        [] m.pipe = "complete" -> Reduce(s, "SESSION_COMPLETE")
                        [] OTHER               -> s
  /\ UNCHANGED <<shown, urgent, visible, held, client, toWorker, work>>

OnVerified ==
  /\ Hears("verified")
  /\ IF IsOurs THEN verified' = Head(toClient).epoch /\ Dispatch("VERIFIED")
               ELSE UNCHANGED <<verified, state>>
  /\ UNCHANGED <<shown, urgent, visible, exports, erasing, camera, client, toWorker, work>>

OnFailed ==
  /\ Hears("failed")
  /\ IF IsOurs THEN Dispatch("SESSION_FAILED") ELSE UNCHANGED state
  /\ UNCHANGED <<shown, urgent, visible, held, client, toWorker, work>>

\* onWorkerLost(): the worker and everything posted either way are gone.
WorkerLost ==
  /\ alive' = FALSE /\ inFlight' = 0 /\ opened' = FALSE /\ epoch' = epoch + 1
  /\ toWorker' = <<>> /\ toClient' = <<>>
  /\ current' = 0 /\ pipe' = "none" /\ verifying' = {}
  /\ Dispatch("WORKER_FATAL")
  /\ UNCHANGED <<shown, urgent, visible, held, session>>

OnFatal ==
  /\ alive /\ toClient # <<>> /\ ~urgent
  /\ Head(toClient).type = "fatal"
  /\ IF IsOurs
     THEN WorkerLost
     ELSE /\ toClient' = Tail(toClient)
          /\ UNCHANGED <<screen, held, client, toWorker, work>>

\* The worker's onerror or onmessageerror, or a post it refuses.
WorkerDies == alive /\ ~urgent /\ WorkerLost
-----------------------------------------------------------------------------
Taps == TapReceive \/ TapCancel \/ TapReset \/ TapSave \/ TapErase
Page == EraseEnds \/ ExportEnds \/ Hide \/ Show \/ Stall
Commit == \/ CommitPreflight \/ CommitUnsupported \/ CommitWarming
          \/ CommitVerifying \/ CommitEnded \/ CommitOther
Camera == CameraReady \/ CameraFails \/ CameraAbandoned \/ Capture
Worker == \/ OnOpen \/ OnClose \/ OnFrameStale \/ OnFrame \/ OnFrameThrows \/ OnVerify
          \/ \E e \in verifying : VerifySettles(e)
OnMessage == OnFrameAnswer \/ OnProgress \/ OnVerified \/ OnFailed \/ OnFatal

Next == Taps \/ Page \/ Commit \/ Camera \/ Worker \/ OnMessage \/ WorkerDies

Spec == Init /\ [][Next]_vars

\* The two event loops turn: React commits, messages are handled in turn, and
\* a verification settles.  The user, the page and the camera owe nothing.
FairSpec == Spec /\ WF_vars(Commit) /\ WF_vars(OnMessage) /\ WF_vars(Worker)
-----------------------------------------------------------------------------
(* Properties *)

Requests == [type : {"open", "close", "frame", "verify"}, epoch : Nat,
             reason : {"-", "cancelled", "interrupted"}]
Events == [type : {"frame", "progress", "verified", "failed", "fatal"}, epoch : Nat,
           pipe : {"none", "active", "complete", "faulted"}, fresh : BOOLEAN]

TypeOK ==
  /\ state \in States /\ shown \in States /\ urgent \in BOOLEAN /\ visible \in BOOLEAN
  /\ verified \in Nat /\ exports \in Nat /\ erasing \in BOOLEAN
  /\ camera \in {"off", "starting", "live", "ended"}
  /\ epoch \in Nat /\ opened \in BOOLEAN /\ inFlight \in 0 .. MaxInFlight
  /\ session \in Nat /\ alive \in BOOLEAN
  /\ toWorker \in Seq(Requests) /\ toClient \in Seq(Events)
  /\ current \in Nat /\ pipe \in {"none", "active", "complete", "faulted"}
  /\ verifying \subseteq Nat

\* The frames of the client's session that have not been answered to it.
Outstanding ==
  Cardinality({i \in DOMAIN toWorker : toWorker[i].type = "frame" /\ toWorker[i].epoch = epoch})
  + Cardinality({i \in DOMAIN toClient : /\ toClient[i].type \in {"frame", "fatal"}
                                         /\ toClient[i].epoch = epoch})

\* No slot is lost: every frame the client counts is one that an answer is
\* still to come for, so the capture loop never waits for nothing.
SlotsComeBack == inFlight <= Outstanding

\* A screen that says it is scanning has a camera behind it, through stalls
\* and recoveries too: nothing else would ever start one.
ScanningSees ==
  shown \in {"SCANNING", "RECEIVING", "INCOMPLETE", "RECOVERING"} /\ state = shown
    => camera = "live"

\* The camera does not run on for a page nobody sees.
HiddenCameraStops ==
  ~visible /\ state = shown => camera \notin {"starting", "live"}

\* A session that has ended on the screen has no file in memory any more, and
\* none of its messages brings one back.
EndedHoldsNoFile ==
  shown \in {"IDLE", "INTERRUPTED", "CANCELLED", "FAILED"} => verified = 0 /\ ~opened

\* What is offered for saving is there, and is the file of this session
\* ("COMPLETE is a *verified* file and nothing weaker", receiver-state.ts:336).
CompleteHoldsFile ==
  state \in {"COMPLETE", "EXPORTING"} => verified # 0 /\ verified = session

\* An export settles where it is not the one that is shown: its success clears the
\* file under a screen that is complete, its failure completes a verification.
StrayExport ==
  /\ exports' = exports - 1
  /\ \/ state = "COMPLETE" /\ verified' = 0
     \/ state = "VERIFYING" /\ state' = "COMPLETE"

\* Nothing else parts a complete screen from its file: no late or repeated verdict,
\* no reset, no second export, no worker that dies between a file and its screen.
FileIsKept == [][CompleteHoldsFile => CompleteHoldsFile' \/ StrayExport]_vars

\* Verification does not hang: the screen leaves it, whatever the worker
\* answers and even when it dies.
VerificationEnds == shown = "VERIFYING" ~> shown # "VERIFYING"

\* A session that has ended on the screen is released by the worker, unless
\* the user starts over first.
EndedIsReleased ==
  shown \in Clearing ~> (current = 0 \/ shown \notin Clearing)

\* Neither side waits for the other for good.
SessionsEnd == VerificationEnds /\ EndedIsReleased
=============================================================================
