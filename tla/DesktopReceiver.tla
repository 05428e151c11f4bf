---------------------------- MODULE DesktopReceiver ----------------------------
(***************************************************************************)
(* The desktop's camera receiver: CameraReceiver.tsx with its decode worker, *)
(* the screen around it (App.tsx) and the save handler of ipc-handlers.ts.   *)
(*                                                                         *)
(* startCamera() suspends three times - for the permission, for the video    *)
(* to play and for the list of cameras - and the screen may be left during   *)
(* any of them.  A frame handed to the worker comes back later, to whatever  *)
(* reception there is by then.                                              *)
(***************************************************************************)
EXTENDS FountainV1, Integers

CONSTANT MaxMounts   \* bound: times the camera screen is opened

ASSUME DesktopReceiverAssumption == MaxMounts \in Nat

VARIABLES
  screen,     \* "away", "CAMERA", "VERIFYING", "SAVED" or "FAILED"
  mounts,
  starting,   \* startCamera() calls that are suspended, and where
  status,     \* cameraStatus
  active,     \* activeRef
  stream,     \* the mount whose camera is on; 0 for none
  processing, \* processingRef
  working,    \* frames the decode worker of this mount holds
  decoder,
  save,       \* the save in the main process
  saved       \* what the destination file holds; << >> for nothing

desktopVars == <<screen, mounts, starting, status, active, stream, processing,
                 working, decoder, save, saved>>

NoSave == [step |-> "none", blocks |-> << >>]

DesktopReceiverInit ==
  /\ screen = "away" /\ mounts = 0
  /\ starting = {} /\ status = "idle"
  /\ active = FALSE /\ stream = 0 /\ processing = FALSE
  /\ working = {}
  /\ decoder = FreshDecoder
  /\ save = NoSave
  /\ saved = << >>

Mounted == screen = "CAMERA"

\* stopMedia()
StopMedia == active' = FALSE /\ processing' = FALSE /\ stream' = 0

-----------------------------------------------------------------------------
(* The screen *)

OpenReceiver ==
  /\ screen \in {"away", "SAVED", "FAILED"}
  /\ mounts < MaxMounts
  /\ mounts' = mounts + 1
  /\ screen' = "CAMERA"
  /\ status' = "idle" /\ decoder' = FreshDecoder
  /\ active' = FALSE /\ processing' = FALSE
  /\ UNCHANGED <<starting, stream, working, save, saved>>

Unmount == StopMedia

\* "Cancel reception": the component goes, its worker is terminated.
LeaveReceiver ==
  /\ screen # "away" /\ screen # "VERIFYING"
  /\ screen' = "away"
  /\ Unmount
  /\ working' = {}
  /\ UNCHANGED <<mounts, starting, status, decoder, save, saved>>

-----------------------------------------------------------------------------
(* startCamera() *)

Start ==
  /\ Mounted /\ status \in {"idle", "failed"}
  /\ StopMedia
  /\ decoder' = FreshDecoder
  /\ status' = "requesting"
  /\ starting' = starting \cup {[mount |-> mounts, at |-> "permission"]}
  /\ UNCHANGED <<screen, mounts, working, save, saved>>

Current(call) == Mounted /\ call.mount = mounts

Moves(call, at) == starting' = (starting \ {call}) \cup {[call EXCEPT !.at = at]}

TakesStream(call) == Current(call)

\* The permission is given.  A screen that was left stops the camera again.
Granted(call) ==
  /\ call \in starting /\ call.at = "permission"
  /\ IF TakesStream(call)
       THEN Moves(call, "playing") /\ stream' = call.mount
       ELSE starting' = starting \ {call} /\ UNCHANGED stream
  /\ UNCHANGED <<screen, mounts, status, active, processing, working, decoder, save, saved>>

\* The permission is refused, or the video does not play: it lost its source
\* when the screen was left.
StartFails(call) ==
  /\ call \in starting /\ call.at \in {"permission", "playing"}
  /\ starting' = starting \ {call}
  /\ IF Current(call) THEN StopMedia /\ status' = "failed"
                      ELSE UNCHANGED <<active, processing, stream, status>>
  /\ UNCHANGED <<screen, mounts, working, decoder, save, saved>>

Plays(call) ==
  /\ call \in starting /\ call.at = "playing" /\ stream = call.mount
  /\ Moves(call, "listing")
  /\ UNCHANGED <<screen, mounts, status, active, stream, processing, working, decoder, save, saved>>

\* The cameras are listed, or not; either way the loop begins.  On a screen that
\* was left the loop runs over refs nobody reads, and turns for ever.
Listed(call) ==
  /\ call \in starting /\ call.at = "listing"
  /\ starting' = starting \ {call}
  /\ IF Current(call) THEN active' = TRUE /\ status' = "active"
                      ELSE UNCHANGED <<active, status>>
  /\ UNCHANGED <<screen, mounts, stream, processing, working, decoder, save, saved>>

\* stopCamera()
Stop ==
  /\ Mounted /\ status = "active"
  /\ StopMedia
  /\ status' = "idle"
  /\ UNCHANGED <<screen, mounts, starting, working, decoder, save, saved>>

-----------------------------------------------------------------------------
(* The capture loop and the decode worker *)

\* One turn of the loop photographs what is shown, unless the worker is busy.
Capture(fr) ==
  /\ active /\ ~processing
  /\ processing' = TRUE
  /\ working' = working \cup {fr}
  /\ UNCHANGED <<screen, mounts, starting, status, active, stream, decoder, save, saved>>

\* handleFrameDecoded(): a frame that completes the container stops the camera
\* and hands the container over; one that does not fit is ignored.
Decoded(fr) ==
  /\ fr \in working
  /\ IF active
       THEN LET got == DesktopReceive(decoder, fr)
            IN  /\ decoder' = got.decoder
                /\ IF got.outcome = "complete"
                     THEN /\ StopMedia
                          /\ screen' = "VERIFYING"
                          /\ working' = {}
                          /\ save' = [step |-> "check", blocks |-> got.decoder.blocks]
                     ELSE /\ processing' = FALSE
                          /\ working' = working \ {fr}
                          /\ UNCHANGED <<active, stream, screen, save>>
       ELSE /\ processing' = FALSE
            /\ working' = working \ {fr}
            /\ UNCHANGED <<active, stream, decoder, screen, save>>
  /\ UNCHANGED <<mounts, starting, status, saved>>

\* The worker finds no code in the picture, or fails altogether.
NothingDecoded(fr) ==
  /\ fr \in working
  /\ working' = working \ {fr}
  /\ processing' = FALSE
  /\ UNCHANGED <<screen, mounts, starting, status, active, stream, decoder, save, saved>>

WorkerFails ==
  /\ Mounted /\ active
  /\ StopMedia
  /\ status' = "failed"
  /\ UNCHANGED <<screen, mounts, starting, working, decoder, save, saved>>

-----------------------------------------------------------------------------
(* receive:saveReceivedFile *)

HashMatches(blocks) == Hashed(blocks) # {}

\* A container that does not parse or names a blocked file is refused before its
\* hash is looked at.
SaveChecks ==
  /\ save.step = "check"
  /\ \/ /\ HashMatches(save.blocks)
        /\ save' = [save EXCEPT !.step = "dialog"] /\ UNCHANGED screen
     \/ /\ save' = NoSave /\ screen' = "FAILED"
  /\ UNCHANGED <<mounts, starting, status, active, stream, processing, working, decoder, saved>>

\* The dialog is cancelled, or a write fails: the temporary file is removed.
SaveFails ==
  /\ save.step \in {"dialog", "writing"}
  /\ save' = NoSave
  /\ screen' = "FAILED"
  /\ UNCHANGED <<mounts, starting, status, active, stream, processing, working, decoder, saved>>

\* A path is chosen and the temporary file beside it is being written.
SaveWrites ==
  /\ save.step = "dialog"
  /\ save' = [save EXCEPT !.step = "writing"]
  /\ UNCHANGED <<screen, mounts, starting, status, active, stream, processing, working, decoder, saved>>

\* The rename puts the whole file in place.
SaveRenames ==
  /\ save.step = "writing"
  /\ saved' = save.blocks
  /\ save' = NoSave
  /\ screen' = "SAVED"
  /\ UNCHANGED <<mounts, starting, status, active, stream, processing, working, decoder>>

DesktopReceiverSteps ==
  \/ OpenReceiver \/ LeaveReceiver \/ Start \/ Stop
  \/ \E call \in starting : Granted(call) \/ StartFails(call) \/ Plays(call) \/ Listed(call)
  \/ \E fr \in working : Decoded(fr) \/ NothingDecoded(fr)
  \/ WorkerFails
  \/ SaveChecks \/ SaveFails \/ SaveWrites \/ SaveRenames

-----------------------------------------------------------------------------
DesktopReceiverTypeOK ==
  /\ screen \in {"away", "CAMERA", "VERIFYING", "SAVED", "FAILED"}
  /\ mounts \in 0 .. MaxMounts /\ stream \in 0 .. MaxMounts
  /\ starting \subseteq [mount : 1 .. MaxMounts, at : {"permission", "playing", "listing"}]
  /\ status \in {"idle", "requesting", "active", "failed"}
  /\ active \in BOOLEAN /\ processing \in BOOLEAN
  /\ save.step \in {"none", "check", "dialog", "writing"}

\* The destination holds one file that was sent, or what it held before; and that
\* file's own name was proposed for it, unless the camera misread something.
SavedIsTrue(nothingMisread) ==
  saved # << >> => Hashed(saved) # {} /\ (nothingMisread => Spells(saved) # {})

\* The camera is on only for the screen that is showing: leaving it, at whatever
\* point of a start, turns the camera off and no later step turns it on again.
CameraIsTheScreens == stream # 0 => Mounted /\ stream = mounts
=============================================================================
