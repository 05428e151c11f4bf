----------------------------- MODULE LegacyTransfer -----------------------------
(***************************************************************************)
(* A protocol v1 transfer: the desktop's sessions and their display, and     *)
(* whoever watches it - the phone, the camera receiver of another desktop,   *)
(* or nobody while the desktop runs a loopback with itself.                 *)
(*                                                                         *)
(* The camera may catch the frame on the display any number of times or      *)
(* never, and may misread its payload.  Session ids start from 1 with every  *)
(* launch, so two launches can show different files under one id.           *)
(***************************************************************************)
EXTENDS LegacySender, LegacyReceiver, DesktopReceiver, ContainerV1

CONSTANTS
  Uses,          \* who watches: "phone", "desktop" or "loopback"
  MaxTroubles    \* bound: misread payloads, and receptions (for a
                 \* desktop, also launches) after the first

VARIABLES use, misreads

vars == <<senderVars, receiverVars, desktopVars, use, misreads>>

Init ==
  /\ LegacySenderInit /\ LegacyReceiverInit /\ DesktopReceiverInit
  /\ use \in Uses
  /\ misreads = 0

\* What the camera makes of the display: the frame, or one with the same header
\* and some half of its payload misread.
Misread(fr, half) == [fr EXCEPT !.payload = @ \cup {<<<<"noise", 0>>, half>>}]

InView ==
  IF display = << >> THEN {}
  ELSE {display[1]} \cup {Misread(display[1], half) : half \in Halves}

Sees(fr) ==
  IF fr = display[1] THEN UNCHANGED misreads
  ELSE misreads < MaxTroubles /\ misreads' = misreads + 1

\* bound: sessions end, pause and loop back where nobody watches, and the desktop
\* is started again where somebody does; only the phone is shown two sessions of one launch.
SenderStep ==
  /\ Shows \/ (IF use = "loopback" THEN Tends ELSE Relaunch)
  /\ use # "phone" => nextSessionId' <= 2
  /\ use = "desktop" => misreads + mounts + launches' <= MaxTroubles + 2
  /\ UNCHANGED <<receiverVars, desktopVars, misreads>>

PhoneStep ==
  /\ use = "phone"
  /\ \/ \E fr \in InView : Sees(fr) /\ SubmitV1(fr)
     \/ LegacyReceiverSteps /\ UNCHANGED misreads
  /\ misreads' + resets' <= MaxTroubles
  /\ UNCHANGED <<senderVars, desktopVars>>

DesktopStep ==
  /\ use = "desktop"
  /\ \/ \E fr \in InView : Sees(fr) /\ Capture(fr)
     \/ DesktopReceiverSteps /\ UNCHANGED misreads
  /\ misreads' + mounts' + launches <= MaxTroubles + 2
  /\ UNCHANGED <<senderVars, receiverVars>>

Next == (SenderStep \/ PhoneStep \/ DesktopStep) /\ UNCHANGED use

\* An interval keeps calling back until it is cleared.
Fairness ==
  \A n \in TimerIds :
    WF_vars((\E t \in timers : t.id = n /\ TickDead(t)) /\ UNCHANGED <<receiverVars, desktopVars, use, misreads>>)

Spec == Init /\ [][Next]_vars /\ Fairness

-----------------------------------------------------------------------------
TypeOK ==
  /\ LegacySenderTypeOK /\ LegacyReceiverTypeOK /\ DesktopReceiverTypeOK
  /\ use \in {"phone", "desktop", "loopback"}
  /\ misreads \in 0 .. MaxTroubles

\* Whoever reports a file - the loopback, the phone, the desktop's save - has the
\* bytes of one file that was sent: not a mixture of the files two launches showed
\* under one session id, not a misread one, not one of an earlier reception.  Its
\* name is under no digest: that is the file's own as long as nothing is misread.
\* A container is read by the phone and by the desktop as it was written.
VerdictsAreTrue ==
  LoopbackPasses /\ V1VerdictIsTrue /\ SavedIsTrue(misreads = 0) /\ V1Recovers /\ V1TravelsWhole

\* Nothing runs that nobody can stop: no interval without its session, no camera
\* without its screen, whatever was paused, replaced, left or answered late; and
\* the intervals of a window that is gone come to an end.
NothingOutlives == [](TimersAreOwned /\ CameraIsTheScreens) /\ EndsWithItsWindow
=============================================================================
