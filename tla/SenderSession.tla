---------------------------- MODULE SenderSession ----------------------------
(***************************************************************************)
(* The sending screen from the choice of a file to the end of its session:  *)
(* App.tsx and the whole table of sender-state.ts in the renderer, the      *)
(* registry and the preflight of a file in the main process, and the window *)
(* between them, which can be closed, crash and, on macOS, be opened again. *)
(*                                                                         *)
(* streamTransfer.select() is one call that shows a dialog, opens the file, *)
(* reads all of it and only then registers a session.  The screen does not  *)
(* wait in it: it can be cancelled and select again, and each call answers  *)
(* when it is done, to whatever the screen has become.  SenderStream is     *)
(* what happens inside TRANSFERRING, HELD and STREAM_COMPLETE.              *)
(***************************************************************************)
EXTENDS Naturals, Sequences, FiniteSets

CONSTANTS Selects,   \* the calls of streamTransfer.select(), numbered; a session has the number of its call
          MayReopen  \* macOS: the application outlives its window

ASSUME SenderSessionAssumption ==
  /\ Selects \in SUBSET (Nat \ {0}) /\ IsFiniteSet(Selects)
  /\ MayReopen \in BOOLEAN

VARIABLES
  window,     \* the window and its renderer
  surface,    \* SEND, LOOPBACK or RECEIVE
  state,      \* the sender machine
  session,    \* the session the screen holds; 0 is none
  asking,     \* cancelDialogOpen
  wanted,     \* the selection the screen waits for; 0 is none
  select,     \* every call of select()
  toMain,     \* requests about a session not yet handled
  answers,    \* and their answers not yet delivered
  loopback,   \* startLoopback() awaits the main process
  registered, \* the registry's sessions
  open,       \* the calls whose file is open
  overtaken   \* a selection was started, or the window lost, while another was under way

screen == <<surface, state, session, asking, wanted>>
vars == <<window, screen, select, toMain, answers, loopback, registered, open, overtaken>>

States == {"IDLE", "RESUME_ENTRY", "PREFLIGHTING", "READY", "PREPARING", "TRANSFERRING",
           "HELD", "STREAM_COMPLETE", "CANCELLED", "FAILED"}
Streaming == {"TRANSFERRING", "HELD"}

\* sessionIsCleared(), canCancel() and cancelNeedsConfirmation()
Cleared == {"IDLE", "RESUME_ENTRY", "PREFLIGHTING", "CANCELLED", "FAILED"}
Cancellable == {"PREFLIGHTING", "PREPARING", "TRANSFERRING", "HELD"}
Confirmed == Streaming

Transitions ==
  {<<s, "SELECT_REQUESTED", "PREFLIGHTING">> :
     s \in {"IDLE", "RESUME_ENTRY", "READY", "STREAM_COMPLETE", "CANCELLED", "FAILED"}}
  \cup {<<s, "RESUME_REQUESTED", "RESUME_ENTRY">> : s \in {"IDLE", "STREAM_COMPLETE", "CANCELLED", "FAILED"}}
  \cup {<<"RESUME_ENTRY", "RESUME_SUBMITTED", "PREFLIGHTING">>,
        <<"PREFLIGHTING", "PREFLIGHT_READY", "READY">>,
        <<"PREFLIGHTING", "PREFLIGHT_EMPTY", "IDLE">>,
        <<"PREFLIGHTING", "PREFLIGHT_FAILED", "FAILED">>,
        <<"READY", "START_REQUESTED", "PREPARING">>,
        <<"PREPARING", "STREAM_STARTED", "TRANSFERRING">>,
        <<"TRANSFERRING", "HOLD", "HELD">>,
        <<"HELD", "RELEASE", "TRANSFERRING">>,
        <<"STREAM_COMPLETE", "RECOVERY_REQUESTED", "TRANSFERRING">>}
  \cup {<<s, "STREAM_FINISHED", "STREAM_COMPLETE">> : s \in Streaming}
  \cup {<<s, "STREAM_FAILED", "FAILED">> : s \in {"PREPARING"} \cup Streaming}
  \cup {<<s, "CANCELLED", "IDLE">> : s \in {"RESUME_ENTRY", "PREFLIGHTING", "READY", "STREAM_COMPLETE"}}
  \cup {<<s, "CANCELLED", "CANCELLED">> : s \in {"PREPARING"} \cup Streaming}
  \cup {<<s, "RESET", "IDLE">> : s \in States \ {"IDLE"}}

\* (mutant)
ReducesToTheEvent(s, e) ==
  IF \E t \in Transitions : t[1] = s /\ t[2] = e
  THEN (CHOOSE t \in Transitions : t[1] = s /\ t[2] = e)[3]
  ELSE e

\* reduceSender(): an event that is not listed changes nothing.
Reduce(s, e) ==
  IF \E t \in Transitions : t[1] = s /\ t[2] = e
  THEN (CHOOSE t \in Transitions : t[1] = s /\ t[2] = e)[3]
  ELSE s

Request(kind, s) == [kind |-> kind, session |-> s]
Sent(on, kind, s) == IF on THEN <<Request(kind, s)>> ELSE <<>>

\* A commit and the effects it runs: a state that clears the session releases
\* it, and PREPARING asks whether the session it is about to stream is there.
\* The first is keyed on the state, the second on the state and the session.
Releases(st, s) == Sent(st \in Cleared /\ s # 0, "cancel", s)

\* (mutant)
ConfirmsAnotherSession(st, s) == Sent(st = "PREPARING" /\ s # session, "progress", s)

Confirms(st, s) == Sent(st = "PREPARING" /\ <<st, s>> # <<state, session>>, "progress", s)

Kept(st, s) == IF st \in Cleared THEN 0 ELSE s

Commit(st, s) ==
  /\ state' = st
  /\ session' = Kept(st, s)
  /\ toMain' = toMain \o Releases(st, s) \o Confirms(st, s)

\* A screen that leaves PREFLIGHTING waits for no selection.
Settle(st, s) == Commit(st, s) /\ wanted' = IF st = "PREFLIGHTING" THEN wanted ELSE 0

Dispatch(e) == Settle(Reduce(state, e), session)

Idle == [at |-> "unused", token |-> FALSE, heard |-> TRUE]
Working == {c \in Selects : select[c].at \notin {"unused", "done"}}

Init ==
  /\ window = "open" /\ surface = "SEND" /\ state = "IDLE" /\ session = 0
  /\ asking = FALSE /\ wanted = 0
  /\ select = [c \in Selects |-> Idle]
  /\ toMain = <<>> /\ answers = {} /\ loopback = FALSE
  /\ registered = {} /\ open = {} /\ overtaken = FALSE

-----------------------------------------------------------------------------
(* The screen                                                               *)

\* What can be tapped: the sending surface, no dialog over it.
Touchable == window = "open" /\ surface = "SEND" /\ ~asking

main == <<answers, registered, open>>

\* openPicker(): the machine moves first, then the call is made.
Pick(e, token) == \E c \in Selects :
  /\ select[c].at = "unused" /\ \A d \in Selects : d < c => select[d].at # "unused"
  /\ Commit(Reduce(state, e), session) /\ wanted' = c
  /\ select' = [select EXCEPT ![c] = [at |-> "dialog", token |-> token, heard |-> TRUE]]
  /\ overtaken' = (overtaken \/ Working # {})

\* Dashboard, SenderPreflightCard, and the cards of an end offer it; a picker
\* that is open is modal.
TapSelect ==
  /\ Touchable /\ state \in {"IDLE", "CANCELLED", "READY", "STREAM_COMPLETE", "FAILED"}
  /\ \A c \in Selects : select[c].heard => select[c].at # "dialog"
  /\ Pick("SELECT_REQUESTED", FALSE)
  /\ UNCHANGED <<window, surface, asking, loopback, main>>

\* submitResume()
SubmitResume ==
  /\ Touchable /\ state = "RESUME_ENTRY"
  /\ \A c \in Selects : select[c].heard => select[c].at # "dialog"
  /\ Pick("RESUME_SUBMITTED", TRUE)
  /\ UNCHANGED <<window, surface, asking, loopback, main>>

\* The events a control dispatches by itself, in the states that show it.
Controls ==
  {<<s, "RESUME_REQUESTED">> : s \in {"IDLE", "CANCELLED", "STREAM_COMPLETE"}}
  \cup {<<s, "RESET">> : s \in {"STREAM_COMPLETE", "FAILED"}}
  \cup {<<"RESUME_ENTRY", "CANCELLED">>, <<"READY", "START_REQUESTED">>,
        <<"TRANSFERRING", "HOLD">>, <<"HELD", "RELEASE">>}

Tap ==
  /\ Touchable
  /\ \E e \in {x[2] : x \in {y \in Controls : y[1] = state}} : Dispatch(e)
  /\ UNCHANGED <<window, surface, asking, select, loopback, main, overtaken>>

\* requestCancel(): a stream that has shown frames is asked about first.  The
\* picker takes the keyboard while it is open.
RequestCancel ==
  /\ Touchable /\ state \in Cancellable
  /\ \A c \in Selects : c = wanted => select[c].at # "dialog"
  /\ IF state \in Confirmed
     THEN asking' = TRUE /\ UNCHANGED <<state, session, wanted, toMain>>
     ELSE Dispatch("CANCELLED") /\ UNCHANGED asking
  /\ UNCHANGED <<window, surface, select, loopback, main, overtaken>>

\* performCancel() and closeCancelDialog(), whatever the state has become.
AnswerDialog ==
  /\ window = "open" /\ asking
  /\ asking' = FALSE
  /\ Dispatch("CANCELLED") \/ UNCHANGED <<state, session, wanted, toMain>>
  /\ UNCHANGED <<window, surface, select, loopback, main, overtaken>>

\* What the stream reports; its view is mounted on the sending surface only.
StreamReports ==
  /\ window = "open" /\ surface = "SEND" /\ state \in Streaming
  /\ \E e \in {"STREAM_FINISHED", "STREAM_FAILED"} : Dispatch(e)
  /\ UNCHANGED <<window, surface, asking, select, loopback, main, overtaken>>

\* sendRecoveryFrames(); the bound is one request at a time.
TapRecover ==
  /\ Touchable /\ state = "STREAM_COMPLETE"
  /\ ~\E i \in 1..Len(toMain) : toMain[i].kind = "recover"
  /\ ~\E a \in answers : a.kind = "recover"
  /\ toMain' = Append(toMain, Request("recover", session))
  /\ UNCHANGED <<window, screen, select, loopback, main, overtaken>>

-----------------------------------------------------------------------------
(* The other surfaces                                                       *)

\* startLoopback(), offered beside a file that is ready.
TapLoopback ==
  /\ Touchable /\ state = "READY" /\ ~loopback
  /\ loopback' = TRUE
  /\ UNCHANGED <<window, screen, select, toMain, main, overtaken>>

\* The verification runs, is refused, or its picker is dismissed.
LoopbackStarts ==
  /\ window = "open" /\ loopback
  /\ loopback' = FALSE
  /\ surface' \in {"LOOPBACK", "RECEIVE", surface}
  /\ UNCHANGED <<window, state, session, asking, wanted, select, toMain, main, overtaken>>

OpenReceiver ==
  /\ Touchable /\ state \in {"IDLE", "CANCELLED"}
  /\ surface' = "RECEIVE"
  /\ UNCHANGED <<window, state, session, asking, wanted, select, toMain, loopback, main, overtaken>>

\* leaveLoopback() and leaveReceiver()
Leave ==
  /\ window = "open" /\ surface # "SEND" /\ ~asking
  /\ surface' = "SEND"
  /\ UNCHANGED <<window, state, session, asking, wanted, select, toMain, loopback, main, overtaken>>

-----------------------------------------------------------------------------
(* The main process                                                         *)

\* Why open() refuses, in the order it asks: before the file is open, about the
\* file and what is read of it, and about the token that came with it.
DialogRefusals == {"configuration", "blocked extension", "cannot be opened"}
FileRefusals == {"not a regular file", "empty", "too large", "read failed", "changed while it was read"}
TokenRefusals(c) == IF select[c].token THEN {"unreadable code", "another file", "another segmentation"} ELSE {}

At(c, pc) == [select EXCEPT ![c].at = pc]

\* showOpenDialog() answers: nothing was chosen, a refusal before the file is
\* open, or an open file.
DialogAnswers(c) ==
  /\ window # "quit" /\ select[c].at = "dialog"
  /\ \/ select' = At(c, "empty") /\ UNCHANGED open
     \/ \E r \in DialogRefusals : select' = At(c, "error") /\ UNCHANGED open
     \/ select' = At(c, "preflight") /\ open' = open \cup {c}
  /\ UNCHANGED <<window, screen, toMain, answers, loopback, registered, overtaken>>

\* (mutant)
NotClosed(c) == open

\* A refusal after the file was opened closes it again.
Abandoned(c) == open \ {c}

PreflightRefuses(c) ==
  /\ window # "quit" /\ select[c].at = "preflight"
  /\ \E r \in FileRefusals \cup TokenRefusals(c) : select' = At(c, "error")
  /\ open' = Abandoned(c)
  /\ UNCHANGED <<window, screen, toMain, answers, loopback, registered, overtaken>>

\* The file was read whole, its plan made and the token accepted: only now is
\* there a session, and only now is it registered.
PreflightEnds(c) ==
  /\ window # "quit" /\ select[c].at = "preflight"
  /\ select' = At(c, "ready") /\ registered' = registered \cup {c}
  /\ UNCHANGED <<window, screen, toMain, answers, loopback, open, overtaken>>

Answered(r) == answers \cup {[kind |-> r.kind, session |-> r.session, ok |-> r.session \in registered]}

\* cancel(): the registry forgets the session, aborts it and closes its file.
Forgotten(s) == registered \ {s}

Handle ==
  /\ window # "quit" /\ toMain # <<>>
  /\ LET r == Head(toMain) IN
       \/ /\ r.kind = "cancel"
          /\ registered' = Forgotten(r.session)
          /\ open' = IF r.session \in registered THEN open \ {r.session} ELSE open
          /\ UNCHANGED answers
       \/ r.kind \in {"progress", "recover"} /\ answers' = Answered(r) /\ UNCHANGED <<registered, open>>
  /\ toMain' = Tail(toMain)
  /\ UNCHANGED <<window, screen, select, loopback, overtaken>>

-----------------------------------------------------------------------------
(* The answers                                                              *)

Refused(c) == IF select[c].token
              THEN Reduce(Reduce(state, "PREFLIGHT_FAILED"), "RESUME_REQUESTED")
              ELSE Reduce(state, "PREFLIGHT_FAILED")

\* openPicker() after its await: the session it brings is set whatever the
\* state is, and so is the event.
Deliver(c) ==
  /\ window = "open" /\ select[c].heard
  /\ \/ select[c].at = "empty" /\ Dispatch("PREFLIGHT_EMPTY")
     \/ select[c].at = "error" /\ Settle(Refused(c), session)
     \/ select[c].at = "ready" /\ Settle(Reduce(state, "PREFLIGHT_READY"), c)
  /\ select' = At(c, "done")
  /\ UNCHANGED <<window, surface, asking, loopback, main, overtaken>>

\* The answer to the check of PREPARING counts while its effect is armed.
Armed(a) == state = "PREPARING" /\ session = a.session

AnswerProgress == \E a \in answers :
  /\ window = "open" /\ a.kind = "progress"
  /\ answers' = answers \ {a}
  /\ IF Armed(a)
     THEN Dispatch(IF a.ok THEN "STREAM_STARTED" ELSE "STREAM_FAILED")
     ELSE UNCHANGED <<state, session, wanted, toMain>>
  /\ UNCHANGED <<window, surface, asking, select, loopback, registered, open, overtaken>>

\* sendRecoveryFrames() after its await
AnswerRecover == \E a \in answers :
  /\ window = "open" /\ a.kind = "recover"
  /\ answers' = answers \ {a}
  /\ Dispatch(IF a.ok THEN "RECOVERY_REQUESTED" ELSE "RESET")
  /\ UNCHANGED <<window, surface, asking, select, loopback, registered, open, overtaken>>

-----------------------------------------------------------------------------
(* The window                                                               *)

\* disposeAll(): every session that is registered.
DisposeAll == registered' = {} /\ open' = open \ registered

Lost ==
  /\ surface' = "SEND" /\ state' = "IDLE" /\ session' = 0 /\ asking' = FALSE /\ wanted' = 0
  /\ select' = [c \in Selects |-> [select[c] EXCEPT !.heard = select[c].at \in {"unused", "done"}]]
  /\ answers' = {} /\ loopback' = FALSE
  /\ overtaken' = (overtaken \/ Working # {})

\* render-process-gone, and closed
WindowGone ==
  /\ \/ window = "open" /\ window' \in {"crashed", "closed"}
     \/ window = "crashed" /\ window' = "closed"
  /\ Lost /\ DisposeAll
  /\ UNCHANGED toMain

Activate ==
  /\ MayReopen /\ window = "closed"
  /\ window' = "open"
  /\ UNCHANGED <<screen, select, toMain, answers, loopback, registered, open, overtaken>>

\* before-quit, and the end of the process
Quit ==
  /\ window # "quit" /\ window' = "quit"
  /\ Lost /\ registered' = {} /\ open' = {} /\ toMain' = <<>>

Taps == TapSelect \/ SubmitResume \/ Tap \/ RequestCancel \/ AnswerDialog \/ TapRecover
        \/ TapLoopback \/ OpenReceiver \/ Leave
Next ==
  \/ Taps
  \/ StreamReports
  \/ LoopbackStarts
  \/ \E c \in Selects : DialogAnswers(c) \/ PreflightRefuses(c) \/ PreflightEnds(c) \/ Deliver(c)
  \/ Handle
  \/ AnswerProgress
  \/ AnswerRecover
  \/ WindowGone \/ Activate \/ Quit

\* A picker is answered, a file is read to its end, requests are handled and
\* answers delivered.  Nobody has to tap, and no stream has to end.
Fairness ==
  /\ \A c \in Selects : WF_vars(DialogAnswers(c)) /\ WF_vars(PreflightRefuses(c) \/ PreflightEnds(c)) /\ WF_vars(Deliver(c))
  /\ WF_vars(Handle) /\ WF_vars(AnswerProgress) /\ WF_vars(AnswerRecover)

Spec == Init /\ [][Next]_vars /\ Fairness

-----------------------------------------------------------------------------
(* Properties                                                               *)

TypeOK ==
  /\ window \in {"open", "crashed", "closed", "quit"} /\ surface \in {"SEND", "LOOPBACK", "RECEIVE"}
  /\ state \in States /\ {session, wanted} \subseteq Selects \cup {0} /\ asking \in BOOLEAN
  /\ select \in [Selects -> [at : {"unused", "dialog", "preflight", "empty", "error", "ready", "done"},
                             token : BOOLEAN, heard : BOOLEAN]]
  /\ toMain \in Seq([kind : {"cancel", "progress", "recover"}, session : Selects])
  /\ answers \subseteq [kind : {"progress", "recover"}, session : Selects, ok : BOOLEAN]
  /\ registered \subseteq Selects /\ open \subseteq Selects
  /\ {loopback, overtaken} \subseteq BOOLEAN

\* The session a screen holds is there: whatever was cancelled, answered late or
\* disposed of, a screen that offers a file can stream it, and every state that
\* says a session exists holds one.
ShownIsThere ==
  window = "open" =>
    /\ session # 0 => session \in registered
    /\ (session = 0) <=> (state \in Cleared)

\* Every open file belongs to a session that is registered or to a preflight
\* that is reading it: no refusal on the way, and no cancel, leaves one open.
FilesAccountedFor ==
  window # "quit" => open = registered \cup {c \in Selects : select[c].at = "preflight"}

\* One selection at a time leaves nothing behind: once no call and no request is
\* under way, the only session is the one on the screen.  (With two at a time,
\* or a window that is lost during one, a session can be left: the README says how.)
NothingLeftBehind ==
  ~overtaken /\ Working = {} /\ toMain = <<>> => registered \subseteq {session}

\* Screen, registry and open files agree.
SessionsAccountedFor == ShownIsThere /\ FilesAccountedFor /\ NothingLeftBehind

\* As long as one selection is made at a time, a stream goes on with the file it
\* started with: the session changes only through a state that releases it.
StreamKeepsItsFile ==
  [][~overtaken' /\ {session, session'} \subseteq Selects => session' = session]_vars

\* A screen that waits is answered: neither reading the file nor the check
\* before the stream can leave it waiting for good.
WaitingEnds ==
  \A s \in {"PREFLIGHTING", "PREPARING"} :
    (window = "open" /\ state = s) ~> (window # "open" \/ state # s)
=============================================================================
