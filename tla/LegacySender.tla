----------------------------- MODULE LegacySender -----------------------------
(***************************************************************************)
(* The desktop's protocol v1 sessions: what SessionManager keeps, the       *)
(* transfer:* and loopback:* handlers of ipc-handlers.ts, the intervals      *)
(* they start, and the screen that watches a loopback (App.tsx,             *)
(* LoopbackView.tsx).                                                       *)
(*                                                                         *)
(* An interval is a Node timer: it belongs to no window and ends only when   *)
(* somebody clears it.  `timers` is therefore a set of its own, and what a   *)
(* session records of it is only a handle.                                   *)
(***************************************************************************)
EXTENDS FountainV1, Integers

CONSTANTS
  LastSeq,       \* bound: the last sequence number an encoder is followed to
  MaxSessions,   \* bound: selections of one launch
  MaxWindows,    \* bound: windows opened, over all launches
  MaxLaunches    \* bound: launches of the desktop

ASSUME LegacySenderAssumption ==
  /\ LastSeq \in Nat /\ LastSeq >= K - 1
  /\ MaxSessions \in Nat /\ MaxWindows \in Nat \ {0} /\ MaxLaunches \in Nat \ {0}

VARIABLES
  sessions,      \* session id -> SessionState
  nextSessionId,
  timers,        \* the intervals that are running
  window,        \* the window that is open, 0 for none
  windows,       \* windows opened so far
  launches,
  display,       \* the last frame that reached the window; << >> for none
  view           \* the loopback of App.tsx

senderVars == <<sessions, nextSessionId, timers, window, windows, launches, display, view>>

SessionIds == 1 .. MaxSessions
TimerIds   == 1 .. (2 * MaxSessions)

NoTimer == 0

\* transfer.on is `activeTransfer`; its timer is null while it is paused.
Selected(file) ==
  [file |-> file, next |-> -1,
   transfer |-> [on |-> FALSE, timer |-> NoTimer],
   loopback |-> NoTimer, decoder |-> FreshDecoder]

Idle == [phase |-> "none", session |-> 0, heard |-> "nothing"]

LegacySenderInit ==
  /\ sessions = << >>
  /\ nextSessionId = 1
  /\ timers = {}
  /\ window = 1 /\ windows = 1 /\ launches = 1
  /\ display = << >>
  /\ view = Idle

IsAlive(w) == w = window

-----------------------------------------------------------------------------
(* SessionManager *)

\* selectFile(): everything after the dialog is one step.
SelectFile(file) ==
  /\ window # 0
  /\ nextSessionId \in SessionIds
  /\ nextSessionId + launches <= MaxSessions + 1  \* bound: fewer in a later launch
  /\ sessions' = (nextSessionId :> Selected(file)) @@ sessions
  /\ nextSessionId' = nextSessionId + 1
  /\ UNCHANGED <<timers, window, windows, launches, display, view>>

Handles(s) == {sessions[s].transfer.timer, sessions[s].loopback}

\* removeSession(): its intervals, its encoder and its payload.
TimersWithout(s) == {t \in timers : t.id \notin Handles(s)}
Without(s)       == [x \in DOMAIN sessions \ {s} |-> sessions[x]]

RemoveSession(s) ==
  /\ sessions' = Without(s)
  /\ timers' = TimersWithout(s)

\* transfer:cancel and files:discardSelection; a session that is gone is no error.
Cancel(s) ==
  /\ window # 0
  /\ s \in DOMAIN sessions
  /\ RemoveSession(s)
  /\ UNCHANGED <<nextSessionId, window, windows, launches, display, view>>

-----------------------------------------------------------------------------
(* transfer:start, transfer:pause, transfer:resume *)

FreshTimer == CHOOSE n \in TimerIds : \A t \in timers : t.id # n

Interval(kind, s) == [id |-> FreshTimer, kind |-> kind, session |-> s, window |-> window]

StartTransfer(s) ==
  /\ window # 0
  /\ s \in DOMAIN sessions /\ ~sessions[s].transfer.on
  /\ timers' = timers \cup {Interval("transfer", s)}
  /\ sessions' = [sessions EXCEPT ![s].next = 0,
                                  ![s].transfer = [on |-> TRUE, timer |-> FreshTimer]]
  /\ UNCHANGED <<nextSessionId, window, windows, launches, display, view>>

PauseTransfer(s) ==
  /\ window # 0
  /\ s \in DOMAIN sessions
  /\ sessions[s].transfer.on /\ sessions[s].transfer.timer # NoTimer
  /\ timers' = {t \in timers : t.id # sessions[s].transfer.timer}
  /\ sessions' = [sessions EXCEPT ![s].transfer.timer = NoTimer]
  /\ UNCHANGED <<nextSessionId, window, windows, launches, display, view>>

\* (mutant) A transfer that is running is given one more interval.
ResumesAnyway(s) == sessions[s].transfer.on

Resumes(s) == sessions[s].transfer.on /\ sessions[s].transfer.timer = NoTimer

ResumeTransfer(s) ==
  /\ window # 0
  /\ s \in DOMAIN sessions /\ Resumes(s)
  /\ \E n \in TimerIds : \A t \in timers : t.id # n
  /\ timers' = timers \cup {Interval("transfer", s)}
  /\ sessions' = [sessions EXCEPT ![s].transfer.timer = FreshTimer]
  /\ UNCHANGED <<nextSessionId, window, windows, launches, display, view>>

-----------------------------------------------------------------------------
(* loopback:start, loopback:cancel and the screen that asks for them *)

\* The encoder is replaced, also under a transfer that is using the old one.
StartLoopback(s) ==
  /\ window # 0
  /\ s \in DOMAIN sessions /\ sessions[s].loopback = NoTimer
  /\ timers' = timers \cup {Interval("loopback", s)}
  /\ sessions' = [sessions EXCEPT ![s].next = 0, ![s].loopback = FreshTimer,
                                  ![s].decoder = FreshDecoder]
  /\ view' = IF view.phase = "none" THEN [Idle EXCEPT !.phase = "starting", !.session = s] ELSE view
  /\ UNCHANGED <<nextSessionId, window, windows, launches, display>>

\* The screen is rendered and subscribes; what was sent before is lost.
ViewOpens ==
  /\ window # 0
  /\ view.phase = "starting"
  /\ view' = [view EXCEPT !.phase = "open"]
  /\ UNCHANGED <<sessions, nextSessionId, timers, window, windows, launches, display>>

\* leaveLoopback(): the screen goes, the loopback is cancelled if it still runs.
\* The session stays, with its payload.
LeaveLoopback ==
  /\ window # 0
  /\ view.phase = "open"
  /\ view' = Idle
  /\ IF view.session \in DOMAIN sessions
       THEN /\ timers' = {t \in timers : t.id # sessions[view.session].loopback}
            /\ sessions' = [sessions EXCEPT ![view.session].loopback = NoTimer,
                                            ![view.session].decoder = FreshDecoder]
       ELSE UNCHANGED <<timers, sessions>>
  /\ UNCHANGED <<nextSessionId, window, windows, launches, display>>

-----------------------------------------------------------------------------
(* The interval callbacks *)

\* Nothing will ever observe the session again.
EndsForNobody(s) == RemoveSession(s)

TickDead(t) ==
  /\ t \in timers /\ ~IsAlive(t.window)
  /\ EndsForNobody(t.session)
  /\ UNCHANGED <<nextSessionId, window, windows, launches, display, view>>

\* generateFrame()
TickTransfer(t) ==
  /\ t \in timers /\ t.kind = "transfer" /\ IsAlive(t.window)
  /\ LET s == sessions[t.session]
     IN  /\ s.next \in 0 .. LastSeq
         /\ display' = <<FrameOf(t.session, s.file, s.next)>>
         /\ sessions' = [sessions EXCEPT ![t.session].next = @ + 1]
  /\ UNCHANGED <<nextSessionId, timers, window, windows, launches, view>>

Hears(s, what) ==
  IF view.phase = "open" /\ view.session = s THEN [view EXCEPT !.heard = what] ELSE view

\* loopbackFrame(): a frame is lost by the draw, or decoded; the last one is
\* verified, reported and ends the session.
TickLoopback(t) ==
  /\ t \in timers /\ t.kind = "loopback" /\ IsAlive(t.window)
  /\ LET s   == sessions[t.session]
         got == DesktopReceive(s.decoder, FrameOf(t.session, s.file, s.next))
     IN  /\ s.next \in 0 .. LastSeq
         /\ \/ /\ sessions' = [sessions EXCEPT ![t.session].next = @ + 1]
               /\ UNCHANGED <<timers, view>>
            \/ /\ got.outcome # "complete"
               /\ sessions' = [sessions EXCEPT ![t.session].next = @ + 1,
                                               ![t.session].decoder = got.decoder]
               /\ view' = Hears(t.session, "progress")
               /\ UNCHANGED timers
            \/ /\ got.outcome = "complete"
               /\ RemoveSession(t.session)
               /\ view' = Hears(t.session, IF Spells(got.decoder.blocks) = {s.file}
                                             THEN "passed" ELSE "failed")
  /\ UNCHANGED <<nextSessionId, window, windows, launches, display>>

-----------------------------------------------------------------------------
(* Windows and launches *)

WindowCloses ==
  /\ window # 0
  /\ window' = 0
  /\ display' = << >>
  /\ view' = Idle
  /\ UNCHANGED <<sessions, nextSessionId, timers, windows, launches>>

WindowOpens ==
  /\ window = 0
  /\ windows < MaxWindows
  /\ windows' = windows + 1
  /\ window' = windows'
  /\ UNCHANGED <<sessions, nextSessionId, timers, launches, display, view>>

\* before-quit runs disposeAll(); the next launch numbers sessions from 1 again.
Relaunch ==
  /\ launches < MaxLaunches /\ windows < MaxWindows
  /\ nextSessionId + launches <= MaxSessions + 1  \* bound: as for SelectFile
  /\ launches' = launches + 1
  /\ sessions' = << >>
  /\ timers' = {}
  /\ nextSessionId' = 1
  /\ windows' = windows + 1
  /\ window' = windows'
  /\ display' = << >>
  /\ view' = Idle

\* What changes the display.
Shows ==
  \/ \E f \in Files : SelectFile(f)
  \/ \E s \in SessionIds : StartTransfer(s)
  \/ \E t \in timers : TickTransfer(t)

\* The rest of what can be done to the sessions and their intervals.
Tends ==
  \/ \E s \in SessionIds :
       Cancel(s) \/ PauseTransfer(s) \/ ResumeTransfer(s) \/ StartLoopback(s)
  \/ ViewOpens \/ LeaveLoopback
  \/ \E t \in timers : TickDead(t) \/ TickLoopback(t)
  \/ WindowCloses \/ WindowOpens

-----------------------------------------------------------------------------
LegacySenderTypeOK ==
  /\ DOMAIN sessions \subseteq SessionIds
  /\ \A s \in DOMAIN sessions :
       /\ sessions[s].file \in Files /\ sessions[s].next \in -1 .. (LastSeq + 1)
       /\ sessions[s].transfer \in [on : BOOLEAN, timer : TimerIds \cup {NoTimer}]
       /\ sessions[s].loopback \in TimerIds \cup {NoTimer}
  /\ nextSessionId \in 1 .. (MaxSessions + 1)
  /\ timers \subseteq [id : TimerIds, kind : {"transfer", "loopback"},
                       session : SessionIds, window : 1 .. MaxWindows]
  /\ window \in 0 .. MaxWindows /\ windows \in 1 .. MaxWindows
  /\ launches \in 1 .. MaxLaunches
  /\ view \in [phase : {"none", "starting", "open"}, session : {0} \cup SessionIds,
               heard : {"nothing", "progress", "passed", "failed"}]

\* Every running interval is the one its session holds the handle of, and every
\* handle is of a running interval: an interval nobody holds can never be
\* cleared, and would encode frames for the life of the process.
TimersAreOwned ==
  /\ \A t \in timers :
       /\ t.session \in DOMAIN sessions
       /\ t.id = IF t.kind = "transfer" THEN sessions[t.session].transfer.timer
                                        ELSE sessions[t.session].loopback
  /\ \A s \in DOMAIN sessions :
       \A n \in {sessions[s].transfer.timer, sessions[s].loopback} \ {NoTimer} :
         \E t \in timers : t.id = n /\ t.session = s

\* A loopback that reports an end reports that the container came back whole,
\* whatever was dropped and whoever else used the session's encoder.
LoopbackPasses == view.heard # "failed"

\* The intervals of a window that is gone end, without anyone asking.
EndsWithItsWindow ==
  \A w \in 1 .. MaxWindows :
    (\E t \in timers : t.window = w /\ w # window) ~> (\A t \in timers : t.window # w)
=============================================================================
