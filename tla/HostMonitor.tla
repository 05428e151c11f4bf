----------------------------- MODULE HostMonitor -----------------------------
(***************************************************************************)
(* The badge of a receiver that has come up: HostMonitor of host-status.ts   *)
(* asks the host again and again whether it is there, and the effect of      *)
(* App.tsx that owns it asks at once when the page is looked at again.       *)
(*                                                                         *)
(* A probe is answered, refused or given up after its timeout; one that a    *)
(* later one replaced, or that outlived the monitor, is answered all the     *)
(* same and must not be heard.                                             *)
(***************************************************************************)
EXTENDS ReceiverShell

VARIABLE monitor   \* [running, status, timer, probes]: a timer is set or is not

vars == <<shellVars, monitor>>

NotMade == [running |-> FALSE, status |-> "CHECKING", timer |-> FALSE, probes |-> {}]

\* check(): the generation moves, and what was asked before is no longer asked.
Check(m) ==
  [m EXCEPT !.timer = FALSE,
            !.probes = {[p EXCEPT !.current = FALSE] : p \in @} \cup {[current |-> TRUE, says |-> "asked"]}]

Superseded(m) == {p \in m.probes : ~p.current}

\* bound: the badge is followed once the shell that shows it has nothing under way, came
\* up without trouble, and has yet to scan.
ShellRests ==
  /\ page.phase = "mounted" /\ page.registered /\ ~page.recovering
  /\ worker.installing = None /\ precache = {} /\ ~stale
  /\ page.module = "ran" /\ page.controller = page.build /\ ~timedOut /\ ~flag /\ ~private

\* start(), when the screen mounts.
StartMonitor ==
  /\ monitor = NotMade /\ ShellRests
  /\ monitor' = Check([NotMade EXCEPT !.running = TRUE])
  /\ UNCHANGED shellVars

\* refresh(): the page is looked at again.  A probe under way goes on unheard.
Refresh ==
  /\ monitor.running
  /\ Superseded(monitor) = {}     \* bound: one probe that was replaced, at a time
  /\ monitor' = Check(monitor)
  /\ UNCHANGED shellVars

TimerFires ==
  /\ monitor.running /\ monitor.timer
  /\ monitor' = Check(monitor)
  /\ UNCHANGED shellVars

\* stop(): the screen goes while the page stays.
StopMonitor ==
  /\ monitor.running
  /\ monitor' = [monitor EXCEPT !.running = FALSE, !.timer = FALSE,
                                !.probes = {[p EXCEPT !.current = FALSE] : p \in @}]
  /\ UNCHANGED shellVars

\* probeHost(): only the host's own marker is a yes; a refusal, a page from elsewhere, and the
\* timeout are all a no, and a host that is there can be too slow.
Says(p, what) ==
  /\ p \in monitor.probes /\ p.says = "asked"
  /\ monitor' = [monitor EXCEPT !.probes = (@ \ {p}) \cup {[p EXCEPT !.says = what]}]
  /\ UNCHANGED shellVars

HostSaysYes(p) == host.up /\ Says(p, "yes")
GetsNoYes(p)   == Says(p, "no")

\* (mutant) The generation is not compared.
CountsWhileRunning(p) == monitor.running

Counts(p) == monitor.running /\ p.current

\* (mutant) Only a host that answered is asked again.
AgainIfItWas(m, reachable) == [m EXCEPT !.timer = reachable]

Again(m, reachable) == [m EXCEPT !.timer = TRUE]

\* check(), after its await.
Hears(p) ==
  /\ p \in monitor.probes /\ p.says # "asked"
  /\ LET rest == [monitor EXCEPT !.probes = @ \ {p}]
     IN  monitor' = IF Counts(p)
                    THEN Again([rest EXCEPT !.status = IF p.says = "yes" THEN "ONLINE" ELSE "UNAVAILABLE"],
                               p.says = "yes")
                    ELSE rest
  /\ UNCHANGED shellVars

CurrentIs(says) == [current |-> TRUE, says |-> says]

MonitorStep ==
  \/ StartMonitor \/ Refresh \/ TimerFires \/ StopMonitor
  \/ \E p \in monitor.probes : HostSaysYes(p) \/ GetsNoYes(p) \/ Hears(p)

\* The page is left or closed, with its monitor; the host comes and goes beside it.
ShellStep ==
  \/ monitor = NotMade /\ ShellNext /\ UNCHANGED monitor
  \/ monitor # NotMade /\ (Navigate \/ Close) /\ monitor' = NotMade
  \/ monitor # NotMade /\ (HostGoes \/ HostComes) /\ UNCHANGED monitor

Init == ShellInit /\ monitor = NotMade
Next == ShellStep \/ MonitorStep

\* Timers fire, requests end; a host that can be reached for good is not too slow for ever, and
\* nobody looks away and back before every answer.
Fairness ==
  /\ ShellFairness
  /\ WF_vars(TimerFires)
  /\ SF_vars(\E p \in monitor.probes : p.current /\ (HostSaysYes(p) \/ GetsNoYes(p)))
  /\ \A says \in {"yes", "no"} : SF_vars(Hears(CurrentIs(says)))
  /\ SF_vars(HostSaysYes(CurrentIs("asked")))

Spec == Init /\ [][Next]_vars /\ Fairness

-----------------------------------------------------------------------------
TypeOK ==
  /\ ShellTypeOK
  /\ monitor.status \in {"CHECKING", "ONLINE", "UNAVAILABLE"}
  /\ monitor.probes \subseteq [current : BOOLEAN, says : {"asked", "yes", "no"}]

\* A monitor that runs waits for one thing, a timer or an answer: refreshes and late
\* answers never leave two rounds of polling behind, and never none.
OneRound ==
  monitor.running => (monitor.timer <=> ~\E p \in monitor.probes : p.current)

\* A host that comes, or goes, and stays so is seen to have, however the page was looked
\* at and left meanwhile and in whatever order the answers arrived.
BadgeFollows ==
  /\ (monitor.running /\ host.up) ~> (monitor.status = "ONLINE" \/ ~host.up \/ ~monitor.running)
  /\ (monitor.running /\ ~host.up) ~> (monitor.status = "UNAVAILABLE" \/ host.up \/ ~monitor.running)

\* The receiver comes up where it can, of what its host answers, and once up says whether
\* its host is there.
ShellServes == ShellComesUp /\ [](OneRound /\ AnswersAreTold) /\ BadgeFollows
=============================================================================
