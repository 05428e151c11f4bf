-------------------------- MODULE HostMonitorProofs --------------------------
(***************************************************************************)
(* A receiver that cannot come up is reloaded once and not for ever, and    *)
(* the badge of one that has come up waits for one thing at a time: for any *)
(* number of builds, and any order in which a person, the host, the service *)
(* worker, the boot watchdog and the probes act.                           *)
(*                                                                         *)
(* ReloadsOnce is not inductive: a reload under way must be the first, so a *)
(* page that is recovering has written the flag, where it could be written, *)
(* and no reload is counted while the flag is not there.  That the monitor  *)
(* waits for one thing needs that only the last of its probes can still be  *)
(* heard, and the types need a build for every page that has its document.  *)
(***************************************************************************)
EXTENDS HostMonitor, TLAPS

Pages ==
  [phase : {"closed", "document", "offline", "boot", "module", "mounted"},
   build : Builds \cup {None}, controller : Builds \cup {None}, boot : BOOLEAN,
   module : {"unasked", "asked", "failed", "ran", "chunk", "no chunk"},
   settled : BOOLEAN, recovering : BOOLEAN, diagnosed : BOOLEAN, registered : BOOLEAN]

Kept == [doc : Builds \cup {None}, boot : BOOLEAN, module : SUBSET Builds, chunk : SUBSET Builds]

Workers ==
  [active : Builds \cup {None}, installing : Builds \cup {None}, todo : SUBSET {"doc", "boot"}]

Probes == [current : BOOLEAN, says : {"asked", "yes", "no"}]

Monitors ==
  [running : BOOLEAN, status : {"CHECKING", "ONLINE", "UNAVAILABLE"}, timer : BOOLEAN,
   probes : SUBSET Probes]

ShellTypes ==
  /\ host \in [up : BOOLEAN, build : Builds] /\ private \in BOOLEAN /\ flag \in BOOLEAN
  /\ worker \in Workers /\ caches \in [Builds -> Kept] /\ page \in Pages
  /\ \A m \in precache : m.to \in Builds /\ m.build \in Builds
  /\ stale \in BOOLEAN /\ reloads \in Nat /\ timedOut \in BOOLEAN

\* A page that has its document is of some build; a watchdog that has acted is settled,
\* and has done one thing.
PageInv ==
  /\ page.phase \in {"boot", "module", "mounted"} => page.build \in Builds
  /\ page.boot => page.phase \in {"module", "mounted"}
  /\ ~(page.recovering /\ page.diagnosed)
  /\ page.recovering \/ page.diagnosed => page.settled /\ page.boot

\* A recovery is remembered before it reloads, and is the first since a shell mounted.
WatchdogInv ==
  /\ page.recovering => ~private /\ (page.phase = "mounted" \/ (flag /\ reloads = 0))
  /\ ~flag => reloads = 0
  /\ ReloadsOnce

\* Of the probes of a monitor, one can be heard.
MonitorInv ==
  /\ monitor \in Monitors
  /\ \A p, q \in monitor.probes : p.current /\ q.current => p = q
  /\ OneRound

ShellInv == ShellTypes /\ PageInv /\ WatchdogInv
ReceiverInv == ShellInv /\ MonitorInv
-----------------------------------------------------------------------------
LEMMA InitHolds == Init => ReceiverInv
<1>1. SUFFICES ASSUME Init PROVE ReceiverInv
  OBVIOUS
<1>2. None \in Builds \cup {None} /\ 1 \in Builds
  BY ReceiverShellAssumption DEF Builds
<1>3. Empty \in Kept /\ page \in Pages /\ worker \in Workers
  BY <1>1, <1>2
     DEF Init, ShellInit, Empty, Kept, Pages, Workers, Closed, Loading
<1>4. ShellTypes
  BY <1>1, <1>2, <1>3 DEF Init, ShellInit, ShellTypes
<1>5. PageInv /\ WatchdogInv
  BY <1>1 DEF Init, ShellInit, PageInv, WatchdogInv, ReloadsOnce, Closed, Loading
<1>6. MonitorInv
  BY <1>1 DEF Init, NotMade, MonitorInv, Monitors, Probes, OneRound
<1> QED BY <1>4, <1>5, <1>6 DEF ReceiverInv, ShellInv

\* What the watchdog makes of a page that failed, and what it leaves behind.
LEMMA FailsIsSound ==
  ASSUME ShellInv, Flagged(page), UNCHANGED <<private, reloads>>
  PROVE  /\ Fails(page) \in Pages /\ flag' \in BOOLEAN
         /\ Fails(page).phase = page.phase /\ Fails(page).build = page.build
         /\ Fails(page).boot = page.boot
         /\ ~(Fails(page).recovering /\ Fails(page).diagnosed)
         /\ Fails(page).recovering \/ Fails(page).diagnosed
              => Fails(page).settled /\ Fails(page).boot
         /\ Fails(page).recovering
              => ~private' /\ (Fails(page).phase = "mounted" \/ (flag' /\ reloads' = 0))
         /\ ~flag' => reloads' = 0
         /\ ReloadsOnce'
<1>1. page \in Pages /\ private \in BOOLEAN /\ flag \in BOOLEAN /\ private' = private /\ reloads' = reloads
  BY DEF ShellInv, ShellTypes
<1>2. CASE ~page.boot \/ page.settled
  <2>1. Fails(page) = page /\ flag' = flag
    BY <1>1, <1>2 DEF Fails, Flagged
  <2> QED BY <1>1, <2>1 DEF ShellInv, PageInv, WatchdogInv, ReloadsOnce
<1>3. CASE page.boot /\ ~page.settled
  <2>1. Fails(page) = [page EXCEPT !.settled = TRUE, !.recovering = ~Attempted, !.diagnosed = Attempted]
    BY <1>3 DEF Fails
  <2>2. flag' = (flag \/ ~Attempted) /\ Attempted \in BOOLEAN /\ (Attempted <=> private \/ flag)
    BY <1>1, <1>3 DEF Flagged, Attempted
  <2>3. /\ Fails(page) \in Pages /\ Fails(page).phase = page.phase /\ Fails(page).build = page.build
        /\ Fails(page).recovering = ~Attempted /\ Fails(page).diagnosed = Attempted
        /\ Fails(page).settled /\ Fails(page).boot = page.boot
    BY <1>1, <1>3, <2>1, <2>2 DEF Pages
  <2>4. flag' \in BOOLEAN /\ (~Attempted => flag') /\ (~flag' => ~flag)
    BY <2>2, Zenon
  <2>5. ~Attempted => ~private /\ reloads = 0
    BY <2>2 DEF ShellInv, WatchdogInv
  <2>6. /\ ~Attempted => ~private' /\ flag' /\ reloads' = 0
        /\ ~flag' => reloads' = 0
    BY <1>1, <2>4, <2>5 DEF ShellInv, WatchdogInv
  <2>7. ReloadsOnce'
    BY <1>1 DEF ShellInv, WatchdogInv, ReloadsOnce
  <2>8. ~(Fails(page).recovering /\ Fails(page).diagnosed)
    BY <2>2, <2>3
  <2>9. Fails(page).recovering
          => ~private' /\ (Fails(page).phase = "mounted" \/ (flag' /\ reloads' = 0))
    BY <2>3, <2>6
  <2> QED BY <1>3, <2>3, <2>4, <2>6, <2>7, <2>8, <2>9
<1> QED BY <1>1, <1>2, <1>3 DEF Pages

LEMMA KeepIsSound ==
  ASSUME ShellInv, NEW w \in Builds, NEW c \in Kept, Keep(w, c)
  PROVE  caches' \in [Builds -> Kept]
BY DEF ShellInv, ShellTypes, Keep

\* What the worker and the caches are given, where the page and its watchdog are left alone.
LEMMA WorkerSteps ==
  ASSUME ShellInv, Install \/ Activate \/ Precache
  PROVE  ShellInv'
<1>1. CASE Install
  <2>1. PICK w, c : w = worker.installing /\ c = caches[w] /\ w # None
    BY <1>1 DEF Install
  <2>2. w \in Builds /\ c \in Kept /\ host.build \in Builds
    BY <2>1 DEF ShellInv, ShellTypes, Workers, None, Builds
  <2>3. \E d \in {c, [c EXCEPT !.doc = host.build], [c EXCEPT !.boot = TRUE]} : Keep(w, d)
    BY <1>1, <2>1 DEF Install
  <2>4. \A d \in {c, [c EXCEPT !.doc = host.build], [c EXCEPT !.boot = TRUE]} : d \in Kept
    BY <2>2 DEF Kept
  <2>5. caches' \in [Builds -> Kept]
    BY <2>2, <2>3, <2>4, KeepIsSound
  <2>6. worker' \in Workers
    BY <1>1 DEF Install, ShellInv, ShellTypes, Workers
  <2> QED BY <1>1, <2>5, <2>6
          DEF Install, ShellInv, ShellTypes, PageInv, WatchdogInv, ReloadsOnce
<1>2. CASE Activate
  <2>1. worker.installing \in Builds
    BY <1>2 DEF Activate, ShellInv, ShellTypes, Workers, None, Builds
  <2>2. worker' \in Workers
    BY <1>2, <2>1 DEF Activate, Workers, None
  <2>3. Empty \in Kept
    BY DEF Empty, Kept, None
  <2>4. caches' \in [Builds -> Kept]
    BY <1>2, <2>3 DEF Activate, ShellInv, ShellTypes
  <2>5. /\ page' \in Pages /\ page'.phase = page.phase /\ page'.build = page.build
        /\ page'.recovering = page.recovering /\ page'.diagnosed = page.diagnosed
        /\ page'.settled = page.settled /\ page'.boot = page.boot
    BY <1>2, <2>1 DEF Activate, ShellInv, ShellTypes, Pages
  <2>6. \A m \in precache' : m.to \in Builds /\ m.build \in Builds
    BY <1>2, <2>1 DEF Activate, PostsOnControllerChange, Posts, ShellInv, ShellTypes, PageInv
  <2> QED BY <1>2, <2>2, <2>4, <2>5, <2>6
          DEF Activate, ShellInv, ShellTypes, PageInv, WatchdogInv, ReloadsOnce
<1>3. CASE Precache
  <2>1. PICK m \in precache :
          /\ precache' = precache \ {m}
          /\ Keep(m.to, LET c == caches[m.to]
                            has == Serves(m.build)
                        IN IF ~host.up THEN c
                           ELSE [doc |-> host.build, boot |-> TRUE,
                                 module |-> c.module \cup (IF has THEN {m.build} ELSE {}),
                                 chunk |-> c.chunk \cup (IF has /\ m.chunk THEN {m.build} ELSE {})])
    BY <1>3 DEF Precache
  <2>2. m.to \in Builds /\ m.build \in Builds /\ caches[m.to] \in Kept /\ host.build \in Builds
    BY DEF ShellInv, ShellTypes
  <2>3. [doc |-> host.build, boot |-> TRUE,
         module |-> caches[m.to].module \cup (IF Serves(m.build) THEN {m.build} ELSE {}),
         chunk |-> caches[m.to].chunk \cup (IF Serves(m.build) /\ m.chunk THEN {m.build} ELSE {})] \in Kept
    BY <2>2 DEF Kept
  <2>4. caches' \in [Builds -> Kept]
    BY <2>1, <2>2, <2>3, KeepIsSound
  <2> QED BY <1>3, <2>1, <2>4
          DEF Precache, ShellInv, ShellTypes, PageInv, WatchdogInv, ReloadsOnce
<1> QED BY <1>1, <1>2, <1>3

\* The watchdog acts, reloads the page, or is told to by a person.
LEMMA WatchdogSteps ==
  ASSUME ShellInv, MountTimeout \/ StaleArrives \/ Recover \/ Retry
  PROVE  ShellInv'
<1>1. CASE MountTimeout \/ StaleArrives
  <2>1. Flagged(page) /\ page' = Fails(page) /\ UNCHANGED <<host, private, worker, caches, precache, reloads>>
    BY <1>1 DEF MountTimeout, StaleArrives
  <2>2. stale' \in BOOLEAN /\ timedOut' \in BOOLEAN
    BY <1>1 DEF MountTimeout, StaleArrives, ShellInv, ShellTypes
  <2> QED BY <2>1, <2>2, FailsIsSound DEF ShellInv, ShellTypes, PageInv, WatchdogInv
<1>2. ASSUME Purged
      PROVE  /\ caches' \in [Builds -> Kept] /\ worker' \in Workers /\ page' \in Pages
             /\ precache' = {} /\ stale' = FALSE
             /\ page'.phase = "document" /\ ~page'.recovering /\ ~page'.diagnosed /\ ~page'.boot
             /\ stale' \in BOOLEAN
  <2>1. Empty \in Kept
    BY DEF Empty, Kept, None
  <2> QED BY <1>2, <2>1 DEF Purged, Workers, Pages, Loading, None
<1>3. CASE Recover
  BY <1>2, <1>3 DEF Recover, ShellInv, ShellTypes, PageInv, WatchdogInv, ReloadsOnce
<1>4. CASE Retry
  <2>1. flag' \in BOOLEAN /\ timedOut' \in BOOLEAN /\ private' = private /\ host' = host /\ reloads' = 0
    BY <1>4 DEF Retry
  <2>2. PageInv' /\ WatchdogInv'
    BY <1>2, <1>4, <2>1 DEF Retry, PageInv, WatchdogInv, ReloadsOnce
  <2> QED BY <1>2, <1>4, <2>1, <2>2 DEF Retry, ShellInv, ShellTypes
<1> QED BY <1>1, <1>3, <1>4

\* A person opens, leaves or closes the page, and the host comes and goes.
LEMMA OutsideSteps ==
  ASSUME ShellInv, Navigate \/ Close \/ HostGoes \/ HostComes
  PROVE  ShellInv'
<1>1. Loading \in Pages /\ Closed \in Pages
  BY DEF Loading, Closed, Pages, None, ShellInv, ShellTypes, Workers
<1>2. CASE Navigate
  <2>1. stale' \in BOOLEAN /\ timedOut' \in BOOLEAN
    BY <1>2 DEF Navigate
  <2>2. PageInv' /\ WatchdogInv'
    BY <1>1, <1>2 DEF Navigate, Loading, ShellInv, PageInv, WatchdogInv, ReloadsOnce
  <2> QED BY <1>1, <1>2, <2>1, <2>2 DEF Navigate, ShellInv, ShellTypes
<1>3. CASE Close
  <2>1. flag' \in BOOLEAN /\ stale' \in BOOLEAN /\ timedOut' \in BOOLEAN
    BY <1>3 DEF Close
  <2>2. PageInv' /\ WatchdogInv'
    BY <1>1, <1>3 DEF Close, Closed, Loading, PageInv, WatchdogInv, ReloadsOnce
  <2> QED BY <1>1, <1>3, <2>1, <2>2 DEF Close, ShellInv, ShellTypes
<1>4. CASE HostGoes \/ HostComes
  <2>1. host \in [up : BOOLEAN, build : Builds]
    BY DEF ShellInv, ShellTypes
  <2>2. host' = [host EXCEPT !.up = FALSE] \/ \E b \in Builds : host' = [up |-> TRUE, build |-> b]
    BY <1>4 DEF HostGoes, HostComes
  <2>3. TRUE \in BOOLEAN /\ FALSE \in BOOLEAN
    OBVIOUS
  <2>4. [host EXCEPT !.up = FALSE] \in [up : BOOLEAN, build : Builds]
    BY <2>1, <2>3
  <2>5. \A b \in Builds : [up |-> TRUE, build |-> b] \in [up : BOOLEAN, build : Builds]
    BY <2>3
  <2>6. host' \in [up : BOOLEAN, build : Builds]
    BY <2>2, <2>4, <2>5
  <2> QED BY <1>4, <2>6
          DEF HostGoes, HostComes, ShellInv, ShellTypes, PageInv, WatchdogInv, ReloadsOnce
<1> QED BY <1>2, <1>3, <1>4

\* Whoever controls the page keeps what came from the host.
LEMMA KeptByTheController ==
  ASSUME ShellInv
  PROVE  /\ page \in Pages /\ host.build \in Builds
         /\ page.controller # None => /\ page.controller \in Builds
                                      /\ caches[page.controller] \in Kept
BY DEF ShellInv, ShellTypes, Pages, None

LEMMA ReportIsSound ==
  ASSUME ShellInv, NEW w \in Builds
  PROVE  ReportStale(w) \in [Builds -> Kept]
BY DEF ReportStale, Kept, None, ShellInv, ShellTypes

LEMMA LoadingSteps ==
  ASSUME ShellInv, Document \/ BootScript
  PROVE  ShellInv'
<1>1. CASE DocumentFromHost
  <2>1. page' = [page EXCEPT !.phase = "boot", !.build = host.build]
    BY <1>1 DEF DocumentFromHost
  <2>2. page' \in Pages
    BY <2>1, KeptByTheController DEF Pages
  <2>3. [caches[page.controller] EXCEPT !.doc = host.build] \in Kept \/ page.controller = None
    BY KeptByTheController DEF Kept
  <2>4. caches' \in [Builds -> Kept]
    BY <1>1, <2>3, KeptByTheController, KeepIsSound DEF DocumentFromHost, ShellInv, ShellTypes
  <2>5. /\ page'.phase = "boot" /\ page'.build \in Builds
        /\ page'.recovering = page.recovering /\ page'.diagnosed = page.diagnosed
        /\ page'.settled = page.settled /\ page'.boot = page.boot
    BY <2>1, KeptByTheController DEF Pages
  <2>6. page.phase = "document"
    BY <1>1 DEF DocumentFromHost
  <2> QED BY <1>1, <2>2, <2>4, <2>5, <2>6
          DEF DocumentFromHost, ShellInv, ShellTypes, PageInv, WatchdogInv, ReloadsOnce
<1>2. CASE DocumentWithoutHost
  <2>1. \/ page' = [page EXCEPT !.phase = "offline"]
        \/ \E b \in Builds : page' = [page EXCEPT !.phase = "boot", !.build = b]
    BY <1>2, KeptByTheController DEF DocumentWithoutHost, Kept
  <2>2. /\ page' \in Pages /\ page'.phase \in {"offline", "boot"}
        /\ page'.phase = "boot" => page'.build \in Builds
        /\ page'.recovering = page.recovering /\ page'.diagnosed = page.diagnosed
        /\ page'.settled = page.settled /\ page'.boot = page.boot
    BY <2>1, KeptByTheController DEF Pages
  <2>3. page.phase = "document"
    BY <1>2 DEF DocumentWithoutHost
  <2> QED BY <1>2, <2>2, <2>3
          DEF DocumentWithoutHost, ShellInv, ShellTypes, PageInv, WatchdogInv, ReloadsOnce
<1>3. CASE BootScript
  <2>1. PICK has \in BOOLEAN : page' = [page EXCEPT !.phase = "module", !.module = "asked", !.boot = has]
    BY <1>3, KeptByTheController DEF BootScript, ShellInv, ShellTypes, Kept
  <2>2. page' \in Pages /\ page'.phase = "module" /\ page'.build = page.build /\ page'.recovering = page.recovering
        /\ page'.diagnosed = page.diagnosed /\ page'.settled = page.settled
        /\ page.phase = "boot"
    BY <1>3, <2>1, KeptByTheController DEF BootScript, Pages
  <2>3. [caches[page.controller] EXCEPT !.boot = TRUE] \in Kept \/ page.controller = None
    BY KeptByTheController DEF Kept
  <2>4. caches' \in [Builds -> Kept]
    BY <1>3, <2>3, KeptByTheController, KeepIsSound DEF BootScript, ShellInv, ShellTypes
  <2> QED BY <1>3, <2>2, <2>4
          DEF BootScript, ShellInv, ShellTypes, PageInv, WatchdogInv, ReloadsOnce
<1> QED BY <1>1, <1>2, <1>3 DEF Document

\* The module mounts or fails, and what a mounted screen then does.
LEMMA ScreenSteps ==
  ASSUME ShellInv, Module \/ Register \/ StartReceiver
  PROVE  ShellInv'
<1>1. CASE ModuleMounts
  <2>1. page' = [page EXCEPT !.phase = "mounted", !.module = "ran", !.settled = page.boot]
        /\ page.phase = "module"
    BY <1>1 DEF ModuleMounts
  <2>2. /\ page' \in Pages /\ page'.phase = "mounted" /\ page'.build = page.build
        /\ page'.recovering = page.recovering /\ page'.diagnosed = page.diagnosed
        /\ page'.settled = page.boot /\ page'.boot = page.boot
    BY <2>1, KeptByTheController DEF Pages
  <2>3. page.controller # None =>
          [caches[page.controller] EXCEPT !.module = @ \cup {page.build}] \in Kept
    BY <2>1, KeptByTheController DEF Kept, ShellInv, PageInv
  <2>4. caches' \in [Builds -> Kept]
    BY <1>1, <2>3, KeptByTheController, KeepIsSound DEF ModuleMounts, ShellInv, ShellTypes
  <2>5. flag' \in BOOLEAN
    BY <1>1 DEF ModuleMounts
  <2>6. PageInv'
    BY <2>1, <2>2 DEF ShellInv, PageInv
  <2>7. WatchdogInv'
    BY <1>1, <2>2 DEF ModuleMounts, ShellInv, WatchdogInv, ReloadsOnce
  <2> QED BY <1>1, <2>2, <2>4, <2>5, <2>6, <2>7 DEF ModuleMounts, ShellInv, ShellTypes
<1>2. CASE ModuleFails
  <2>1. Flagged(page) /\ page' = [Fails(page) EXCEPT !.module = "failed"]
        /\ UNCHANGED <<host, private, worker, precache, stale, reloads, timedOut>>
    BY <1>2 DEF ModuleFails
  <2>2. /\ page' \in Pages /\ page'.phase = Fails(page).phase /\ page'.build = Fails(page).build
        /\ page'.recovering = Fails(page).recovering /\ page'.diagnosed = Fails(page).diagnosed
        /\ page'.settled = Fails(page).settled /\ page'.boot = Fails(page).boot
    BY <2>1, FailsIsSound DEF Pages
  <2>3. PICK from : caches' = IF from = "gone" /\ page.controller # None
                              THEN ReportStale(page.controller) ELSE caches
    BY <1>2 DEF ModuleFails
  <2>4. caches' \in [Builds -> Kept]
    BY <2>3, KeptByTheController, ReportIsSound DEF ShellInv, ShellTypes
  <2> QED BY <2>1, <2>2, <2>4, FailsIsSound DEF ShellInv, ShellTypes, PageInv, WatchdogInv
<1>3. CASE Register
  <2>1. page' = [page EXCEPT !.registered = TRUE] /\ page.phase = "mounted"
    BY <1>3 DEF Register
  <2>2. /\ page' \in Pages /\ page'.phase = page.phase /\ page'.build = page.build
        /\ page'.recovering = page.recovering /\ page'.diagnosed = page.diagnosed
        /\ page'.settled = page.settled /\ page'.boot = page.boot
    BY <2>1, KeptByTheController DEF Pages
  <2>3. worker \in Workers /\ host.build \in Builds
    BY DEF ShellInv, ShellTypes
  <2>4. worker' \in Workers
    BY <1>3, <2>3 DEF Register, Workers
  <2>5. \A m \in precache' : m.to \in Builds /\ m.build \in Builds
    BY <1>3, <2>1, <2>3, KeptByTheController
       DEF Register, Posts, Workers, ShellInv, ShellTypes, PageInv, None, Builds
  <2> QED BY <1>3, <2>2, <2>4, <2>5
          DEF Register, ShellInv, ShellTypes, PageInv, WatchdogInv, ReloadsOnce
<1>4. CASE StartReceiver
  <2>1. page.phase = "mounted" /\ page.build \in Builds
    BY <1>4 DEF StartReceiver, ShellInv, PageInv
  <2>2. \E m \in {"chunk", "no chunk"} : page' = [page EXCEPT !.module = m]
    BY <1>4 DEF StartReceiver
  <2>3. /\ page' \in Pages /\ page'.phase = page.phase /\ page'.build = page.build
        /\ page'.recovering = page.recovering /\ page'.diagnosed = page.diagnosed
        /\ page'.settled = page.settled /\ page'.boot = page.boot
    BY <2>2, KeptByTheController DEF Pages
  <2>4. PICK from : caches' =
          IF page.controller = None THEN caches
          ELSE CASE from = "host" -> [caches EXCEPT ![page.controller].chunk = @ \cup {page.build}]
                 [] from = "gone" -> ReportStale(page.controller)
                 [] OTHER -> caches
    BY <1>4 DEF StartReceiver
  <2>5. caches' \in [Builds -> Kept]
    <3>1. caches \in [Builds -> Kept]
      BY DEF ShellInv, ShellTypes
    <3>2. page.controller # None => [caches EXCEPT ![page.controller].chunk = @ \cup {page.build}] \in [Builds -> Kept]
      BY <2>1, <3>1, KeptByTheController DEF Kept
    <3>3. page.controller # None => ReportStale(page.controller) \in [Builds -> Kept]
      BY KeptByTheController, ReportIsSound
    <3>4. CASE page.controller = None
      <4>1. caches' = caches
        BY <2>4, <3>4
      <4> QED BY <3>1, <4>1
    <3>5. CASE page.controller # None
      <4>1. caches' \in {caches, ReportStale(page.controller),
                         [caches EXCEPT ![page.controller].chunk = @ \cup {page.build}]}
        BY <2>4, <3>5
      <4> QED BY <3>1, <3>2, <3>3, <3>5, <4>1
    <3> QED BY <3>4, <3>5
  <2>6. stale' \in BOOLEAN
    BY <1>4 DEF StartReceiver
  <2> QED BY <1>4, <2>3, <2>5, <2>6
          DEF StartReceiver, ShellInv, ShellTypes, PageInv, WatchdogInv, ReloadsOnce
<1> QED BY <1>1, <1>2, <1>3, <1>4 DEF Module

LEMMA ShellKeeps == ShellInv /\ ShellNext => ShellInv'
BY WorkerSteps, WatchdogSteps, OutsideSteps, LoadingSteps, ScreenSteps DEF ShellNext

LEMMA ShellStays == ShellInv /\ UNCHANGED shellVars => ShellInv'
BY DEF shellVars, ShellInv, ShellTypes, PageInv, WatchdogInv, ReloadsOnce

-----------------------------------------------------------------------------
(* The monitor                                                              *)

\* A check leaves one probe that can be heard, and no timer.
LEMMA CheckIsSound ==
  ASSUME NEW m \in Monitors
  PROVE  /\ Check(m) \in Monitors
         /\ Check(m).running = m.running /\ ~Check(m).timer
         /\ \A p, q \in Check(m).probes : p.current /\ q.current => p = q
         /\ \E p \in Check(m).probes : p.current
<1> DEFINE old == {[p EXCEPT !.current = FALSE] : p \in m.probes}
           new == [current |-> TRUE, says |-> "asked"]
<1>1. \A p \in old : p \in Probes /\ ~p.current
  BY DEF Monitors, Probes
<1>2. new \in Probes /\ new.current
  BY DEF Probes
<1>3. Check(m) = [m EXCEPT !.timer = FALSE, !.probes = old \cup {new}]
  BY DEF Check
<1>4. Check(m).probes = old \cup {new} /\ ~Check(m).timer /\ Check(m).running = m.running
  BY <1>3 DEF Monitors
<1>5. Check(m) \in Monitors
  BY <1>1, <1>2, <1>3 DEF Monitors
<1> HIDE DEF old, new
<1> QED BY <1>1, <1>2, <1>4, <1>5

LEMMA MonitorKeeps ==
  ASSUME MonitorInv, MonitorStep
  PROVE  MonitorInv'
<1>1. NotMade \in Monitors /\ [NotMade EXCEPT !.running = TRUE] \in Monitors
  BY DEF NotMade, Monitors, Probes
<1>2. CASE StartMonitor \/ Refresh \/ TimerFires
  <2>1. PICK m \in Monitors : monitor' = Check(m)
    BY <1>1, <1>2 DEF StartMonitor, Refresh, TimerFires, MonitorInv
  <2> QED BY <2>1, CheckIsSound DEF MonitorInv, OneRound
<1>3. CASE StopMonitor
  <2> DEFINE old == {[p EXCEPT !.current = FALSE] : p \in monitor.probes}
  <2>1. \A p \in old : p \in Probes /\ ~p.current
    BY DEF MonitorInv, Monitors, Probes
  <2>2. monitor' = [monitor EXCEPT !.running = FALSE, !.timer = FALSE, !.probes = old]
    BY <1>3 DEF StopMonitor
  <2>3. monitor' \in Monitors /\ monitor'.probes = old /\ ~monitor'.running
    BY <2>1, <2>2 DEF MonitorInv, Monitors
  <2> HIDE DEF old
  <2> QED BY <2>1, <2>3 DEF MonitorInv, OneRound
<1>4. ASSUME NEW p \in monitor.probes, HostSaysYes(p) \/ GetsNoYes(p)
      PROVE  MonitorInv'
  <2>1. PICK what \in {"yes", "no"} : Says(p, what)
    BY <1>4 DEF HostSaysYes, GetsNoYes
  <2> DEFINE answered == [p EXCEPT !.says = what]
             after == (monitor.probes \ {p}) \cup {answered}
  <2>2. monitor \in Monitors /\ p \in Probes
    BY DEF MonitorInv, Monitors
  <2>3. answered \in Probes /\ answered.current = p.current
    BY <2>2 DEF Probes
  <2>4. monitor' = [monitor EXCEPT !.probes = after]
    BY <2>1 DEF Says
  <2>5. after \subseteq Probes
    BY <2>2, <2>3 DEF Monitors
  <2>6. monitor' \in Monitors /\ monitor'.probes = after
        /\ monitor'.running = monitor.running /\ monitor'.timer = monitor.timer
    BY <2>2, <2>4, <2>5 DEF Monitors
  <2> HIDE DEF answered
  <2>7. \A q, r \in after : q.current /\ r.current => q = r
    BY <2>3 DEF MonitorInv
  <2>8. (\E q \in after : q.current) <=> \E q \in monitor.probes : q.current
    BY <2>3
  <2> HIDE DEF after
  <2> QED BY <2>6, <2>7, <2>8 DEF MonitorInv, OneRound
<1>5. ASSUME NEW p \in monitor.probes, Hears(p)
      PROVE  MonitorInv'
  <2> DEFINE left == monitor.probes \ {p}
             rest == [monitor EXCEPT !.probes = left]
             status == IF p.says = "yes" THEN "ONLINE" ELSE "UNAVAILABLE"
  <2>1. monitor \in Monitors /\ left \subseteq monitor.probes
    BY DEF MonitorInv
  <2>2. monitor' = IF Counts(p) THEN Again([rest EXCEPT !.status = status], p.says = "yes") ELSE rest
    BY <1>5 DEF Hears
  <2>3. CASE Counts(p)
    <3>1. monitor' = [[rest EXCEPT !.status = status] EXCEPT !.timer = TRUE]
      BY <2>2, <2>3 DEF Again
    <3>2. monitor' \in Monitors /\ monitor'.probes = left /\ monitor'.timer
      BY <2>1, <3>1 DEF Monitors
    <3>3. ~\E q \in left : q.current
      BY <2>3 DEF Counts, MonitorInv
    <3> QED BY <2>1, <3>2, <3>3 DEF MonitorInv, OneRound
  <2>4. CASE ~Counts(p)
    <3>1. /\ monitor' \in Monitors /\ monitor'.probes = left
          /\ monitor'.running = monitor.running /\ monitor'.timer = monitor.timer
      BY <2>1, <2>2, <2>4 DEF Monitors
    <3>2. monitor.running => ~p.current
      BY <2>4 DEF Counts
    <3> QED BY <2>1, <3>1, <3>2 DEF MonitorInv, OneRound
  <2> QED BY <2>3, <2>4
<1> QED BY <1>2, <1>3, <1>4, <1>5 DEF MonitorStep

\* The page and its monitor at once.
LEMMA ReceiverKeeps == ReceiverInv /\ [Next]_vars => ReceiverInv'
<1> SUFFICES ASSUME ReceiverInv, [Next]_vars PROVE ReceiverInv'
  OBVIOUS
<1>1. ASSUME monitor' = monitor
      PROVE  MonitorInv'
  BY <1>1 DEF ReceiverInv, MonitorInv, OneRound
<1>2. CASE MonitorStep
  <2>1. UNCHANGED shellVars
    BY <1>2 DEF MonitorStep, StartMonitor, Refresh, TimerFires, StopMonitor,
                HostSaysYes, GetsNoYes, Says, Hears
  <2> QED BY <1>2, <2>1, ShellStays, MonitorKeeps DEF ReceiverInv
<1>3. CASE monitor = NotMade /\ ShellNext /\ UNCHANGED monitor
  BY <1>1, <1>3, ShellKeeps DEF ReceiverInv
<1>4. CASE monitor # NotMade /\ (Navigate \/ Close) /\ monitor' = NotMade
  <2>1. MonitorInv'
    BY <1>4 DEF NotMade, MonitorInv, Monitors, OneRound
  <2> QED BY <1>4, <2>1, OutsideSteps DEF ReceiverInv
<1>5. CASE monitor # NotMade /\ (HostGoes \/ HostComes) /\ UNCHANGED monitor
  BY <1>1, <1>5, OutsideSteps DEF ReceiverInv
<1>6. CASE UNCHANGED vars
  BY <1>1, <1>6, ShellStays DEF vars, ReceiverInv
<1> QED BY <1>2, <1>3, <1>4, <1>5, <1>6 DEF Next, ShellStep

LEMMA ReceiverHolds == Spec => []ReceiverInv
BY InitHolds, ReceiverKeeps, PTL DEF Spec

-----------------------------------------------------------------------------
\* Every page, cache, worker, message and probe is of its type, and a watchdog has done
\* one thing (boot.js, sw.js, main.tsx and host-status.ts).
THEOREM ShellTypeCorrect == Spec => []TypeOK
<1>1. ReceiverInv => TypeOK
  BY DEF ReceiverInv, ShellInv, ShellTypes, PageInv, MonitorInv, TypeOK, ShellTypeOK,
         Pages, Kept, Workers, Monitors, Probes
<1> QED BY <1>1, ReceiverHolds, PTL

\* No reload loop: a shell that does not come up is reloaded by its watchdog once at
\* most, and never where sessionStorage throws, whatever the caches hold, whichever
\* builds the host goes through and however often the page is opened (boot.js, fail()).
THEOREM ShellReloadsOnce == Spec => []ReloadsOnce
<1>1. ReceiverInv => ReloadsOnce
  BY DEF ReceiverInv, ShellInv, WatchdogInv
<1> QED BY <1>1, ReceiverHolds, PTL

\* The badge's monitor waits for one timer or one answer, never both and never neither
\* (host-status.ts, check(), refresh() and stop()): the part of ShellServes that is an
\* invariant.
THEOREM OneRoundAtATime == Spec => []OneRound
<1>1. ReceiverInv => OneRound
  BY DEF ReceiverInv, MonitorInv
<1> QED BY <1>1, ReceiverHolds, PTL
=============================================================================
