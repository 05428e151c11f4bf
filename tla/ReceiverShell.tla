---------------------------- MODULE ReceiverShell ----------------------------
(***************************************************************************)
(* How the phone's receiver comes up: the service worker of sw.js and its   *)
(* caches, the boot watchdog of boot.js, and main.tsx, which mounts the     *)
(* screen, registers the worker and hands it the list of what to keep.      *)
(*                                                                         *)
(* The desktop host (ReceiverHost) comes and goes and can come back with    *)
(* the next build; every build ships its own worker, with a cache of its    *)
(* own name (sw.js:21 numbers it by hand: two builds released under one     *)
(* number would share a cache, which is not modelled), and content-hashed   *)
(* assets that no other build serves.  A page can be opened, left and       *)
(* reloaded at any moment, and takes its document,                          *)
(* its boot script, its module and later the receive worker one after the   *)
(* other, each from the cache or from the host as sw.js decides.            *)
(***************************************************************************)
EXTENDS Naturals, Sequences

CONSTANT LastBuild  \* bound: the builds the host may serve, in the order they are published

ASSUME ReceiverShellAssumption == LastBuild \in Nat \ {0}

Builds == 1..LastBuild

VARIABLES
  host,      \* the build it serves, and whether it can be reached
  private,   \* sessionStorage throws
  flag,      \* RECOVERY_FLAG in this tab
  worker,    \* the registration: active and installing worker, and what the latter still fetches
  caches,    \* deqr-mobile-shell-v<n>, the cache of build n's worker
  page,      \* the tab
  precache,  \* PRECACHE_URLS messages: [to, build, chunk]
  stale,     \* DEQR_SHELL_STALE is on its way to the page
  reloads,   \* the watchdog's reloads of a shell that had not mounted, since it last did or a person navigated
  timedOut   \* MOUNT_TIMEOUT has fired since a person navigated

shellVars == <<host, private, flag, worker, caches, page, precache, stale, reloads, timedOut>>

None == 0   \* no build, no worker
Empty == [doc |-> None, boot |-> FALSE, module |-> {}, chunk |-> {}]

\* A page that asks for its document; who controls it is decided now.
Loading == [phase |-> "document", build |-> None, controller |-> worker.active, boot |-> FALSE,
            module |-> "unasked", settled |-> FALSE, recovering |-> FALSE, diagnosed |-> FALSE,
            registered |-> FALSE]
Closed == [Loading EXCEPT !.phase = "closed", !.controller = None]

----------------------------------------------------------------------------
(***************************************************************************)
(* What the host answers to a path (pwa-host.ts): its health, a file of the *)
(* build it serves, the shell for a route of the screen, or nothing.       *)
(*                                                                         *)
(* A request's URL is what the handler tells apart: whether it decodes, has *)
(* a NUL in it, stays in the directory once it is resolved, and ends in a   *)
(* slash; the parts of its path; and whether the last has an extension.     *)
(***************************************************************************)
HealthPath == <<"health">>
IndexFile  == [name |-> <<"index">>, extension |-> ".html"]

\* The build: its index, and an asset with the hash of build b in its name.
Asset(b) == [name |-> <<"assets", b>>, extension |-> ".js"]
FilesOf(b) == {IndexFile, Asset(b)}

\* isHealthProbe(): asked before any file is.
IsHealthProbe(url) ==
  url.decodes /\ ~url.nul /\ ~url.slash /\ url.name = HealthPath /\ url.extension = ""

\* resolveRequestedFile(): a path that ends in a slash asks for its index; {} is
\* one that names no place in the directory.
ResolveRequestedFile(url) ==
  IF ~url.decodes \/ url.nul \/ ~url.inside THEN {}
  ELSE IF url.slash THEN {[IndexFile EXCEPT !.name = url.name \o @]}
  ELSE {[name |-> url.name, extension |-> url.extension]}

\* (mutant) Whatever is missing is answered with the shell.
ReadOrShell(file, files) == IF file \in files THEN {file} ELSE {IndexFile} \cap files

\* The file that is read: only a path without an extension falls back to the shell.
ReadFor(file, files) ==
  CASE file \in files                              -> {file}
    [] file \notin files /\ file.extension = ""    -> {IndexFile} \cap files
    [] file \notin files /\ file.extension # ""    -> {}

\* contentTypeFor(): of the file that was read, whatever was asked for.
ContentTypes == [x \in {".html", ".js", ".json"} |->
                   CASE x = ".html" -> "text/html" [] x = ".js" -> "text/javascript"
                     [] x = ".json" -> "application/json"]
ContentTypeFor(extension) ==
  IF extension \in DOMAIN ContentTypes THEN ContentTypes[extension] ELSE "application/octet-stream"

\* An answer has a type when it is of something; one to HEAD has no body.
Reply(status, method, type, body, keep) ==
  [status |-> status, type |-> type, keep |-> keep, body |-> IF method = "HEAD" THEN {} ELSE body]
Refuse(status, method) == Reply(status, method, "none", {}, "no-cache")

ReplyWith(read, method) ==
  IF read = {} THEN Refuse(404, method)
  ELSE LET file == CHOOSE f \in read : TRUE
       IN  Reply(200, method, ContentTypeFor(file.extension), {file.name}, "no-cache")

\* handlePwaRequest(): every answer but that of the health probe may be kept and
\* asked about again.
HandleRequest(method, url, files) ==
  LET requested == ResolveRequestedFile(url)
  IN  CASE method \notin {"GET", "HEAD"} -> Refuse(405, method)
        [] method \in {"GET", "HEAD"} /\ IsHealthProbe(url) ->
             Reply(200, method, ContentTypeFor(".json"), {<<"marker">>}, "no-store")
        [] OTHER -> IF requested = {} THEN Refuse(400, method)
                    ELSE ReplyWith(UNION {ReadFor(file, files) : file \in requested}, method)

\* A request for a file, sound and plain.
Url(file) ==
  [decodes |-> TRUE, nul |-> FALSE, inside |-> TRUE, slash |-> FALSE,
   name |-> file.name, extension |-> file.extension]

\* The host answers a request for an asset of build b with it.
Serves(b) == host.up /\ HandleRequest("GET", Url(Asset(b)), FilesOf(host.build)).status = 200

----------------------------------------------------------------------------
(* The service worker                                                       *)

Keep(w, c) == caches' = [caches EXCEPT ![w] = c]

\* cacheFirst(): where a hashed asset comes from; "gone" is the host's 404, "error" no host.
AssetFrom(kept, b) ==
  IF page.controller # None /\ b \in kept THEN "cache"
  ELSE IF Serves(b) THEN "host"
  ELSE IF host.up THEN "gone" ELSE "error"

\* reportStaleShell(): the document that named a missing asset goes, and the page is told.
ReportStale(w) == [caches EXCEPT ![w].doc = None]

\* install: every entry of CORE on its own, and a worker that misses some is installed as well.
Install ==
  /\ worker.installing # None /\ worker.todo # {}
  /\ LET w == worker.installing
         entry == IF "doc" \in worker.todo THEN "doc" ELSE "boot"
         c == caches[w]
     IN /\ worker' = [worker EXCEPT !.todo = @ \ {entry}]
        /\ Keep(w, IF ~host.up THEN c
                   ELSE IF entry = "doc" THEN [c EXCEPT !.doc = host.build]
                   ELSE [c EXCEPT !.boot = TRUE])
  /\ UNCHANGED <<host, private, flag, page, precache, stale, reloads, timedOut>>

\* main.tsx's listener on controllerchange, registered before register() is called.
Posts(to) ==
  IF page.phase = "mounted" /\ to # None
  THEN precache \cup {[to |-> to, build |-> page.build, chunk |-> page.module = "chunk"]}
  ELSE precache
PostsOnControllerChange(to) == Posts(to)

\* activate: other builds' caches go, and the worker takes the page over.
Activate ==
  /\ worker.installing # None /\ worker.todo = {}
  /\ worker' = [active |-> worker.installing, installing |-> None, todo |-> {}]
  /\ caches' = [w \in Builds |-> IF w = worker.installing THEN caches[w] ELSE Empty]
  /\ page' = IF page.phase = "closed" THEN page ELSE [page EXCEPT !.controller = worker.installing]
  /\ precache' = PostsOnControllerChange(worker.installing)
  /\ UNCHANGED <<host, private, flag, stale, reloads, timedOut>>

\* message: the list of a page of build m.build, the document among it.
Precache ==
  \E m \in precache :
    /\ precache' = precache \ {m}
    /\ Keep(m.to, LET c == caches[m.to]
                      has == Serves(m.build)
                  IN IF ~host.up THEN c
                     ELSE [doc |-> host.build, boot |-> TRUE,
                           module |-> c.module \cup (IF has THEN {m.build} ELSE {}),
                           chunk |-> c.chunk \cup (IF has /\ m.chunk THEN {m.build} ELSE {})])
    /\ UNCHANGED <<host, private, flag, worker, page, stale, reloads, timedOut>>

----------------------------------------------------------------------------
(* boot.js                                                                  *)

\* fail(): one recovery, unless it was attempted or there is nowhere to remember it.
\* (mutant) A tab that cannot remember an attempt has not made one.
AttemptedIfRemembered == ~private /\ flag
Attempted == private \/ flag

\* (mutant) It does not remember that it has acted.
FailsUnsettled(p) == IF ~p.boot \/ p.settled THEN p ELSE [p EXCEPT !.recovering = ~Attempted, !.diagnosed = Attempted]
Fails(p) ==
  IF ~p.boot \/ p.settled THEN p
  ELSE [p EXCEPT !.settled = TRUE, !.recovering = ~Attempted, !.diagnosed = Attempted]
Flagged(p) == flag' = (flag \/ (p.boot /\ ~p.settled /\ ~Attempted))

\* MOUNT_DEADLINE_MS after boot.js ran.
MountTimeout ==
  /\ page.boot /\ ~page.settled
  /\ page' = Fails(page) /\ Flagged(page)
  /\ timedOut' = TRUE
  /\ UNCHANGED <<host, private, worker, caches, precache, stale, reloads>>

\* purge(), then reload.
Purged == /\ caches' = [w \in Builds |-> Empty]
          /\ worker' = [active |-> None, installing |-> None, todo |-> {}]
          /\ page' = [Loading EXCEPT !.controller = None]
          /\ precache' = {} /\ stale' = FALSE

Recover ==
  /\ page.recovering
  /\ Purged
  /\ reloads' = IF page.phase = "mounted" THEN 0 ELSE reloads + 1
  /\ UNCHANGED <<host, private, flag, timedOut>>

\* The diagnostic's "Clear cache and reload"; removeItem() throws first where there is no storage.
Retry ==
  /\ page.diagnosed /\ page.phase # "mounted" /\ ~private
  /\ Purged
  /\ flag' = FALSE /\ reloads' = 0 /\ timedOut' = FALSE
  /\ UNCHANGED <<host, private>>

----------------------------------------------------------------------------
(* The page                                                                 *)

\* A person opens the app, or reloads it once its fate is known; a page given up earlier is Closed.
Navigate ==
  /\ ~page.recovering
  /\ page.phase \in {"closed", "offline", "mounted"} \/ page.module = "failed" \/ page.diagnosed
  /\ page' = Loading
  /\ precache' = {} /\ stale' = FALSE /\ reloads' = 0 /\ timedOut' = FALSE
  /\ UNCHANGED <<host, private, flag, worker, caches>>

\* The tab is closed; its session storage goes with it.
Close ==
  /\ page.phase # "closed"
  /\ page' = Closed
  /\ flag' = FALSE /\ precache' = {} /\ stale' = FALSE /\ reloads' = 0 /\ timedOut' = FALSE
  /\ UNCHANGED <<host, private, worker, caches>>

\* documentStrategy(): the host's document, and it is kept; without a host the kept one.
DocumentFromHost ==
  /\ page.phase = "document" /\ host.up
  /\ page' = [page EXCEPT !.phase = "boot", !.build = host.build]
  /\ IF page.controller = None THEN UNCHANGED caches
     ELSE Keep(page.controller, [caches[page.controller] EXCEPT !.doc = host.build])
  /\ UNCHANGED <<host, private, flag, worker, precache, stale, reloads, timedOut>>

DocumentWithoutHost ==
  /\ page.phase = "document" /\ ~host.up
  /\ LET kept == IF page.controller = None THEN None ELSE caches[page.controller].doc
     IN page' = IF kept = None THEN [page EXCEPT !.phase = "offline"]
                ELSE [page EXCEPT !.phase = "boot", !.build = kept]
  /\ UNCHANGED <<host, private, flag, worker, caches, precache, stale, reloads, timedOut>>

\* (mutant) An earlier revision: the kept document first.
DocumentFromCache ==
  /\ page.phase = "document"
  /\ LET kept == IF page.controller = None THEN None ELSE caches[page.controller].doc
     IN page' = CASE kept # None -> [page EXCEPT !.phase = "boot", !.build = kept]
                  [] kept = None /\ host.up -> [page EXCEPT !.phase = "boot", !.build = host.build]
                  [] OTHER -> [page EXCEPT !.phase = "offline"]
  /\ UNCHANGED <<host, private, flag, worker, caches, precache, stale, reloads, timedOut>>

\* The classic script: kept, or from the host; without it there is no watchdog.
BootScript ==
  /\ page.phase = "boot"
  /\ LET kept == page.controller # None /\ caches[page.controller].boot
     IN /\ page' = [page EXCEPT !.phase = "module", !.module = "asked", !.boot = kept \/ host.up]
        /\ IF page.controller = None \/ ~host.up THEN UNCHANGED caches
           ELSE Keep(page.controller, [caches[page.controller] EXCEPT !.boot = TRUE])
  /\ UNCHANGED <<host, private, flag, worker, precache, stale, reloads, timedOut>>

\* The module mounts the screen, and with it the recovery is over, wherever the watchdog stood.
ModuleMounts ==
  /\ page.phase = "module" /\ page.module = "asked"
  /\ \E from \in {"cache", "host"} :
       /\ from = AssetFrom(IF page.controller = None THEN {} ELSE caches[page.controller].module, page.build)
       /\ IF page.controller = None \/ from = "cache" THEN UNCHANGED caches
          ELSE Keep(page.controller, [caches[page.controller] EXCEPT !.module = @ \cup {page.build}])
  /\ page' = [page EXCEPT !.phase = "mounted", !.module = "ran", !.settled = page.boot]
  /\ flag' = (flag /\ ~page.boot)
  /\ reloads' = 0
  /\ UNCHANGED <<host, private, worker, precache, stale, timedOut>>

\* Its element fires 'error', which the watchdog hears.
ModuleFails ==
  /\ page.phase = "module" /\ page.module = "asked"
  /\ \E from \in {"gone", "error"} :
       /\ from = AssetFrom(IF page.controller = None THEN {} ELSE caches[page.controller].module, page.build)
       /\ caches' = IF from = "gone" /\ page.controller # None THEN ReportStale(page.controller) ELSE caches
  /\ page' = [Fails(page) EXCEPT !.module = "failed"] /\ Flagged(page)
  /\ UNCHANGED <<host, private, worker, precache, stale, reloads, timedOut>>

\* register() once the screen is up: a host with another build installs its worker; without a host
\* what is registered stays, and the page posts its list to who controls it, or to the active worker.
Register ==
  /\ page.phase = "mounted" /\ ~page.registered
  /\ page' = [page EXCEPT !.registered = TRUE]
  /\ worker' = IF host.up /\ host.build \notin {worker.active, worker.installing}
               THEN [worker EXCEPT !.installing = host.build, !.todo = {"doc", "boot"}] ELSE worker
  /\ precache' = Posts(IF page.controller # None THEN page.controller ELSE worker.active)
  /\ UNCHANGED <<host, private, flag, caches, stale, reloads, timedOut>>

\* The first scan starts the receive worker, a chunk no element of the document names.
StartReceiver ==
  /\ page.phase = "mounted" /\ page.module = "ran"
  /\ LET from == AssetFrom(IF page.controller = None THEN {} ELSE caches[page.controller].chunk, page.build)
     IN /\ page' = [page EXCEPT !.module = IF from \in {"cache", "host"} THEN "chunk" ELSE "no chunk"]
        /\ caches' = IF page.controller = None THEN caches
                     ELSE CASE from = "host" -> [caches EXCEPT ![page.controller].chunk = @ \cup {page.build}]
                            [] from = "gone" -> ReportStale(page.controller)
                            [] OTHER -> caches
        /\ stale' = (stale \/ (from = "gone" /\ page.controller # None))
  /\ UNCHANGED <<host, private, flag, worker, precache, reloads, timedOut>>

\* main.tsx hears DEQR_SHELL_STALE and hands it to the watchdog.
StaleArrives ==
  /\ stale
  /\ stale' = FALSE
  /\ page' = Fails(page) /\ Flagged(page)
  /\ UNCHANGED <<host, private, worker, caches, precache, reloads, timedOut>>

----------------------------------------------------------------------------
(* The host, and the whole                                                  *)

HostGoes ==
  /\ host.up /\ host' = [host EXCEPT !.up = FALSE]
  /\ UNCHANGED <<private, flag, worker, caches, page, precache, stale, reloads, timedOut>>
HostComes ==
  /\ ~host.up /\ \E b \in Builds : b >= host.build /\ host' = [up |-> TRUE, build |-> b]
  /\ UNCHANGED <<private, flag, worker, caches, page, precache, stale, reloads, timedOut>>

ShellInit ==
  /\ host = [up |-> TRUE, build |-> 1] /\ private \in BOOLEAN /\ flag = FALSE
  /\ worker = [active |-> None, installing |-> None, todo |-> {}]
  /\ caches = [w \in Builds |-> Empty]
  /\ page = Closed
  /\ precache = {} /\ stale = FALSE /\ reloads = 0 /\ timedOut = FALSE

Document == DocumentFromHost \/ DocumentWithoutHost
Module == ModuleMounts \/ ModuleFails
ShellNext ==
  \/ Install \/ Activate \/ Precache \/ MountTimeout \/ Recover \/ Retry \/ Navigate \/ Close
  \/ Document \/ BootScript \/ Module \/ Register \/ StartReceiver \/ StaleArrives
  \/ HostGoes \/ HostComes

\* The browser goes on loading, the worker goes on with its events, a purge ends.
ShellFairness ==
  /\ WF_shellVars(Document) /\ WF_shellVars(BootScript) /\ WF_shellVars(Module) /\ WF_shellVars(Register)
  /\ WF_shellVars(Install) /\ WF_shellVars(Activate) /\ WF_shellVars(Precache) /\ WF_shellVars(Recover)

----------------------------------------------------------------------------
Mounted(b) == page.phase = "mounted" /\ page.build = b
OpensOffline(w) ==
  w # None /\ caches[w].doc # None /\ caches[w].boot /\ caches[w].doc \in caches[w].module

(* The type of the state: a page whose watchdog has acted is recovering or diagnosed, never both. *)
ShellTypeOK ==
  /\ host \in [up : BOOLEAN, build : Builds] /\ private \in BOOLEAN /\ flag \in BOOLEAN
  /\ worker \in [active : Builds \cup {None}, installing : Builds \cup {None}, todo : SUBSET {"doc", "boot"}]
  /\ caches \in [Builds -> [doc : Builds \cup {None}, boot : BOOLEAN, module : SUBSET Builds, chunk : SUBSET Builds]]
  /\ page.phase \in {"closed", "document", "offline", "boot", "module", "mounted"}
  /\ page.build \in Builds \cup {None} /\ page.controller \in Builds \cup {None}
  /\ ~(page.recovering /\ page.diagnosed) /\ (page.recovering \/ page.diagnosed => page.settled /\ page.boot)
  /\ \A m \in precache : m.to \in Builds /\ m.build \in Builds
  /\ stale \in BOOLEAN /\ reloads \in Nat /\ timedOut \in BOOLEAN

(* A shell that does not come up is reloaded once at most, not at all where nothing can be remembered      *)
(* (boot.js: "a persistent fault cannot become a reload loop").  A shell that mounts while its recovery is  *)
(* under way clears the flag and is reloaded all the same: such reloads are not counted.                   *)
ReloadsOnce == reloads <= IF private THEN 0 ELSE 1

(* No permanent white page: a page that is loaded while the host can be reached, and goes on being so with *)
(* the same build, mounts, whatever the caches held, unless the watchdog's deadline came first.            *)
HostMeansMounted ==
  \A b \in Builds :
    (page.phase = "document" /\ Serves(b)) ~> (page.phase \in {"mounted", "closed"} \/ ~Serves(b) \/ timedOut)

(* A screen that failed to load says so: the watchdog reloads or shows its diagnostic, unless the boot     *)
(* script itself could not be had.                                                                         *)
FailureIsShown ==
  (page.phase = "module") ~> (page.phase # "module" \/ page.diagnosed \/ ~page.boot)

(* The receiver opens without a host: a page that mounted while the host serves its build fills the cache  *)
(* of the worker that will answer the next launch, the upgrade to another worker included.                 *)
OfflineShellFills ==
  \A b \in Builds :
    (Mounted(b) /\ ~page.registered /\ Serves(b)) ~> (OpensOffline(worker.active) \/ ~Mounted(b) \/ ~Serves(b))

(* The shell comes up where it can, says so where it cannot, and keeps what it needs to do without a host. *)
ShellComesUp == HostMeansMounted /\ FailureIsShown /\ OfflineShellFills
----------------------------------------------------------------------------
(* What the host answers *)

HealthUrl == Url([name |-> HealthPath, extension |-> ""])
RootUrl   == [Url([name |-> <<>>, extension |-> ""]) EXCEPT !.slash = TRUE]
RouteUrl  == Url([name |-> <<"receive">>, extension |-> ""])

Unsound == {[url EXCEPT ![part] = ~@] : url \in {HealthUrl, RouteUrl, Url(Asset(1))},
                                        part \in {"decodes", "inside", "nul"}}

Urls ==
  {HealthUrl, RootUrl, RouteUrl, [RouteUrl EXCEPT !.slash = TRUE], [HealthUrl EXCEPT !.slash = TRUE],
   Url(IndexFile), Url(Asset(1)), Url(Asset(2))} \cup (Unsound \ {[HealthUrl EXCEPT !.inside = FALSE]})

SomeFiles == {{}, FilesOf(1), FilesOf(2), FilesOf(1) \cup {[name |-> HealthPath, extension |-> ""]}}

\* A phone can tell what it is given.  The host's health has its own marker,
\* never kept, whatever the directory holds, and nothing else has it; an asset
\* of another build is missing and not a document in its place, so that what a
\* worker keeps under a name is what the name says, and has its type; a route of
\* the screen is the shell wherever there is one; and what leaves the directory
\* is answered with nothing.
AnswersAreTold ==
  \A files \in SomeFiles : \A url \in Urls :
    LET got  == HandleRequest("GET", url, files)
        head == HandleRequest("HEAD", url, files)
    IN  /\ url = HealthUrl <=> got.body = {<<"marker">>}
        /\ url = HealthUrl <=> got.keep = "no-store"
        /\ url.extension # "" /\ got.status = 200 =>
             got.body = {url.name} /\ \E f \in files : f.name = url.name /\ got.type = ContentTypeFor(f.extension)
        /\ url \in {RootUrl, RouteUrl} /\ IndexFile \in files =>
             got.body = {IndexFile.name} /\ got.type = "text/html"
        /\ ~(url.decodes /\ url.inside /\ ~url.nul) => got.status = 400 /\ got.body = {}
        /\ head = [got EXCEPT !.body = {}]
        /\ HandleRequest("POST", url, files).status = 405
=============================================================================
