---------------------------- MODULE ReceiverHost ----------------------------
(***************************************************************************)
(* The desktop's publication of the phone receiver: pwa-host-lifecycle.ts,  *)
(* the HTTPS server and status store of pwa-host.ts, the certificate files  *)
(* of pwa-certificate.ts, and PwaHostCard.tsx, which shows the status and   *)
(* asks for start and stop over IPC.                                        *)
(*                                                                         *)
(* start() answers at once and goes on working; stop() answers when it is   *)
(* done.  The main process runs one macrotask at a time, so each action is  *)
(* what one of its macrotasks does, the microtasks that follow included.    *)
(* Every transition is pushed to the window, in order with the answers; the *)
(* card comes and goes with the dashboard.  The process can quit or be      *)
(* killed at any moment, and the certificate's two files outlive it.        *)
(***************************************************************************)
EXTENDS Naturals, Sequences

CONSTANTS Addresses,  \* the addresses this computer may have on its networks
          Supplies,   \* DEQR_HTTPS_CERT / DEQR_HTTPS_KEY: "none", "both" or "one" of them
          MaxQueue    \* bound: requests of the card and messages to it that are under way

ASSUME ReceiverHostAssumption ==
  /\ Supplies \subseteq {"none", "both", "one"}
  /\ MaxQueue \in Nat \ {0}

VARIABLES
  supplied,  \* what this computer's environment supplies, one of Supplies
  net,       \* the addresses collectLanAddresses() would find now
  files,     \* the certificate's files: what the certificate covers, and whether the key is its own
  inFlight,  \* "none", "start", "bind" (a start whose server is about to listen) or "stop"
  offer,     \* the addresses and the certificate of the start under way, or of the server
  host,      \* the lifecycle holds a RunningPwaHost
  sockets,   \* the servers that listen
  status,    \* currentStatus
  stops,     \* the callers whose stop() has not resolved: the card, or nobody that waits
  errored,   \* a listening server has raised 'error' in this process
  card,      \* PwaHostCard
  toMain,    \* its requests not yet handled
  toCard     \* pushes and answers not yet delivered

process == <<supplied, inFlight, offer, host, sockets, status, stops, errored>>
vars == <<net, files, process, card, toMain, toCard>>

Nothing == [covers |-> {}, paired |-> FALSE, present |-> FALSE]
NoOffer == [addresses |-> {}, certificate |-> Nothing]

Stopped == [state |-> "stopped", addresses |-> {}]
Starting == [Stopped EXCEPT !.state = "starting"]
\* (mutant) The failure is laid over the status there was.
FailedOverPrevious == [status EXCEPT !.state = "failed"]
Failed == [Stopped EXCEPT !.state = "failed"]
Running(addresses) == [state |-> "running", addresses |-> addresses]
Stopping(previous) == [previous EXCEPT !.state = "stopping"]

Unread == [Stopped EXCEPT !.state = "unread"]   \* the card's status is null
Away == [mounted |-> FALSE, shown |-> Unread, pending |-> "none"]

\* presentPwaHost(): what the button does, "none" while it is disabled.
Offered ==
  IF card.pending # "none" THEN "none"
  ELSE CASE card.shown.state \in {"stopped", "failed"} -> "start"
         [] card.shown.state = "running" -> "stop"
         [] OTHER -> "none"

Push(s) == [kind |-> "push", status |-> s]
Answer(s) == [kind |-> "answer", status |-> s]
Read(s) == [kind |-> "read", status |-> s]

\* What is sent by a macrotask: its transitions, then the answer to the card if it is the card's.
Pushes(statuses) == [i \in DOMAIN statuses |-> Push(statuses[i])]
Sends(statuses) == toCard' = toCard \o Pushes(statuses)

----------------------------------------------------------------------------
(* The lifecycle                                                            *)

\* start(): coalesced with what is under way, and with a server that runs.
Start(mine) ==
  IF inFlight # "none" \/ host
  THEN /\ toCard' = toCard \o (IF mine THEN <<Answer(status)>> ELSE <<>>)
       /\ UNCHANGED process
  ELSE /\ status' = Starting /\ inFlight' = "start"
       /\ toCard' = toCard \o <<Push(Starting)>> \o (IF mine THEN <<Answer(Starting)>> ELSE <<>>)
       /\ UNCHANGED <<supplied, offer, host, sockets, stops, errored>>

\* (mutant) stop() during a start finds no server and returns.
StopLooksOnce(caller) ==
  \/ /\ ~host
     /\ toCard' = toCard \o (IF caller = "card" THEN <<Answer(status)>> ELSE <<>>)
     /\ UNCHANGED <<inFlight, host, status, stops>>
  \/ /\ inFlight = "none" /\ host
     /\ status' = Stopping(status) /\ inFlight' = "stop" /\ host' = FALSE
     /\ stops' = stops \cup {caller}
     /\ Sends(<<Stopping(status)>>)

\* stop() when something is in flight waits for it; with no server it has nothing to do.
Stop(caller) ==
  \/ /\ inFlight # "none"
     /\ stops' = stops \cup {caller}
     /\ UNCHANGED <<inFlight, host, status, toCard>>
  \/ /\ inFlight = "none" /\ ~host
     /\ toCard' = toCard \o (IF caller = "card" THEN <<Answer(status)>> ELSE <<>>)
     /\ UNCHANGED <<inFlight, host, status, stops>>
  \/ /\ inFlight = "none" /\ host
     /\ status' = Stopping(status) /\ inFlight' = "stop" /\ host' = FALSE
     /\ stops' = stops \cup {caller}
     /\ Sends(<<Stopping(status)>>)

\* resolvePwaCertificate(): supplied, stored and still good for these addresses, or made anew.
\* (mutant)
UsableByDate(fresh) == files.present /\ fresh
Usable(fresh) == files.present /\ fresh /\ net \subseteq files.covers
Created == [covers |-> net, paired |-> TRUE, present |-> TRUE]
\* A key was written, the certificate beside it was not.
HalfWritten == [files EXCEPT !.paired = FALSE]

\* The runStart() that fails: no server, and the stops that waited find nothing to stop.
StartFails ==
  /\ inFlight' = "none" /\ offer' = NoOffer /\ status' = Failed /\ stops' = {}
  /\ toCard' = toCard \o <<Push(Failed)>> \o (IF "card" \in stops THEN <<Answer(Failed)>> ELSE <<>>)
  /\ UNCHANGED <<host, sockets, errored>>

\* After the deferral: addresses, certificate, and https.createServer(), which refuses a foreign key.
Sign ==
  /\ inFlight = "start"
  /\ UNCHANGED <<supplied, net, card, toMain>>
  /\ \E fresh \in BOOLEAN :
       LET kept == supplied = "none" /\ Usable(fresh)
           certificate == CASE supplied = "both" -> [covers |-> {}, paired |-> TRUE, present |-> TRUE]
                            [] kept -> files
                            [] OTHER -> Created
       IN /\ files' = IF supplied = "none" /\ ~kept THEN Created ELSE files
          /\ \/ /\ supplied # "one" /\ certificate.paired
                /\ inFlight' = "bind"
                /\ offer' = [addresses |-> net, certificate |-> certificate]
                /\ UNCHANGED <<host, sockets, status, stops, errored, toCard>>
             \/ /\ supplied = "one" \/ ~certificate.paired
                /\ StartFails

\* server.listen() fails: the port is taken, by another program or by a server of our own.
BindFails ==
  /\ inFlight = "bind"
  /\ StartFails
  /\ UNCHANGED <<supplied, net, files, card, toMain>>

\* It listens: the server is handed over, and a stop that waited stops it in the same breath.
Binds ==
  /\ inFlight = "bind" /\ sockets = 0
  /\ sockets' = sockets + 1
  /\ LET running == Running(offer.addresses)
     IN IF stops = {}
        THEN /\ host' = TRUE /\ inFlight' = "none" /\ status' = running
             /\ Sends(<<running>>)
        ELSE /\ host' = FALSE /\ inFlight' = "stop" /\ status' = Stopping(running)
             /\ Sends(<<running, Stopping(running)>>)
  /\ UNCHANGED <<supplied, net, files, offer, stops, errored, card, toMain>>

\* close() has let every connection go.
Closes ==
  /\ inFlight = "stop"
  /\ sockets' = sockets - 1 /\ offer' = NoOffer
  /\ inFlight' = "none" /\ status' = Stopped /\ stops' = {}
  /\ toCard' = toCard \o <<Push(Stopped)>> \o (IF "card" \in stops THEN <<Answer(Stopped)>> ELSE <<>>)
  /\ UNCHANGED <<supplied, net, files, host, errored, card, toMain>>

\* 'error' on a server that listens: the status fails, the server and its handle stay.
ServerError ==
  /\ sockets > 0 /\ status.state = "running"
  /\ status' = Failed /\ errored' = TRUE
  /\ Sends(<<Failed>>)
  /\ UNCHANGED <<supplied, net, files, inFlight, offer, host, sockets, stops, card, toMain>>

\* before-quit: stop() is called, and not awaited.
Quit ==
  /\ "nobody" \notin stops /\ Stop("nobody")
  /\ UNCHANGED <<supplied, net, files, offer, sockets, errored, card, toMain>>

\* The process ends, also between the two writes of a new certificate; it is started again.
ProcessEnds ==
  /\ files' \in {files} \cup (IF inFlight = "start" /\ supplied = "none" THEN {HalfWritten} ELSE {})
  /\ inFlight' = "none" /\ offer' = NoOffer /\ host' = FALSE /\ sockets' = 0
  /\ status' = Stopped /\ stops' = {} /\ errored' = FALSE
  /\ card' = Away /\ toMain' = <<>> /\ toCard' = <<>>
  /\ UNCHANGED <<supplied, net>>

\* A Wi-Fi or a tailnet comes or goes.
NetworkChanges ==
  /\ net' \in SUBSET Addresses \ {net}
  /\ UNCHANGED <<files, process, card, toMain, toCard>>

----------------------------------------------------------------------------
(* The card                                                                 *)

Asks(ask) == toMain' = Append(toMain, [ask |-> ask, mine |-> TRUE])

\* The effect subscribes, then reads.
Mount ==
  /\ ~card.mounted /\ Len(toMain) < MaxQueue
  /\ card' = [Away EXCEPT !.mounted = TRUE]
  /\ Asks("status")
  /\ UNCHANGED <<net, files, process, toCard>>

\* Of what is on its way to a card that goes, the pushes: the next card hears them.
PushesAmong(messages) ==
  LET kept[i \in 0..Len(messages)] ==
        IF i = 0 THEN <<>>
        ELSE IF messages[i].kind = "push" THEN Append(kept[i - 1], messages[i]) ELSE kept[i - 1]
  IN  kept[Len(messages)]

\* What the card asked for goes on; the answers have nobody to go to.
Unmount ==
  /\ card.mounted
  /\ card' = Away
  /\ toMain' = [i \in DOMAIN toMain |-> [toMain[i] EXCEPT !.mine = FALSE]]
  /\ toCard' = PushesAmong(toCard)
  /\ stops' = IF "card" \in stops THEN {"nobody"} ELSE stops
  /\ UNCHANGED <<supplied, net, files, inFlight, offer, host, sockets, status, errored>>

\* runAction(): the optimistic state first, then the request.
Press ==
  /\ card.mounted /\ Offered # "none"
  /\ Len(toMain) < MaxQueue /\ Len(toCard) < MaxQueue
  /\ card' = [card EXCEPT !.pending = IF Offered = "start" THEN "starting" ELSE "stopping"]
  /\ Asks(Offered)
  /\ UNCHANGED <<net, files, process, toCard>>

\* Main handles a request.
Handle ==
  /\ toMain # <<>>
  /\ toMain' = Tail(toMain)
  /\ LET m == Head(toMain)
     IN \/ /\ m.ask = "status"
           /\ toCard' = toCard \o (IF m.mine THEN <<Read(status)>> ELSE <<>>)
           /\ UNCHANGED process
        \/ m.ask = "start" /\ Start(m.mine)
        \/ /\ m.ask = "stop" /\ Stop(IF m.mine THEN "card" ELSE "nobody")
           /\ UNCHANGED <<supplied, offer, sockets, errored>>
  /\ UNCHANGED <<supplied, net, files, card>>

\* A push that settles the host clears the optimistic state; an answer does not.
Shows(m) ==
  [card EXCEPT !.shown = m.status,
               !.pending = IF m.kind = "push" /\ m.status.state \in {"running", "stopped", "failed"}
                           THEN "none" ELSE @]

Deliver ==
  /\ toCard # <<>>
  /\ toCard' = Tail(toCard)
  /\ card' = IF card.mounted THEN Shows(Head(toCard)) ELSE card
  /\ UNCHANGED <<net, files, process, toMain>>

----------------------------------------------------------------------------
Init ==
  /\ supplied \in Supplies /\ net \in SUBSET Addresses
  /\ files = Nothing
  /\ inFlight = "none" /\ offer = NoOffer /\ host = FALSE /\ sockets = 0
  /\ status = Stopped /\ stops = {} /\ errored = FALSE
  /\ card = Away /\ toMain = <<>> /\ toCard = <<>>

Next == Sign \/ BindFails \/ Binds \/ Closes \/ Handle \/ ServerError \/ Quit \/ ProcessEnds \/ NetworkChanges
          \/ Mount \/ Unmount \/ Press \/ Deliver

\* A macrotask that is due runs, a server listens or fails to, and a message arrives.
Fairness == WF_vars(Sign) /\ WF_vars(BindFails \/ Binds) /\ WF_vars(Closes) /\ WF_vars(Handle) /\ WF_vars(Deliver)
Spec == Init /\ [][Next]_vars /\ Fairness

----------------------------------------------------------------------------
Certificates == [covers : SUBSET Addresses, paired : BOOLEAN, present : BOOLEAN]
Statuses == [state : {"unread", "stopped", "starting", "running", "stopping", "failed"},
             addresses : SUBSET Addresses]

(* The type of the state; a status lists addresses only while there is, or is about to be no longer, *)
(* a server at them (the five factories of pwa-host.ts).                                              *)
TypeOK ==
  /\ supplied \in Supplies /\ net \subseteq Addresses /\ files \in Certificates
  /\ inFlight \in {"none", "start", "bind", "stop"} /\ host \in BOOLEAN /\ sockets \in 0..1
  /\ offer \in [addresses : SUBSET Addresses, certificate : Certificates]
  /\ status \in Statuses /\ (status.addresses # {} => status.state \in {"running", "stopping"})
  /\ stops \subseteq {"card", "nobody"} /\ errored \in BOOLEAN
  /\ card.mounted \in BOOLEAN /\ card.shown \in Statuses
  /\ card.pending \in {"none", "starting", "stopping"}
  /\ \A i \in DOMAIN toMain : toMain[i].ask \in {"status", "start", "stop"}
  /\ \A i \in DOMAIN toCard : toCard[i].status \in Statuses

(* No server listens that nobody can close: there is a handle for it or the operation that closes it is *)
(* under way, and whoever waits for a stop waits for something (pwa-host-lifecycle.ts: "leaving an       *)
(* unreachable listening socket").                                                                        *)
NothingUnreachable ==
  /\ sockets > 0 => host \/ inFlight = "stop"
  /\ stops # {} => inFlight # "none"

(* An address the desktop advertises has a server behind it, with a key that is its certificate's own,   *)
(* and a certificate that was not supplied from outside covers every one of them, whatever was left in    *)
(* the certificate's files and whatever became of the network since the last start.                       *)
AdvertisedIsServed ==
  status.state = "running" =>
    /\ sockets = 1 /\ host /\ status.addresses = offer.addresses
    /\ offer.certificate.paired
    /\ supplied = "none" => status.addresses \subseteq offer.certificate.covers

(* When a stop() resolves, at once or later, nothing listens and nothing is about to, whatever start it    *)
(* met on its way (stop() chains where start() coalesces).                                                 *)
Idle == sockets = 0 /\ ~host /\ inFlight = "none"
StopHolds ==
  [][/\ stops # {} /\ stops' = {} => Idle'
     /\ (toMain # <<>> /\ toMain' = Tail(toMain) /\ Head(toMain).ask = "stop") => stops' # {} \/ Idle']_vars

(* A card that has heard everything shows the host's state: no transition is lost between subscribing     *)
(* and reading, and no answer to an earlier question is left over a later transition.                     *)
CardAgrees ==
  card.mounted /\ toMain = <<>> /\ toCard = <<>> => card.shown = status

(* A button that says Starting or Stopping says so until the operation is over, as long as no server      *)
(* failed after it had started; and every stop() resolves.                                                *)
Settles ==
  /\ (card.pending # "none") ~> (card.pending = "none" \/ errored)
  /\ (stops # {}) ~> (stops = {})

(* What the screens say of the server is so, and nothing runs that they do not speak of. *)
HostIsAsShown == NothingUnreachable /\ AdvertisedIsServed /\ CardAgrees

(* Both buttons do what they say, in the end and for good. *)
PressesTakeEffect == StopHolds /\ Settles
=============================================================================
