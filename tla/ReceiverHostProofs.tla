------------------------- MODULE ReceiverHostProofs -------------------------
(***************************************************************************)
(* The desktop's receiver host: its lifecycle, its certificate on disk and *)
(* the card that shows it, for any set of addresses and however starts,    *)
(* stops, failures of the server, crashes and changes of the network fall. *)
(*                                                                         *)
(* HostIsAsShown relates status, server and card and is not inductive: a   *)
(* server is offered while it binds, so the certificate must be its key's  *)
(* and cover it from then on (OfferInv), a socket is somebody's            *)
(* (ServerInv), and a card that shows another status has the answer or the *)
(* push still to come (CardInv).  PushesAmong() is a function on the       *)
(* naturals: that it yields messages is shown of its least length where it *)
(* would not.                                                              *)
(***************************************************************************)
EXTENDS ReceiverHost, TLAPS, WellFoundedInduction

Requests == [ask : {"status", "start", "stop"}, mine : BOOLEAN]
Messages == [kind : {"push", "answer", "read"}, status : Statuses]
Cards == [mounted : BOOLEAN, shown : Statuses, pending : {"none", "starting", "stopping"}]

ServerInv ==
  /\ host => inFlight = "none"
  /\ sockets = IF host \/ inFlight = "stop" THEN 1 ELSE 0
  /\ stops # {} => inFlight # "none"

OfferInv ==
  /\ inFlight = "bind" \/ host =>
       /\ offer.certificate.paired
       /\ supplied = "none" => offer.addresses \subseteq offer.certificate.covers
  /\ status.state = "running" => host /\ status.addresses = offer.addresses

CardInv ==
  card.mounted =>
    \/ \E i \in DOMAIN toMain : toMain[i].ask = "status" /\ toMain[i].mine
    \/ status = IF toCard = <<>> THEN card.shown ELSE toCard[Len(toCard)].status

\* The types of all that the card has no part in.
HostTypes ==
  /\ supplied \in Supplies /\ net \subseteq Addresses /\ files \in Certificates
  /\ inFlight \in {"none", "start", "bind", "stop"} /\ host \in BOOLEAN /\ sockets \in 0..1
  /\ offer \in [addresses : SUBSET Addresses, certificate : Certificates]
  /\ status \in Statuses /\ (status.addresses # {} => status.state \in {"running", "stopping"})
  /\ stops \subseteq {"card", "nobody"} /\ errored \in BOOLEAN

HostInv ==
  /\ HostTypes /\ toMain \in Seq(Requests) /\ toCard \in Seq(Messages) /\ card \in Cards
  /\ ServerInv /\ OfferInv /\ CardInv

-----------------------------------------------------------------------------
\* The step of PushesAmong().
Step(messages, f, i) ==
  IF i = 0 THEN <<>>
  ELSE IF messages[i].kind = "push" THEN Append(f[i - 1], messages[i]) ELSE f[i - 1]

\* A set of natural numbers that is not empty has a least element.
LEMMA LeastOfNaturals ==
  ASSUME NEW N \in SUBSET Nat, N # {}
  PROVE  \E n \in N : \A m \in N : n <= m
<1> DEFINE R == {ss \in Nat \X Nat : ss[1] < ss[2]}
<1>1. IsWellFoundedOn(R, Nat)
  BY NatLessThanWellFounded DEF OpToRel
<1>2. PICK n \in N : \A m \in N : ~(<<m, n>> \in R)
  <2> HIDE DEF R
  <2> QED BY <1>1, WFMin
<1>3. \A m \in N : m \in Nat /\ n \in Nat /\ ~(m < n)
  BY <1>2
<1> QED BY <1>3

\* PushesAmong() is a sequence of messages, of those it is given.
LEMMA PushesAreMessages ==
  ASSUME NEW messages \in Seq(Messages)
  PROVE  PushesAmong(messages) \in Seq(Messages)
<1> DEFINE L == Len(messages)
           Good(n, f) == /\ f \in [0..n -> Seq(Messages)]
                         /\ \A i \in 0..n : f[i] = Step(messages, f, i)
           Bad == {n \in 0..L : ~\E f : Good(n, f)}
           kept == CHOOSE f : f = [i \in 0..L |-> Step(messages, f, i)]
<1>1. L \in Nat /\ \A i \in 1..L : messages[i] \in Messages
  OBVIOUS
<1>2. Good(0, [i \in 0..0 |-> <<>>])
  <2>1. <<>> \in Seq(Messages)
    OBVIOUS
  <2>2. 0..0 = {0}
    OBVIOUS
  <2> QED BY <2>1, <2>2 DEF Step
<1>3. ASSUME NEW n \in 1..L, NEW g, Good(n - 1, g)
      PROVE  \E f : Good(n, f)
  <2> DEFINE next == IF messages[n].kind = "push" THEN Append(g[n - 1], messages[n]) ELSE g[n - 1]
             f == [i \in 0..n |-> IF i = n THEN next ELSE g[i]]
  <2>1. n \in Nat /\ n - 1 \in 0..(n - 1) /\ \A i \in 0..n : i # n => i \in 0..(n - 1)
    BY <1>1
  <2>2. next \in Seq(Messages)
    BY <1>1, <1>3, <2>1
  <2>3. f \in [0..n -> Seq(Messages)]
    BY <1>3, <2>1, <2>2
  <2>4. ASSUME NEW i \in 0..n, i # n
        PROVE  f[i] = Step(messages, f, i)
    <3>1. f[i] = g[i] /\ g[i] = Step(messages, g, i)
      BY <1>3, <2>1, <2>4
    <3>2. i # 0 => i - 1 \in 0..n /\ i - 1 # n
      BY <2>1
    <3> QED BY <3>1, <3>2 DEF Step
  <2>5. f[n] = Step(messages, f, n)
    <3>1. f[n] = next /\ f[n - 1] = g[n - 1] /\ n # 0
      BY <2>1
    <3> QED BY <3>1 DEF Step
  <2>6. Good(n, f)
    BY <2>3, <2>4, <2>5
  <2> QED BY <2>6
<1>4. \E f : Good(L, f)
  <2> SUFFICES ASSUME ~\E f : Good(L, f) PROVE FALSE
    OBVIOUS
  <2> HIDE DEF Good
  <2>1. Bad \in SUBSET Nat /\ Bad # {}
    BY <1>1
  <2>2. PICK n \in Bad : \A m \in Bad : n <= m
    BY <2>1, LeastOfNaturals
  <2>3. n # 0 /\ n \in 1..L
    BY <1>1, <1>2, <2>2
  <2>4. n - 1 \in 0..L /\ ~(n <= n - 1)
    BY <1>1, <2>3
  <2>5. n - 1 \notin Bad
    BY <2>2, <2>4
  <2>6. PICK g : Good(n - 1, g)
    BY <2>4, <2>5
  <2> QED BY <1>3, <2>2, <2>3, <2>6
<1>5. PICK f : Good(L, f)
  BY <1>4
<1>6. f = [i \in 0..L |-> Step(messages, f, i)]
  BY <1>5
<1>7. kept = [i \in 0..L |-> Step(messages, kept, i)]
  BY <1>6
<1>8. ASSUME NEW i \in 0..L PROVE kept[i] \in Seq(Messages)
  <2> DEFINE Ill == {j \in 0..L : kept[j] \notin Seq(Messages)}
  <2> SUFFICES ASSUME Ill # {} PROVE FALSE
    OBVIOUS
  <2> HIDE DEF kept
  <2>1. Ill \in SUBSET Nat
    BY <1>1
  <2>2. PICK j \in Ill : \A m \in Ill : j <= m
    BY <2>1, LeastOfNaturals
  <2>3. kept[j] = Step(messages, kept, j)
    BY <1>7, <2>2
  <2>4. j # 0
    <3>1. <<>> \in Seq(Messages)
      OBVIOUS
    <3> QED BY <2>2, <2>3, <3>1 DEF Step
  <2>5. j \in 1..L /\ j - 1 \in 0..L /\ ~(j <= j - 1)
    BY <1>1, <2>2, <2>4
  <2>6. kept[j - 1] \in Seq(Messages) /\ messages[j] \in Messages
    BY <1>1, <2>2, <2>5
  <2>7. kept[j] \in Seq(Messages)
    BY <2>3, <2>4, <2>6 DEF Step
  <2> QED BY <2>2, <2>7
<1>9. PushesAmong(messages) = kept[L]
  BY DEF PushesAmong, Step
<1> QED BY <1>1, <1>8, <1>9

-----------------------------------------------------------------------------
LEMMA StatusTypes ==
  /\ Stopped \in Statuses /\ Stopped.addresses = {} /\ Stopped.state = "stopped"
  /\ Starting \in Statuses /\ Starting.addresses = {} /\ Starting.state = "starting"
  /\ Failed \in Statuses /\ Failed.addresses = {} /\ Failed.state = "failed"
  /\ Unread \in Statuses
<1> QED BY DEF Stopped, Starting, Failed, Unread, Statuses

LEMMA RestTypes ==
  /\ Nothing \in Certificates
  /\ NoOffer \in [addresses : SUBSET Addresses, certificate : Certificates]
  /\ Away \in Cards /\ ~Away.mounted
<1> QED BY StatusTypes DEF Nothing, NoOffer, Certificates, Away, Cards

LEMMA RunningTypes ==
  /\ \A addresses \in SUBSET Addresses :
       /\ Running(addresses) \in Statuses /\ Running(addresses).state = "running"
       /\ Running(addresses).addresses = addresses
  /\ \A s \in Statuses : Stopping(s) \in Statuses /\ Stopping(s).state = "stopping"
<1> QED BY DEF Running, Stopping, Statuses

LEMMA MessageTypes ==
  ASSUME NEW s \in Statuses
  PROVE  /\ Push(s) \in Messages /\ Answer(s) \in Messages /\ Read(s) \in Messages
         /\ Push(s).status = s /\ Answer(s).status = s /\ Read(s).status = s
<1> QED BY DEF Push, Answer, Read, Messages

\* What is sent to the card ends with the status there is now.
Tells(told) ==
  /\ told \in Seq(Messages) /\ told # <<>>
  /\ told[Len(told)].status = status'

LEMMA OneTold ==
  ASSUME NEW m \in Messages, m.status = status'
  PROVE  Tells(<<m>>) /\ Tells(<<m>> \o <<>>)
<1> QED BY DEF Tells

LEMMA TwoTold ==
  ASSUME NEW m \in Messages, NEW n \in Messages, n.status = status'
  PROVE  Tells(<<m, n>>) /\ Tells(<<m>> \o <<n>>)
<1>1. <<m>> \in Seq(Messages) /\ <<n>> \in Seq(Messages) /\ Len(<<m>>) = 1 /\ Len(<<n>>) = 1
  OBVIOUS
<1>2. <<m, n>> \in Seq(Messages) /\ Len(<<m, n>>) = 2 /\ <<m, n>>[2] = n
  OBVIOUS
<1>3. LET s == <<m>> \o <<n>>
      IN  s \in Seq(Messages) /\ Len(s) = 2 /\ s[2] = n
  BY <1>1
<1>4. <<m, n>> # <<>> /\ <<m>> \o <<n>> # <<>>
  BY <1>2, <1>3
<1> QED BY <1>2, <1>3, <1>4 DEF Tells

LEMMA PushesTold ==
  /\ \A s \in Statuses : Pushes(<<s>>) = <<Push(s)>>
  /\ \A s, t \in Statuses : Pushes(<<s, t>>) = <<Push(s), Push(t)>>
<1> QED BY DEF Pushes

\* The card's own question of the status is under way.
Asked == \E i \in DOMAIN toMain : toMain[i].ask = "status" /\ toMain[i].mine

\* A card that is told of every transition stays right.
LEMMA ToldIsRight ==
  ASSUME HostInv, NEW told, Tells(told), toCard' = toCard \o told, UNCHANGED card
  PROVE  toCard' \in Seq(Messages) /\ CardInv'
<1>1. toCard \in Seq(Messages) /\ told \in Seq(Messages) /\ told # <<>>
  BY DEF HostInv, Tells
<1>2. toCard' \in Seq(Messages) /\ toCard' # <<>> /\ toCard'[Len(toCard')] = told[Len(told)]
  BY <1>1
<1> QED BY <1>2 DEF CardInv, Tells

\* ... and so does one that is told nothing when nothing happens.
LEMMA SilenceIsRight ==
  ASSUME HostInv, UNCHANGED <<card, toCard, status>>, Asked => Asked'
  PROVE  toCard' \in Seq(Messages) /\ CardInv'
<1> QED BY DEF HostInv, CardInv, Asked

\* The answers that are due when a stop is over follow its push.
LEMMA EndIsTold ==
  ASSUME HostInv, NEW s \in Statuses, status' = s, UNCHANGED card,
         toCard' = toCard \o <<Push(s)>> \o (IF "card" \in stops THEN <<Answer(s)>> ELSE <<>>)
  PROVE  toCard' \in Seq(Messages) /\ CardInv'
<1> DEFINE told == <<Push(s)>> \o (IF "card" \in stops THEN <<Answer(s)>> ELSE <<>>)
<1>1. Push(s) \in Messages /\ Answer(s) \in Messages /\ Push(s).status = s /\ Answer(s).status = s
  BY MessageTypes
<1>2. Tells(told)
  <2>1. CASE "card" \in stops
    BY <1>1, <2>1, TwoTold
  <2>2. CASE "card" \notin stops
    BY <1>1, <2>2, OneTold
  <2> QED BY <2>1, <2>2
<1>3. toCard' = toCard \o told
  BY <1>1 DEF HostInv
<1> QED BY <1>2, <1>3, ToldIsRight

LEMMA HostIsTyped == HostInv => TypeOK
<1> SUFFICES ASSUME HostInv PROVE TypeOK
  OBVIOUS
<1>1. /\ card.mounted \in BOOLEAN /\ card.shown \in Statuses
      /\ card.pending \in {"none", "starting", "stopping"}
  BY DEF HostInv, Cards
<1>2. \A i \in DOMAIN toMain : toMain[i].ask \in {"status", "start", "stop"}
  <2>1. \A i \in DOMAIN toMain : toMain[i] \in Requests
    BY DEF HostInv
  <2> QED BY <2>1 DEF Requests
<1>3. \A i \in DOMAIN toCard : toCard[i].status \in Statuses
  <2>1. \A i \in DOMAIN toCard : toCard[i] \in Messages
    BY DEF HostInv
  <2> QED BY <2>1 DEF Messages
<1> QED BY <1>1, <1>2, <1>3 DEF HostInv, HostTypes, TypeOK

\* StartFails: no server, nobody waits, and the failure is told.
LEMMA FailsHost ==
  ASSUME HostInv, inFlight \in {"start", "bind"}, StartFails,
         UNCHANGED <<supplied, net, card, toMain>>, files' \in Certificates
  PROVE  HostInv'
<1>0. HostTypes /\ ServerInv
  BY DEF HostInv
<1>1. HostTypes'
  BY <1>0, StatusTypes, RestTypes DEF HostTypes, StartFails
<1>2. toCard' \in Seq(Messages) /\ CardInv'
  BY StatusTypes, EndIsTold DEF StartFails
<1>3. ServerInv' /\ OfferInv'
  BY <1>0, StatusTypes DEF ServerInv, OfferInv, StartFails, HostTypes
<1> QED BY <1>1, <1>2, <1>3 DEF HostInv

\* start(), and stop(), asked for by whomever.
LEMMA StartHost ==
  ASSUME HostInv, NEW mine \in BOOLEAN, Start(mine), Asked => Asked',
         UNCHANGED <<net, files, card>>, toMain' \in Seq(Requests)
  PROVE  HostInv'
<1> USE DEF process
<1>0. HostTypes /\ ServerInv /\ OfferInv
  BY DEF HostInv
<1>1. CASE inFlight # "none" \/ host
  <2>1. HostTypes' /\ ServerInv' /\ OfferInv' /\ status' = status /\ status \in Statuses
    BY <1>0, <1>1 DEF Start, HostTypes, ServerInv, OfferInv
  <2>2. CASE mine
    <3>1. Tells(<<Answer(status)>>) /\ toCard' = toCard \o <<Answer(status)>>
      BY <1>1, <2>1, <2>2, StatusTypes, MessageTypes, OneTold DEF Start
    <3> QED BY <2>1, <3>1, ToldIsRight DEF HostInv
  <2>3. CASE ~mine
    <3>1. toCard' = toCard
      BY <1>1, <2>3 DEF Start, HostInv
    <3> QED BY <2>1, <3>1, SilenceIsRight DEF HostInv
  <2> QED BY <2>2, <2>3
<1>2. CASE inFlight = "none" /\ ~host
  <2> DEFINE told == <<Push(Starting)>> \o (IF mine THEN <<Answer(Starting)>> ELSE <<>>)
  <2>0. status' = Starting /\ inFlight' = "start" /\ UNCHANGED <<supplied, offer, host, sockets, stops, errored>>
    BY <1>2 DEF Start
  <2>1. HostTypes' /\ status' = Starting
    BY <1>0, <2>0, StatusTypes DEF HostTypes
  <2>2. ServerInv' /\ OfferInv'
    BY <1>0, <1>2, StatusTypes DEF Start, HostTypes, ServerInv, OfferInv
  <2>3. Tells(told)
    <3>1. CASE mine
      BY <2>1, <3>1, StatusTypes, MessageTypes, TwoTold
    <3>2. CASE ~mine
      BY <2>1, <3>2, StatusTypes, MessageTypes, OneTold
    <3> QED BY <3>1, <3>2
  <2>4. toCard' = toCard \o told
    <3>1. toCard' = (toCard \o <<Push(Starting)>>) \o (IF mine THEN <<Answer(Starting)>> ELSE <<>>)
      BY <1>2 DEF Start
    <3>2. Push(Starting) \in Messages /\ Answer(Starting) \in Messages /\ toCard \in Seq(Messages)
      BY StatusTypes, MessageTypes DEF HostInv
    <3> QED BY <3>1, <3>2
  <2> QED BY <2>1, <2>2, <2>3, <2>4, ToldIsRight DEF HostInv
<1> QED BY <1>1, <1>2

LEMMA StopHost ==
  ASSUME HostInv, NEW caller \in {"card", "nobody"}, Stop(caller), Asked => Asked',
         UNCHANGED <<supplied, net, files, offer, sockets, errored, card>>, toMain' \in Seq(Requests)
  PROVE  HostInv'
<1>0. HostTypes /\ ServerInv /\ OfferInv /\ status \in Statuses
  BY DEF HostInv, HostTypes
<1>1. CASE inFlight # "none"
  <2>0. UNCHANGED <<inFlight, host, status, toCard>> /\ stops' = stops \cup {caller}
    BY <1>1 DEF Stop
  <2>1. HostTypes' /\ ServerInv' /\ OfferInv' /\ UNCHANGED <<status, toCard>>
    BY <1>0, <1>1, <2>0 DEF HostTypes, ServerInv, OfferInv
  <2> QED BY <2>1, SilenceIsRight DEF HostInv
<1>2. CASE inFlight = "none" /\ ~host
  <2>1. HostTypes' /\ ServerInv' /\ OfferInv' /\ status' = status
    BY <1>0, <1>2 DEF Stop, HostTypes, ServerInv, OfferInv
  <2>2. CASE caller = "card"
    <3>1. Tells(<<Answer(status)>>) /\ toCard' = toCard \o <<Answer(status)>>
      BY <1>0, <1>2, <2>1, <2>2, StatusTypes, MessageTypes, OneTold DEF Stop
    <3> QED BY <2>1, <3>1, ToldIsRight DEF HostInv
  <2>3. CASE caller # "card"
    <3>1. toCard' = toCard
      BY <1>2, <2>3 DEF Stop, HostInv
    <3> QED BY <2>1, <3>1, SilenceIsRight DEF HostInv
  <2> QED BY <2>2, <2>3
<1>3. CASE inFlight = "none" /\ host
  <2>1. status' = Stopping(status) /\ status' \in Statuses /\ status'.state = "stopping"
    BY <1>0, <1>3, RunningTypes DEF Stop
  <2>2. HostTypes' /\ ServerInv' /\ OfferInv'
    BY <1>0, <1>3, <2>1 DEF Stop, HostTypes, ServerInv, OfferInv
  <2>3. Tells(<<Push(status')>>) /\ toCard' = toCard \o <<Push(status')>>
    BY <1>3, <2>1, StatusTypes, MessageTypes, OneTold, PushesTold DEF Stop, Sends
  <2> QED BY <2>2, <2>3, ToldIsRight DEF HostInv
<1> QED BY <1>1, <1>2, <1>3
-----------------------------------------------------------------------------
LEMMA HostInit == Init => HostInv
<1> SUFFICES ASSUME Init PROVE HostInv
  OBVIOUS
<1>0. /\ supplied \in Supplies /\ net \subseteq Addresses /\ files = Nothing /\ inFlight = "none"
      /\ offer = NoOffer /\ host = FALSE /\ sockets = 0 /\ status = Stopped /\ stops = {} /\ errored = FALSE
  BY DEF Init
<1>1. HostTypes
  <2>1. files \in Certificates /\ offer \in [addresses : SUBSET Addresses, certificate : Certificates]
    BY <1>0, RestTypes
  <2>2. status \in Statuses /\ (status.addresses # {} => status.state \in {"running", "stopping"})
    BY <1>0, StatusTypes
  <2>3. host \in BOOLEAN /\ errored \in BOOLEAN
    BY <1>0, Zenon
  <2>4. inFlight \in {"none", "start", "bind", "stop"} /\ sockets \in 0..1
    BY <1>0
  <2> QED BY <1>0, <2>1, <2>2, <2>3, <2>4 DEF HostTypes
<1>2. toMain \in Seq(Requests) /\ toCard \in Seq(Messages) /\ card \in Cards
  BY RestTypes DEF Init
<1>3. ServerInv /\ OfferInv /\ CardInv
  BY StatusTypes, RestTypes DEF Init, ServerInv, OfferInv, CardInv
<1> QED BY <1>1, <1>2, <1>3 DEF HostInv

LEMMA HostNext == HostInv /\ [Next]_vars => HostInv'
<1> SUFFICES ASSUME HostInv, [Next]_vars PROVE HostInv'
  OBVIOUS
<1> USE DEF process
<1>0. /\ HostTypes /\ ServerInv /\ OfferInv /\ CardInv
      /\ toMain \in Seq(Requests) /\ toCard \in Seq(Messages) /\ card \in Cards
  BY DEF HostInv
<1>1. CASE Sign
  <2>1. Created \in Certificates /\ net \subseteq Created.covers /\ Created.paired
    BY <1>0 DEF HostTypes, Created, Certificates
  <2>2. PICK fresh \in BOOLEAN, certificate \in Certificates :
          /\ files' \in Certificates
          /\ certificate.paired /\ supplied = "none" => net \subseteq certificate.covers
          /\ \/ /\ certificate.paired /\ inFlight' = "bind"
                /\ offer' = [addresses |-> net, certificate |-> certificate]
                /\ UNCHANGED <<host, sockets, status, stops, errored, toCard>>
             \/ StartFails
    <3> DEFINE kept(fresh) == supplied = "none" /\ Usable(fresh)
               certificate(fresh) == CASE supplied = "both" -> [covers |-> {}, paired |-> TRUE, present |-> TRUE]
                                       [] kept(fresh) -> files
                                       [] OTHER -> Created
    <3>1. PICK fresh \in BOOLEAN :
            /\ files' = IF supplied = "none" /\ ~kept(fresh) THEN Created ELSE files
            /\ \/ /\ supplied # "one" /\ certificate(fresh).paired
                  /\ inFlight' = "bind"
                  /\ offer' = [addresses |-> net, certificate |-> certificate(fresh)]
                  /\ UNCHANGED <<host, sockets, status, stops, errored, toCard>>
               \/ StartFails
      BY <1>1 DEF Sign
    <3>2. certificate(fresh) \in Certificates /\ files' \in Certificates
      BY <1>0, <2>1, <3>1 DEF HostTypes, Certificates
    <3>3. supplied = "none" => net \subseteq certificate(fresh).covers
      BY <2>1 DEF Usable
    <3> HIDE DEF certificate
    <3> QED BY <3>1, <3>2, <3>3
  <2>3. CASE StartFails
    BY <1>1, <2>2, <2>3, FailsHost DEF Sign
  <2>4. CASE ~StartFails
    <3>1. HostTypes'
      BY <1>0, <1>1, <2>2, <2>4 DEF HostTypes, Sign, Certificates
    <3>2. ServerInv' /\ OfferInv'
      BY <1>0, <1>1, <2>2, <2>4 DEF HostTypes, ServerInv, OfferInv, Sign
    <3>3. CardInv' /\ toCard' = toCard /\ toMain' = toMain /\ card' = card
      BY <1>0, <1>1, <2>2, <2>4 DEF CardInv, Sign
    <3> QED BY <1>0, <3>1, <3>2, <3>3 DEF HostInv
  <2> QED BY <2>3, <2>4
<1>2. CASE BindFails
  BY <1>0, <1>2, FailsHost DEF BindFails, HostTypes
<1>3. CASE Binds
  <2> DEFINE running == Running(offer.addresses)
  <2>0. offer.addresses \in SUBSET Addresses
    BY <1>0 DEF HostTypes
  <2>1. /\ running \in Statuses /\ running.state = "running" /\ running.addresses = offer.addresses
        /\ Stopping(running) \in Statuses /\ Stopping(running).state = "stopping"
    BY <2>0, RunningTypes
  <2>2. CASE stops = {}
    <3>1. status' = running /\ host' /\ inFlight' = "none" /\ toCard' = toCard \o Pushes(<<running>>)
      BY <1>3, <2>2 DEF Binds, Sends
    <3>2. HostTypes'
      BY <1>0, <1>3, <2>1, <3>1 DEF HostTypes, Binds
    <3>3. ServerInv' /\ OfferInv'
      BY <1>0, <1>3, <2>1, <2>2, <3>1 DEF HostTypes, ServerInv, OfferInv, Binds
    <3>4. toCard' \in Seq(Messages) /\ CardInv'
      BY <1>3, <2>1, <3>1, StatusTypes, MessageTypes, OneTold, PushesTold, ToldIsRight DEF Binds
    <3> QED BY <1>0, <1>3, <3>2, <3>3, <3>4 DEF HostInv, Binds
  <2>3. CASE stops # {}
    <3>1. /\ status' = Stopping(running) /\ ~host' /\ inFlight' = "stop"
          /\ toCard' = toCard \o Pushes(<<running, Stopping(running)>>)
      BY <1>3, <2>3 DEF Binds, Sends
    <3> HIDE DEF running
    <3>0. sockets' = 1 /\ UNCHANGED <<supplied, net, files, offer, stops, errored>>
      BY <1>3 DEF Binds
    <3>2. HostTypes'
      <4>1. status' \in Statuses /\ status'.state \in {"running", "stopping"}
        BY <2>1, <3>1
      <4>2. inFlight' \in {"none", "start", "bind", "stop"} /\ sockets' \in 0..1
        BY <3>0, <3>1
      <4>3. host' = FALSE /\ host' \in BOOLEAN
        BY <1>3, <2>3, Zenon DEF Binds
      <4> QED BY <1>0, <3>0, <4>1, <4>2, <4>3 DEF HostTypes
    <3>3. ServerInv' /\ OfferInv'
      BY <1>0, <1>3, <2>1, <2>3, <3>1 DEF HostTypes, ServerInv, OfferInv, Binds
    <3>4. toCard' \in Seq(Messages) /\ CardInv'
      <4>1. Tells(<<Push(running), Push(Stopping(running))>>)
        BY <2>1, <3>1, MessageTypes, TwoTold
      <4>2. toCard' = toCard \o <<Push(running), Push(Stopping(running))>>
        BY <2>1, <3>1, PushesTold
      <4> QED BY <1>3, <4>1, <4>2, ToldIsRight DEF Binds
    <3> QED BY <1>0, <1>3, <3>2, <3>3, <3>4 DEF HostInv, Binds
  <2> QED BY <2>2, <2>3
<1>4. CASE Closes
  <2>1. HostTypes'
    BY <1>0, <1>4, StatusTypes, RestTypes DEF HostTypes, ServerInv, Closes
  <2>2. ServerInv' /\ OfferInv'
    BY <1>0, <1>4, StatusTypes DEF HostTypes, ServerInv, OfferInv, Closes
  <2>3. toCard' \in Seq(Messages) /\ CardInv'
    BY <1>4, StatusTypes, EndIsTold DEF Closes
  <2> QED BY <1>0, <1>4, <2>1, <2>2, <2>3 DEF HostInv, Closes
<1>5. CASE Handle
  <2> DEFINE m == Head(toMain)
  <2>1. /\ toMain # <<>> /\ m \in Requests /\ m.mine \in BOOLEAN
        /\ toMain' = Tail(toMain) /\ toMain' \in Seq(Requests)
    <3>1. toMain # <<>> /\ toMain' = Tail(toMain)
      BY <1>5 DEF Handle
    <3>2. m \in Requests /\ Tail(toMain) \in Seq(Requests)
      BY <1>0, <3>1
    <3> QED BY <3>1, <3>2 DEF Requests
  <2>2. m.ask # "status" \/ ~m.mine => (Asked => Asked')
    <3>1. ASSUME m.ask # "status" \/ ~m.mine, NEW i \in DOMAIN toMain,
                 toMain[i].ask = "status", toMain[i].mine
          PROVE  Asked'
      <4>1. i # 1
        BY <2>1, <3>1
      <4>2. i - 1 \in DOMAIN toMain' /\ toMain'[i - 1] = toMain[i]
        BY <1>0, <2>1, <4>1
      <4> QED BY <3>1, <4>2 DEF Asked
    <3> QED BY <3>1 DEF Asked
  <2>3. CASE m.ask = "status"
    <3>1. /\ toCard' = toCard \o (IF m.mine THEN <<Read(status)>> ELSE <<>>)
          /\ UNCHANGED <<supplied, net, files, card, process>>
      BY <1>5, <2>3 DEF Handle
    <3>2. HostTypes' /\ ServerInv' /\ OfferInv' /\ status \in Statuses
      BY <1>0, <3>1 DEF HostTypes, ServerInv, OfferInv
    <3>3. CASE m.mine
      <4>1. Tells(<<Read(status)>>)
        BY <3>1, <3>2, StatusTypes, MessageTypes, OneTold
      <4>2. toCard' \in Seq(Messages) /\ CardInv'
        BY <3>1, <3>3, <4>1, ToldIsRight
      <4> QED BY <1>0, <2>1, <3>1, <3>2, <4>2 DEF HostInv
    <3>4. CASE ~m.mine
      <4>1. toCard' = toCard
        BY <1>0, <3>1, <3>4
      <4>2. toCard' \in Seq(Messages) /\ CardInv'
        BY <2>2, <3>1, <3>4, <4>1, SilenceIsRight
      <4> QED BY <1>0, <2>1, <3>1, <3>2, <4>2 DEF HostInv
    <3> QED BY <2>1, <3>3, <3>4
  <2>4. CASE m.ask = "start"
    <3>1. Start(m.mine) /\ UNCHANGED <<net, files, card>>
      BY <1>5, <2>4 DEF Handle
    <3> QED BY <2>1, <2>2, <2>4, <3>1, StartHost
  <2>5. CASE m.ask = "stop"
    <3> DEFINE caller == IF m.mine THEN "card" ELSE "nobody"
    <3>1. Stop(caller) /\ UNCHANGED <<supplied, net, files, offer, sockets, errored, card>>
      BY <1>5, <2>5 DEF Handle
    <3>2. caller \in {"card", "nobody"}
      OBVIOUS
    <3> HIDE DEF caller
    <3> QED BY <2>1, <2>2, <2>5, <3>1, <3>2, StopHost
  <2> QED BY <2>1, <2>3, <2>4, <2>5 DEF Requests
<1>6. CASE ServerError
  <2>1. HostTypes' /\ ServerInv' /\ OfferInv' /\ status' = Failed
    BY <1>0, <1>6, StatusTypes DEF HostTypes, ServerInv, OfferInv, ServerError
  <2>2. Tells(<<Push(Failed)>>) /\ toCard' = toCard \o <<Push(Failed)>>
    BY <1>6, <2>1, StatusTypes, MessageTypes, OneTold, PushesTold DEF ServerError, Sends
  <2>3. toCard' \in Seq(Messages) /\ CardInv'
    BY <1>6, <2>2, ToldIsRight DEF ServerError
  <2> QED BY <1>0, <1>6, <2>1, <2>3 DEF HostInv, ServerError
<1>7. CASE Quit
  BY <1>0, <1>7, StopHost DEF Quit, Asked
<1>8. CASE ProcessEnds
  <2>1. files' \in Certificates
    BY <1>0, <1>8 DEF HostTypes, ProcessEnds, HalfWritten, Certificates
  <2>2. HostTypes'
    <3>1. /\ inFlight' = "none" /\ offer' = NoOffer /\ host' = FALSE /\ sockets' = 0
          /\ status' = Stopped /\ stops' = {} /\ errored' = FALSE /\ UNCHANGED <<supplied, net>>
      BY <1>8 DEF ProcessEnds
    <3>2. offer' \in [addresses : SUBSET Addresses, certificate : Certificates]
      BY <3>1, RestTypes
    <3>3. status' \in Statuses /\ (status'.addresses # {} => status'.state \in {"running", "stopping"})
      BY <3>1, StatusTypes
    <3>4. host' \in BOOLEAN /\ errored' \in BOOLEAN
      BY <3>1, Zenon
    <3>5. inFlight' \in {"none", "start", "bind", "stop"} /\ sockets' \in 0..1
      BY <3>1
    <3> QED BY <1>0, <2>1, <3>1, <3>2, <3>3, <3>4, <3>5 DEF HostTypes
  <2>3. ServerInv' /\ OfferInv' /\ CardInv'
    BY <1>8, StatusTypes, RestTypes DEF ServerInv, OfferInv, CardInv, ProcessEnds
  <2>4. (toMain \in Seq(Requests) /\ toCard \in Seq(Messages) /\ card \in Cards)'
    BY <1>8, StatusTypes, RestTypes DEF ProcessEnds
  <2> QED BY <2>2, <2>3, <2>4 DEF HostInv
<1>9. CASE NetworkChanges
  <2>1. HostTypes' /\ ServerInv' /\ OfferInv' /\ CardInv'
    BY <1>0, <1>9 DEF HostTypes, ServerInv, OfferInv, CardInv, NetworkChanges
  <2> QED BY <1>0, <1>9, <2>1 DEF HostInv, NetworkChanges
<1>10. CASE Mount
  <2> DEFINE r == [ask |-> "status", mine |-> TRUE]
  <2>1. r \in Requests /\ toMain' = Append(toMain, r)
    BY <1>10 DEF Mount, Asks, Requests
  <2>2. toMain' \in Seq(Requests) /\ Len(toMain') \in DOMAIN toMain' /\ toMain'[Len(toMain')] = r
    BY <1>0, <2>1
  <2>3. CardInv'
    BY <2>2 DEF CardInv
  <2>4. card' \in Cards
    BY <1>10, RestTypes DEF Mount, Cards
  <2>5. HostTypes' /\ ServerInv' /\ OfferInv'
    BY <1>0, <1>10 DEF HostTypes, ServerInv, OfferInv, Mount
  <2> QED BY <1>0, <1>10, <2>2, <2>3, <2>4, <2>5 DEF HostInv, Mount
<1>11. CASE Unmount
  <2>1. HostTypes' /\ ServerInv' /\ OfferInv'
    BY <1>0, <1>11 DEF HostTypes, ServerInv, OfferInv, Unmount
  <2>2. card' \in Cards /\ CardInv'
    BY <1>11, RestTypes DEF Unmount, CardInv
  <2>3. toMain' \in Seq(Requests)
    <3>0. \A i \in 1..Len(toMain) : toMain[i] \in Requests
      BY <1>0
    <3>1. \A i \in 1..Len(toMain) : [toMain[i] EXCEPT !.mine = FALSE] \in Requests
      BY <3>0 DEF Requests
    <3>2. toMain' = [i \in 1..Len(toMain) |-> [toMain[i] EXCEPT !.mine = FALSE]]
      BY <1>0, <1>11 DEF Unmount
    <3> QED BY <1>0, <3>1, <3>2
  <2>4. toCard' \in Seq(Messages)
    BY <1>0, <1>11, PushesAreMessages DEF Unmount
  <2> QED BY <2>1, <2>2, <2>3, <2>4 DEF HostInv
<1>12. CASE Press
  <2> DEFINE r == [ask |-> Offered, mine |-> TRUE]
  <2>1. r \in Requests /\ toMain' = Append(toMain, r)
    BY <1>12 DEF Press, Asks, Requests, Offered
  <2>2. toMain' \in Seq(Requests) /\ (Asked => Asked')
    BY <1>0, <2>1 DEF Asked
  <2>3. card' \in Cards /\ card'.mounted = card.mounted /\ card'.shown = card.shown
    BY <1>0, <1>12 DEF Press, Cards
  <2>4. HostTypes' /\ ServerInv' /\ OfferInv'
    BY <1>0, <1>12 DEF HostTypes, ServerInv, OfferInv, Press
  <2>5. CardInv' /\ toCard' = toCard
    BY <1>0, <1>12, <2>2, <2>3 DEF CardInv, Press, Asked
  <2> QED BY <1>0, <2>2, <2>3, <2>4, <2>5 DEF HostInv
<1>13. CASE Deliver
  <2> DEFINE m == Head(toCard)
  <2>1. /\ toCard # <<>> /\ toCard' = Tail(toCard) /\ toCard' \in Seq(Messages)
        /\ m \in Messages /\ m.status \in Statuses
    <3>1. toCard # <<>> /\ toCard' = Tail(toCard)
      BY <1>13 DEF Deliver
    <3>2. m \in Messages /\ Tail(toCard) \in Seq(Messages)
      BY <1>0, <3>1
    <3> QED BY <3>1, <3>2 DEF Messages
  <2>2. card' \in Cards /\ card'.mounted = card.mounted /\ (card.mounted => card'.shown = m.status)
    BY <1>0, <1>13, <2>1 DEF Deliver, Shows, Cards
  <2>3. HostTypes' /\ ServerInv' /\ OfferInv' /\ status' = status /\ toMain' = toMain
    BY <1>0, <1>13 DEF HostTypes, ServerInv, OfferInv, Deliver
  <2>4. toCard' # <<>> => toCard'[Len(toCard')] = toCard[Len(toCard)]
    BY <1>0, <2>1
  <2>5. toCard' = <<>> => m = toCard[Len(toCard)]
    <3>1. Len(toCard') = Len(toCard) - 1 /\ m = toCard[1]
      BY <1>0, <2>1
    <3>2. toCard' = <<>> => Len(toCard) = 1
      BY <1>0, <3>1
    <3> QED BY <3>1, <3>2
  <2>6. CardInv'
    BY <1>0, <2>1, <2>2, <2>3, <2>4, <2>5 DEF CardInv
  <2> QED BY <1>0, <2>1, <2>2, <2>3, <2>6 DEF HostInv
<1>14. CASE UNCHANGED vars
  BY <1>14 DEF HostInv, HostTypes, ServerInv, OfferInv, CardInv, vars
<1> QED BY <1>1, <1>2, <1>3, <1>4, <1>5, <1>6, <1>7, <1>8, <1>9, <1>10, <1>11, <1>12, <1>13, <1>14 DEF Next

LEMMA HostHolds == Spec => []HostInv
  BY HostInit, HostNext, PTL DEF Spec

\* Every variable of the publication keeps its type; a status lists addresses only
\* while there is, or is about to be no longer, a server at them.
THEOREM HostTypeCorrect == Spec => []TypeOK
<1> QED BY HostIsTyped, HostHolds, PTL

\* Whatever is pressed, killed, quit or reconnected, and however often: no server
\* listens that nobody can close, an address that is advertised has a server behind
\* it with a certificate that is its key's and covers it, and a card that has heard
\* everything shows the host's state.
THEOREM HostIsShown == Spec => []HostIsAsShown
<1>1. ASSUME HostInv PROVE HostIsAsShown
  <2>1. NothingUnreachable
    BY <1>1 DEF HostInv, ServerInv, NothingUnreachable
  <2>2. AdvertisedIsServed
    BY <1>1 DEF HostInv, ServerInv, OfferInv, AdvertisedIsServed
  <2>3. CardAgrees
    BY <1>1 DEF HostInv, CardInv, CardAgrees
  <2> QED BY <2>1, <2>2, <2>3 DEF HostIsAsShown
<1> QED BY <1>1, HostHolds, PTL

\* The step that resolves a stop() leaves nothing listening and nothing about to,
\* and a stop() that is handled is waited for or has found nothing to stop.
LEMMA StopStep ==
  ASSUME HostInv, [Next]_vars
  PROVE  /\ stops # {} /\ stops' = {} => Idle'
         /\ toMain # <<>> /\ toMain' = Tail(toMain) /\ Head(toMain).ask = "stop"
              => stops' # {} \/ Idle'
<1> USE DEF process
<1>0. /\ HostTypes /\ ServerInv /\ toMain \in Seq(Requests)
  BY DEF HostInv
<1>1. toMain # <<>> => Len(Tail(toMain)) # Len(toMain) /\ Tail(toMain) # toMain
  BY <1>0
<1>2. CASE Sign \/ BindFails
  BY <1>0, <1>1, <1>2 DEF Sign, BindFails, StartFails, Idle, ServerInv, HostTypes
<1>3. CASE Closes
  BY <1>0, <1>3 DEF Closes, Idle, ServerInv, HostTypes
<1>4. CASE Handle
  <2>1. CASE Head(toMain).ask = "stop"
    <3> DEFINE caller == IF Head(toMain).mine THEN "card" ELSE "nobody"
    <3>1. Stop(caller) /\ UNCHANGED sockets
      BY <1>4, <2>1 DEF Handle
    <3> HIDE DEF caller
    <3> QED BY <1>0, <3>1 DEF Stop, Idle, ServerInv, HostTypes
  <2>2. CASE Head(toMain).ask # "stop"
    BY <1>0, <1>4, <2>2 DEF Handle, Start
  <2> QED BY <2>1, <2>2
<1>5. CASE Quit
  BY <1>0, <1>1, <1>5 DEF Quit, Stop
<1>6. CASE ProcessEnds
  BY <1>6 DEF ProcessEnds, Idle
<1>7. CASE Binds \/ ServerError \/ NetworkChanges \/ Deliver
  BY <1>0, <1>1, <1>7 DEF Binds, ServerError, NetworkChanges, Deliver
<1>8. CASE Mount \/ Press
  <2>1. Len(toMain') = Len(toMain) + 1 /\ UNCHANGED stops
    BY <1>0, <1>8 DEF Mount, Press, Asks
  <2>2. toMain # <<>> => Len(Tail(toMain)) = Len(toMain) - 1
    BY <1>0
  <2> QED BY <1>0, <2>1, <2>2
<1>9. CASE Unmount
  <2>1. Len(toMain') = Len(toMain)
    BY <1>0, <1>9 DEF Unmount
  <2>2. stops # {} => stops' # {}
    BY <1>9 DEF Unmount
  <2> QED BY <1>1, <2>1, <2>2
<1>10. CASE UNCHANGED vars
  BY <1>1, <1>10 DEF vars
<1> QED BY <1>2, <1>3, <1>4, <1>5, <1>6, <1>7, <1>8, <1>9, <1>10 DEF Next

\* When a stop() resolves, at once or later, nothing listens and nothing is about
\* to, whatever start it met on its way.
THEOREM StopsHold == Spec => StopHolds
<1>1. HostInv /\ [Next]_vars =>
        [/\ stops # {} /\ stops' = {} => Idle'
         /\ toMain # <<>> /\ toMain' = Tail(toMain) /\ Head(toMain).ask = "stop"
              => stops' # {} \/ Idle']_vars
  BY StopStep
<1> QED BY <1>1, HostHolds, PTL DEF Spec, StopHolds
=============================================================================
