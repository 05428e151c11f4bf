----------------------- MODULE ReceiverSessionProofs ------------------------
(***************************************************************************)
(* The receiver's screen, its client and its worker, for any number of     *)
(* frames in flight and of exports pending, and however the page's events   *)
(* fall between a step of the state machine and the effects that follow it. *)
(*                                                                         *)
(* SlotsComeBack is not inductive over the epochs the client goes through: *)
(* a slot must be owed an answer of this epoch, so no message may be of a  *)
(* later one (EpochsInv).  That a verdict brings the file of the session on *)
(* the screen needs that its session is still open (VerdictInv).  Both     *)
(* screen and camera lag behind the machine, so ScreenInv says how far,     *)
(* state by state.                                                         *)
(***************************************************************************)
EXTENDS ReceiverScreen, TLAPS, FiniteSetTheorems

\* How many messages of a queue are of a kind.
HowMany(queue, kind) == Cardinality({i \in DOMAIN queue : queue[i] \in kind})

\* The messages of an epoch that carry a frame, or its answer; and those that
\* carry a verification, or its outcome.
FramesOf(e) == {m \in Requests : m.type = "frame" /\ m.epoch = e}
AnswersTo(e) == {m \in Events : m.type \in {"frame", "fatal"} /\ m.epoch = e}
VerifiesOf(e) == {m \in Requests : m.type = "verify" /\ m.epoch = e}
VerdictsOf(e) == {m \in Events : m.type = "verified" /\ m.epoch = e}

\* A slot that is taken is one an answer is still to come for.
SlotsInv == inFlight <= HowMany(toWorker, FramesOf(epoch)) + HowMany(toClient, AnswersTo(epoch))

\* Nothing that is under way is of an epoch the client has not reached.
EpochsInv ==
  /\ \A i \in DOMAIN toWorker : toWorker[i].epoch <= epoch
  /\ \A i \in DOMAIN toClient : toClient[i].epoch <= epoch
  /\ current <= epoch /\ \A e \in verifying : e <= epoch
  /\ opened => epoch = session /\ epoch # 0

\* The verification of the client's session: asked for, running or answered.
Asked == HowMany(toWorker, VerifiesOf(epoch)) + HowMany(toClient, VerdictsOf(epoch))
         + IF epoch \in verifying THEN 1 ELSE 0

\* Until it is answered the session is open.
VerdictInv == Asked # 0 => opened

\* Where the effects may lag behind the machine, and what holds meanwhile.
ScreenInv ==
  /\ urgent => visible
  /\ state = "PREFLIGHT" => urgent /\ shown \in Startable
  /\ state = "CAMERA_WARMING" =>
       opened /\ shown \in {"PREFLIGHT", "CAMERA_WARMING"} /\ camera \in {"off", "starting"}
  /\ state \in Receiving => opened /\ shown \in CameraStates /\ camera = "live"
  /\ state = "VERIFYING" => opened /\ shown \in CameraStates \cup {"VERIFYING"}
  /\ camera \in {"starting", "live"} => shown \in CameraStates
  /\ ~visible => state \notin Live
  /\ state = "INTERRUPTED" => ~visible

SessionInv == TypeOK /\ SlotsInv /\ EpochsInv /\ VerdictInv /\ ScreenInv /\ EndedHoldsNoFile
-----------------------------------------------------------------------------
(* The table of receiver-state.ts *)

\* What the table makes of an event, whatever the state: each event is listed once
\* for a state, and what is not listed changes nothing (receiver-state.ts).
LEMMA Reduced ==
  ASSUME NEW s, NEW e, NEW n, <<s, e, n>> \in Listed,
         \A t \in Listed : t[1] = s /\ t[2] = e => t[3] = n
  PROVE  Reduce(s, e) = n
<1> DEFINE t == CHOOSE u \in Listed : u[1] = s /\ u[2] = e
<1>1. t \in Listed /\ t[1] = s /\ t[2] = e
  OBVIOUS
<1> QED BY <1>1 DEF Reduce, Transitions

LEMMA ReduceStays ==
  ASSUME NEW s \in States, NEW e
  PROVE  Reduce(s, e) \in States
<1>1. \A t \in Listed : t[3] \in States
  BY DEF Listed, States, Live, CameraStates, Clearing, Receiving
<1> QED BY <1>1 DEF Reduce, Transitions

LEMMA Reduces ==
  ASSUME NEW s \in States
  PROVE
    /\ Reduce(s, "RECEIVE_REQUESTED") =
         IF s \in Clearing \cup {"COMPLETE"} THEN "PREFLIGHT" ELSE s
    /\ Reduce(s, "PREFLIGHT_PASSED") =
         IF s \in {"PREFLIGHT"} THEN "CAMERA_WARMING" ELSE s
    /\ Reduce(s, "CAMERA_READY") =
         IF s \in {"CAMERA_WARMING"} THEN "SCANNING" ELSE s
    /\ Reduce(s, "FRAME_ACCEPTED") =
         CASE s = "SCANNING" -> "RECEIVING" [] s = "INCOMPLETE" -> "RECOVERING" [] OTHER -> s
    /\ Reduce(s, "STALLED") =
         IF s \in {"RECEIVING", "RECOVERING"} THEN "INCOMPLETE" ELSE s
    /\ Reduce(s, "VERIFIED") =
         IF s \in {"VERIFYING", "EXPORTING"} THEN "COMPLETE" ELSE s
    /\ Reduce(s, "EXPORT_STARTED") =
         IF s \in {"COMPLETE"} THEN "EXPORTING" ELSE s
    /\ Reduce(s, "EXPORT_SETTLED") =
         IF s \in {"EXPORTING"} THEN "IDLE" ELSE s
    /\ Reduce(s, "FOREGROUNDED") =
         IF s \in {"INTERRUPTED"} THEN "IDLE" ELSE s
    /\ Reduce(s, "SESSION_COMPLETE") =
         IF s \in Receiving THEN "VERIFYING" ELSE s
    /\ Reduce(s, "SESSION_FAILED") =
         IF s \in Receiving \cup {"VERIFYING"} THEN "FAILED" ELSE s
    /\ Reduce(s, "CAMERA_FAILED") =
         IF s \in Live \ {"VERIFYING"} THEN "FAILED" ELSE s
    /\ Reduce(s, "WORKER_FATAL") =
         IF s \in Live THEN "FAILED" ELSE s
    /\ Reduce(s, "CANCELLED") =
         IF s \in Live \cup {"COMPLETE"} THEN "CANCELLED" ELSE s
    /\ Reduce(s, "BACKGROUNDED") =
         IF s \in Live \cup {"COMPLETE"} THEN "INTERRUPTED" ELSE s
    /\ Reduce(s, "RESET") =
         IF s \in States \ {"IDLE"} THEN "IDLE" ELSE s
<1>1. Reduce(s, "RECEIVE_REQUESTED") =
        IF s \in Clearing \cup {"COMPLETE"} THEN "PREFLIGHT" ELSE s
  <2>1. s \in Clearing \cup {"COMPLETE"} => <<s, "RECEIVE_REQUESTED", "PREFLIGHT">> \in Listed
    BY DEF Listed, States, Live, CameraStates, Clearing, Receiving
  <2>2. \A t \in Listed : t[2] = "RECEIVE_REQUESTED" => t[1] \in Clearing \cup {"COMPLETE"} /\ t[3] = "PREFLIGHT"
    BY DEF Listed, States, Live, CameraStates, Clearing, Receiving
  <2> QED BY <2>1, <2>2, Reduced DEF Reduce, Transitions
<1>2. Reduce(s, "PREFLIGHT_PASSED") =
        IF s \in {"PREFLIGHT"} THEN "CAMERA_WARMING" ELSE s
  <2>1. s \in {"PREFLIGHT"} => <<s, "PREFLIGHT_PASSED", "CAMERA_WARMING">> \in Listed
    BY DEF Listed, States, Live, CameraStates, Clearing, Receiving
  <2>2. \A t \in Listed : t[2] = "PREFLIGHT_PASSED" => t[1] \in {"PREFLIGHT"} /\ t[3] = "CAMERA_WARMING"
    BY DEF Listed, States, Live, CameraStates, Clearing, Receiving
  <2> QED BY <2>1, <2>2, Reduced DEF Reduce, Transitions
<1>3. Reduce(s, "CAMERA_READY") =
        IF s \in {"CAMERA_WARMING"} THEN "SCANNING" ELSE s
  <2>1. s \in {"CAMERA_WARMING"} => <<s, "CAMERA_READY", "SCANNING">> \in Listed
    BY DEF Listed, States, Live, CameraStates, Clearing, Receiving
  <2>2. \A t \in Listed : t[2] = "CAMERA_READY" => t[1] \in {"CAMERA_WARMING"} /\ t[3] = "SCANNING"
    BY DEF Listed, States, Live, CameraStates, Clearing, Receiving
  <2> QED BY <2>1, <2>2, Reduced DEF Reduce, Transitions
<1>4. Reduce(s, "FRAME_ACCEPTED") =
        CASE s = "SCANNING" -> "RECEIVING" [] s = "INCOMPLETE" -> "RECOVERING" [] OTHER -> s
  <2>1. <<"SCANNING", "FRAME_ACCEPTED", "RECEIVING">> \in Listed /\ <<"INCOMPLETE", "FRAME_ACCEPTED", "RECOVERING">> \in Listed
    BY DEF Listed
  <2>2. \A t \in Listed : t[2] = "FRAME_ACCEPTED" =>
          (t[1] = "SCANNING" /\ t[3] = "RECEIVING") \/ (t[1] = "INCOMPLETE" /\ t[3] = "RECOVERING")
    BY DEF Listed
  <2> QED BY <2>1, <2>2, Reduced DEF Reduce, Transitions
<1>5. Reduce(s, "STALLED") =
        IF s \in {"RECEIVING", "RECOVERING"} THEN "INCOMPLETE" ELSE s
  <2>1. s \in {"RECEIVING", "RECOVERING"} => <<s, "STALLED", "INCOMPLETE">> \in Listed
    BY DEF Listed, States, Live, CameraStates, Clearing, Receiving
  <2>2. \A t \in Listed : t[2] = "STALLED" => t[1] \in {"RECEIVING", "RECOVERING"} /\ t[3] = "INCOMPLETE"
    BY DEF Listed, States, Live, CameraStates, Clearing, Receiving
  <2> QED BY <2>1, <2>2, Reduced DEF Reduce, Transitions
<1>6. Reduce(s, "VERIFIED") =
        IF s \in {"VERIFYING", "EXPORTING"} THEN "COMPLETE" ELSE s
  <2>1. s \in {"VERIFYING", "EXPORTING"} => <<s, "VERIFIED", "COMPLETE">> \in Listed
    BY DEF Listed, States, Live, CameraStates, Clearing, Receiving
  <2>2. \A t \in Listed : t[2] = "VERIFIED" => t[1] \in {"VERIFYING", "EXPORTING"} /\ t[3] = "COMPLETE"
    BY DEF Listed, States, Live, CameraStates, Clearing, Receiving
  <2> QED BY <2>1, <2>2, Reduced DEF Reduce, Transitions
<1>7. Reduce(s, "EXPORT_STARTED") =
        IF s \in {"COMPLETE"} THEN "EXPORTING" ELSE s
  <2>1. s \in {"COMPLETE"} => <<s, "EXPORT_STARTED", "EXPORTING">> \in Listed
    BY DEF Listed, States, Live, CameraStates, Clearing, Receiving
  <2>2. \A t \in Listed : t[2] = "EXPORT_STARTED" => t[1] \in {"COMPLETE"} /\ t[3] = "EXPORTING"
    BY DEF Listed, States, Live, CameraStates, Clearing, Receiving
  <2> QED BY <2>1, <2>2, Reduced DEF Reduce, Transitions
<1>8. Reduce(s, "EXPORT_SETTLED") =
        IF s \in {"EXPORTING"} THEN "IDLE" ELSE s
  <2>1. s \in {"EXPORTING"} => <<s, "EXPORT_SETTLED", "IDLE">> \in Listed
    BY DEF Listed, States, Live, CameraStates, Clearing, Receiving
  <2>2. \A t \in Listed : t[2] = "EXPORT_SETTLED" => t[1] \in {"EXPORTING"} /\ t[3] = "IDLE"
    BY DEF Listed, States, Live, CameraStates, Clearing, Receiving
  <2> QED BY <2>1, <2>2, Reduced DEF Reduce, Transitions
<1>9. Reduce(s, "FOREGROUNDED") =
        IF s \in {"INTERRUPTED"} THEN "IDLE" ELSE s
  <2>1. s \in {"INTERRUPTED"} => <<s, "FOREGROUNDED", "IDLE">> \in Listed
    BY DEF Listed, States, Live, CameraStates, Clearing, Receiving
  <2>2. \A t \in Listed : t[2] = "FOREGROUNDED" => t[1] \in {"INTERRUPTED"} /\ t[3] = "IDLE"
    BY DEF Listed, States, Live, CameraStates, Clearing, Receiving
  <2> QED BY <2>1, <2>2, Reduced DEF Reduce, Transitions
<1>10. Reduce(s, "SESSION_COMPLETE") =
        IF s \in Receiving THEN "VERIFYING" ELSE s
  <2>1. s \in Receiving => <<s, "SESSION_COMPLETE", "VERIFYING">> \in Listed
    BY DEF Listed, States, Live, CameraStates, Clearing, Receiving
  <2>2. \A t \in Listed : t[2] = "SESSION_COMPLETE" => t[1] \in Receiving /\ t[3] = "VERIFYING"
    BY DEF Listed, States, Live, CameraStates, Clearing, Receiving
  <2> QED BY <2>1, <2>2, Reduced DEF Reduce, Transitions
<1>11. Reduce(s, "SESSION_FAILED") =
        IF s \in Receiving \cup {"VERIFYING"} THEN "FAILED" ELSE s
  <2>1. s \in Receiving \cup {"VERIFYING"} => <<s, "SESSION_FAILED", "FAILED">> \in Listed
    BY DEF Listed, States, Live, CameraStates, Clearing, Receiving
  <2>2. \A t \in Listed : t[2] = "SESSION_FAILED" => t[1] \in Receiving \cup {"VERIFYING"} /\ t[3] = "FAILED"
    BY DEF Listed, States, Live, CameraStates, Clearing, Receiving
  <2> QED BY <2>1, <2>2, Reduced DEF Reduce, Transitions
<1>12. Reduce(s, "CAMERA_FAILED") =
        IF s \in Live \ {"VERIFYING"} THEN "FAILED" ELSE s
  <2>1. s \in Live \ {"VERIFYING"} => <<s, "CAMERA_FAILED", "FAILED">> \in Listed
    BY DEF Listed, States, Live, CameraStates, Clearing, Receiving
  <2>2. \A t \in Listed : t[2] = "CAMERA_FAILED" => t[1] \in Live \ {"VERIFYING"} /\ t[3] = "FAILED"
    BY DEF Listed, States, Live, CameraStates, Clearing, Receiving
  <2> QED BY <2>1, <2>2, Reduced DEF Reduce, Transitions
<1>13. Reduce(s, "WORKER_FATAL") =
        IF s \in Live THEN "FAILED" ELSE s
  <2>1. s \in Live => <<s, "WORKER_FATAL", "FAILED">> \in Listed
    BY DEF Listed, States, Live, CameraStates, Clearing, Receiving
  <2>2. \A t \in Listed : t[2] = "WORKER_FATAL" => t[1] \in Live /\ t[3] = "FAILED"
    BY DEF Listed, States, Live, CameraStates, Clearing, Receiving
  <2> QED BY <2>1, <2>2, Reduced DEF Reduce, Transitions
<1>14. Reduce(s, "CANCELLED") =
        IF s \in Live \cup {"COMPLETE"} THEN "CANCELLED" ELSE s
  <2>1. s \in Live \cup {"COMPLETE"} => <<s, "CANCELLED", "CANCELLED">> \in Listed
    BY DEF Listed, States, Live, CameraStates, Clearing, Receiving
  <2>2. \A t \in Listed : t[2] = "CANCELLED" => t[1] \in Live \cup {"COMPLETE"} /\ t[3] = "CANCELLED"
    BY DEF Listed, States, Live, CameraStates, Clearing, Receiving
  <2> QED BY <2>1, <2>2, Reduced DEF Reduce, Transitions
<1>15. Reduce(s, "BACKGROUNDED") =
        IF s \in Live \cup {"COMPLETE"} THEN "INTERRUPTED" ELSE s
  <2>1. s \in Live \cup {"COMPLETE"} => <<s, "BACKGROUNDED", "INTERRUPTED">> \in Listed
    BY DEF Listed, States, Live, CameraStates, Clearing, Receiving
  <2>2. \A t \in Listed : t[2] = "BACKGROUNDED" => t[1] \in Live \cup {"COMPLETE"} /\ t[3] = "INTERRUPTED"
    BY DEF Listed, States, Live, CameraStates, Clearing, Receiving
  <2> QED BY <2>1, <2>2, Reduced DEF Reduce, Transitions
<1>16. Reduce(s, "RESET") =
        IF s \in States \ {"IDLE"} THEN "IDLE" ELSE s
  <2>1. s \in States \ {"IDLE"} => <<s, "RESET", "IDLE">> \in Listed
    BY DEF Listed, States, Live, CameraStates, Clearing, Receiving
  <2>2. \A t \in Listed : t[2] = "RESET" => t[1] \in States \ {"IDLE"} /\ t[3] = "IDLE"
    BY DEF Listed, States, Live, CameraStates, Clearing, Receiving
  <2> QED BY <2>1, <2>2, Reduced DEF Reduce, Transitions
<1> QED BY <1>1, <1>2, <1>3, <1>4, <1>5, <1>6, <1>7, <1>8,
           <1>9, <1>10, <1>11, <1>12, <1>13, <1>14, <1>15, <1>16
-----------------------------------------------------------------------------
(* Counting the messages of a queue *)

\* A count is a natural number, and zero where there is no such message.
LEMMA HowManyIsNat ==
  ASSUME NEW S, NEW q \in Seq(S), NEW kind
  PROVE  /\ HowMany(q, kind) \in Nat
         /\ IsFiniteSet({i \in DOMAIN q : q[i] \in kind})
         /\ HowMany(q, kind) = 0 <=> \A i \in DOMAIN q : q[i] \notin kind
<1> DEFINE I == {i \in DOMAIN q : q[i] \in kind}
<1>1. IsFiniteSet(1 .. Len(q))
  BY FS_Interval
<1>2. I \subseteq 1 .. Len(q)
  OBVIOUS
<1>3. IsFiniteSet(I)
  BY <1>1, <1>2, FS_Subset
<1>4. Cardinality(I) \in Nat /\ (Cardinality(I) = 0 <=> I = {})
  BY <1>3, FS_CardinalityType, FS_EmptySet
<1> QED BY <1>3, <1>4 DEF HowMany

LEMMA NoneOfNothing == \A kind : HowMany(<<>>, kind) = 0
<1>1. \A kind : {i \in DOMAIN <<>> : <<>>[i] \in kind} = {}
  OBVIOUS
<1> QED BY <1>1, FS_EmptySet DEF HowMany

\* A message at the end counts once.
LEMMA HowManyAppended ==
  ASSUME NEW S, NEW q \in Seq(S), NEW m \in S, NEW kind
  PROVE  HowMany(Append(q, m), kind) = HowMany(q, kind) + IF m \in kind THEN 1 ELSE 0
<1> DEFINE I == {i \in DOMAIN q : q[i] \in kind}
           J == {i \in DOMAIN Append(q, m) : Append(q, m)[i] \in kind}
<1>1. IsFiniteSet(I) /\ Cardinality(I) \in Nat
  BY HowManyIsNat DEF HowMany
<1>2. /\ DOMAIN Append(q, m) = 1 .. (Len(q) + 1) /\ DOMAIN q = 1 .. Len(q)
      /\ Append(q, m)[Len(q) + 1] = m
      /\ \A i \in 1 .. Len(q) : Append(q, m)[i] = q[i]
      /\ Len(q) \in Nat
  OBVIOUS
<1>3. HowMany(q, kind) = Cardinality(I) /\ HowMany(Append(q, m), kind) = Cardinality(J)
  BY DEF HowMany
<1>4. CASE m \in kind
  <2>1. J = I \cup {Len(q) + 1} /\ Len(q) + 1 \notin I
    BY <1>2, <1>4
  <2>2. Cardinality(J) = Cardinality(I) + 1
    <3> HIDE DEF I, J
    <3> QED BY <1>1, <2>1, FS_AddElement
  <2> HIDE DEF I, J
  <2> QED BY <1>4, <1>3, <2>2
<1>5. CASE m \notin kind
  <2>1. J = I
    BY <1>2, <1>5
  <2> HIDE DEF I, J
  <2> QED BY <1>1, <1>5, <1>3, <2>1
<1> QED BY <1>4, <1>5

\* And what is taken from the front counts no more.
LEMMA HowManyTaken ==
  ASSUME NEW S, NEW q \in Seq(S), q # <<>>, NEW kind
  PROVE  HowMany(Tail(q), kind) = HowMany(q, kind) - IF Head(q) \in kind THEN 1 ELSE 0
<1> DEFINE I == {i \in DOMAIN q : q[i] \in kind}
           J == {i \in DOMAIN Tail(q) : Tail(q)[i] \in kind}
           later == [j \in J |-> j + 1]
<1>1. /\ IsFiniteSet(I) /\ Cardinality(I) \in Nat
      /\ IsFiniteSet(I \ {1})
      /\ Cardinality(I \ {1}) = IF 1 \in I THEN Cardinality(I) - 1 ELSE Cardinality(I)
  <2>1. IsFiniteSet(I) /\ Cardinality(I) \in Nat
    BY HowManyIsNat DEF HowMany
  <2> HIDE DEF I
  <2> QED BY <2>1, FS_RemoveElement
<1>2. /\ Len(q) \in Nat \ {0} /\ DOMAIN q = 1 .. Len(q)
      /\ DOMAIN Tail(q) = 1 .. (Len(q) - 1)
      /\ \A i \in 1 .. (Len(q) - 1) : Tail(q)[i] = q[i + 1]
      /\ Head(q) = q[1]
  OBVIOUS
<1>3. 1 \in I <=> Head(q) \in kind
  BY <1>2
<1>4. later \in Bijection(J, I \ {1})
  <2>1. \A j \in J : later[j] \in I \ {1}
    BY <1>2
  <2>2. \A a, b \in J : later[a] = later[b] => a = b
    BY <1>2
  <2>3. ASSUME NEW i \in I \ {1} PROVE \E j \in J : later[j] = i
    <3>1. i - 1 \in J /\ later[i - 1] = i
      BY <1>2
    <3> QED BY <3>1
  <2> QED BY <2>1, <2>2, <2>3 DEF Bijection, Injection, Surjection, IsInjective
<1>5. IsFiniteSet(J)
  <2>1. IsFiniteSet(1 .. (Len(q) - 1)) /\ J \subseteq 1 .. (Len(q) - 1)
    BY <1>2, FS_Interval
  <2> HIDE DEF J
  <2> QED BY <2>1, FS_Subset
<1>6. Cardinality(J) = Cardinality(I \ {1})
  <2> HIDE DEF I, J, later
  <2> QED BY <1>4, <1>5, FS_Bijection DEF ExistsBijection
<1>7. HowMany(q, kind) = Cardinality(I) /\ HowMany(Tail(q), kind) = Cardinality(J)
  BY DEF HowMany
<1> HIDE DEF I, J
<1> QED BY <1>1, <1>3, <1>6, <1>7

LEMMA AtEnd ==
  ASSUME NEW S, NEW q \in Seq(S), NEW m \in S, NEW n \in Nat, m.epoch <= n,
         \A i \in DOMAIN q : q[i].epoch <= n
  PROVE  /\ Append(q, m) \in Seq(S)
         /\ \A i \in DOMAIN Append(q, m) : Append(q, m)[i].epoch <= n
OBVIOUS

LEMMA AtFront ==
  ASSUME NEW S, NEW q \in Seq(S), q # <<>>, NEW n \in Nat,
         \A i \in DOMAIN q : q[i].epoch <= n
  PROVE  /\ Head(q) \in S /\ Head(q).epoch <= n /\ Tail(q) \in Seq(S)
         /\ \A i \in DOMAIN Tail(q) : Tail(q)[i].epoch <= n
<1>1. Head(q) = q[1] /\ 1 \in DOMAIN q
  OBVIOUS
<1>2. \A i \in DOMAIN Tail(q) : i + 1 \in DOMAIN q /\ Tail(q)[i] = q[i + 1]
  OBVIOUS
<1> QED BY <1>1, <1>2
-----------------------------------------------------------------------------
(* The client, its queues and the worker *)

\* Every count is a natural number.
LEMMA CountsAreNat ==
  ASSUME TypeOK
  PROVE  /\ \A kind : HowMany(toWorker, kind) \in Nat /\ HowMany(toClient, kind) \in Nat
         /\ Asked \in Nat
<1>1. toWorker \in Seq(Requests) /\ toClient \in Seq(Events)
  BY DEF TypeOK
<1>2. \A kind : HowMany(toWorker, kind) \in Nat /\ HowMany(toClient, kind) \in Nat
  BY <1>1, HowManyIsNat
<1> QED BY <1>2 DEF Asked

LEMMA CountsNext ==
  ASSUME TypeOK'
  PROVE  /\ \A kind : HowMany(toWorker', kind) \in Nat /\ HowMany(toClient', kind) \in Nat
         /\ Asked' \in Nat
<1>1. toWorker' \in Seq(Requests) /\ toClient' \in Seq(Events)
  BY DEF TypeOK
<1>2. \A kind : HowMany(toWorker', kind) \in Nat /\ HowMany(toClient', kind) \in Nat
  BY <1>1, HowManyIsNat
<1> QED BY <1>2 DEF Asked

LEMMA EpochsAreNat ==
  ASSUME TypeOK
  PROVE  \A i \in DOMAIN toClient : toClient[i].epoch \in Nat
<1>1. \A i \in DOMAIN toClient : toClient[i] \in Events
  BY DEF TypeOK
<1> QED BY <1>1 DEF Events

\* A session that is opened, or whose session is closed, starts with nothing
\* under way: all there is belongs to an earlier epoch.
LEMMA NothingOfTheNext ==
  ASSUME TypeOK, EpochsInv
  PROVE  /\ HowMany(toWorker, FramesOf(epoch + 1)) = 0
         /\ HowMany(toWorker, VerifiesOf(epoch + 1)) = 0
         /\ HowMany(toClient, AnswersTo(epoch + 1)) = 0
         /\ HowMany(toClient, VerdictsOf(epoch + 1)) = 0
         /\ epoch + 1 \notin verifying
<1>1. toWorker \in Seq(Requests) /\ toClient \in Seq(Events) /\ epoch \in Nat
  BY DEF TypeOK
<1>2. /\ \A i \in DOMAIN toWorker : /\ toWorker[i] \notin FramesOf(epoch + 1)
                                    /\ toWorker[i] \notin VerifiesOf(epoch + 1)
      /\ \A i \in DOMAIN toClient : /\ toClient[i] \notin AnswersTo(epoch + 1)
                                    /\ toClient[i] \notin VerdictsOf(epoch + 1)
  BY <1>1 DEF EpochsInv, FramesOf, VerifiesOf, AnswersTo, VerdictsOf
<1>3. epoch + 1 \notin verifying
  BY <1>1 DEF EpochsInv
<1> QED BY <1>1, <1>2, <1>3, HowManyIsNat

\* What a step leaves alone.
LEMMA TrafficStays ==
  ASSUME SessionInv, UNCHANGED <<client, toWorker, toClient, work>>
  PROVE  SlotsInv' /\ EpochsInv' /\ Asked' = Asked
BY DEF SessionInv, SlotsInv, EpochsInv, Asked, HowMany, FramesOf, AnswersTo, VerifiesOf,
       VerdictsOf, client, work

LEMMA PageStays ==
  ASSUME SessionInv, UNCHANGED <<screen, held, client>>
  PROVE  ScreenInv' /\ EndedHoldsNoFile'
BY DEF SessionInv, ScreenInv, EndedHoldsNoFile, screen, held, client

\* The worker takes a message, and the client does.
LEMMA WorkerTakes ==
  ASSUME TypeOK, EpochsInv, NEW type, Handles(type)
  PROVE  /\ Head(toWorker) \in Requests /\ Head(toWorker).epoch <= epoch
         /\ Head(toWorker).type = type
         /\ toWorker' \in Seq(Requests)
         /\ \A i \in DOMAIN toWorker' : toWorker'[i].epoch <= epoch
         /\ \A kind : HowMany(toWorker', kind) = HowMany(toWorker, kind)
                                           - IF Head(toWorker) \in kind THEN 1 ELSE 0
<1>1. toWorker \in Seq(Requests) /\ toWorker # <<>> /\ toWorker' = Tail(toWorker) /\ epoch \in Nat
  BY DEF TypeOK, Handles
<1> QED BY <1>1, AtFront, HowManyTaken DEF EpochsInv, Handles

LEMMA ClientTakes ==
  ASSUME TypeOK, EpochsInv, NEW type, Hears(type)
  PROVE  /\ Head(toClient) \in Events /\ Head(toClient).epoch <= epoch
         /\ Head(toClient).type = type
         /\ toClient' \in Seq(Events)
         /\ \A i \in DOMAIN toClient' : toClient'[i].epoch <= epoch
         /\ \A kind : HowMany(toClient', kind) = HowMany(toClient, kind)
                                           - IF Head(toClient) \in kind THEN 1 ELSE 0
<1>1. toClient \in Seq(Events) /\ toClient # <<>> /\ toClient' = Tail(toClient) /\ epoch \in Nat
  BY DEF TypeOK, Hears
<1> QED BY <1>1, AtFront, HowManyTaken DEF EpochsInv, Hears

\* A message is posted, either way.
LEMMA WorkerIsSent ==
  ASSUME TypeOK, EpochsInv, NEW m \in Requests, NEW n \in Nat, m.epoch <= n, epoch <= n,
         toWorker' = Append(toWorker, m)
  PROVE  /\ toWorker' \in Seq(Requests)
         /\ \A i \in DOMAIN toWorker' : toWorker'[i].epoch <= n
         /\ \A kind : HowMany(toWorker', kind) = HowMany(toWorker, kind)
                                           + IF m \in kind THEN 1 ELSE 0
<1>1. toWorker \in Seq(Requests) /\ epoch \in Nat
  BY DEF TypeOK
<1>2. \A i \in DOMAIN toWorker : toWorker[i] \in Requests /\ toWorker[i].epoch <= n
  <2>1. \A i \in DOMAIN toWorker : toWorker[i] \in Requests /\ toWorker[i].epoch <= epoch
    BY <1>1 DEF EpochsInv
  <2>2. \A r \in Requests : r.epoch \in Nat
    BY DEF Requests
  <2> QED BY <1>1, <2>1, <2>2
<1> QED BY <1>1, <1>2, AtEnd, HowManyAppended

LEMMA ClientIsSent ==
  ASSUME TypeOK, EpochsInv, NEW m \in Events, m.epoch <= epoch,
         toClient' = Append(toClient, m)
  PROVE  /\ toClient' \in Seq(Events)
         /\ \A i \in DOMAIN toClient' : toClient'[i].epoch <= epoch
         /\ \A kind : HowMany(toClient', kind) = HowMany(toClient, kind)
                                           + IF m \in kind THEN 1 ELSE 0
<1>1. toClient \in Seq(Events) /\ epoch \in Nat
  BY DEF TypeOK
<1> QED BY <1>1, AtEnd, HowManyAppended DEF EpochsInv
-----------------------------------------------------------------------------
(* What happens on the screen alone *)

LEMMA TapReceiveKeeps ==
  ASSUME SessionInv, TapReceive
  PROVE  SessionInv'
<1>1. SlotsInv' /\ EpochsInv' /\ Asked' = Asked
  BY TrafficStays DEF TapReceive
<1>2. TypeOK'
  BY ReduceStays DEF SessionInv, TypeOK, TapReceive, Tap, Dispatch, screen, held, client, work, States, Live, CameraStates, Clearing, Receiving, Startable
<1>3. VerdictInv'
  BY <1>1, Reduces
     DEF SessionInv, TypeOK, VerdictInv, ScreenInv, TapReceive, Tap, Dispatch, screen, held, client, work, States, Live, CameraStates, Clearing, Receiving, Startable
<1>4. ScreenInv'
  BY Reduces DEF SessionInv, TypeOK, ScreenInv, TapReceive, Tap, Dispatch, screen, held, client, work, States, Live, CameraStates, Clearing, Receiving, Startable
<1>5. EndedHoldsNoFile'
  BY Reduces
     DEF SessionInv, TypeOK, ScreenInv, EndedHoldsNoFile, TapReceive, Tap, Dispatch, screen, held, client, work, States, Live, CameraStates, Clearing, Receiving, Startable
<1> QED BY <1>1, <1>2, <1>3, <1>4, <1>5 DEF SessionInv

LEMMA TapCancelKeeps ==
  ASSUME SessionInv, TapCancel
  PROVE  SessionInv'
<1>1. SlotsInv' /\ EpochsInv' /\ Asked' = Asked
  BY TrafficStays DEF TapCancel
<1>2. TypeOK'
  BY ReduceStays DEF SessionInv, TypeOK, TapCancel, Tap, Dispatch, screen, held, client, work, States, Live, CameraStates, Clearing, Receiving, Startable
<1>3. VerdictInv'
  BY <1>1, Reduces
     DEF SessionInv, TypeOK, VerdictInv, ScreenInv, TapCancel, Tap, Dispatch, screen, held, client, work, States, Live, CameraStates, Clearing, Receiving, Startable
<1>4. ScreenInv'
  BY Reduces DEF SessionInv, TypeOK, ScreenInv, TapCancel, Tap, Dispatch, screen, held, client, work, States, Live, CameraStates, Clearing, Receiving, Startable
<1>5. EndedHoldsNoFile'
  BY Reduces
     DEF SessionInv, TypeOK, ScreenInv, EndedHoldsNoFile, TapCancel, Tap, Dispatch, screen, held, client, work, States, Live, CameraStates, Clearing, Receiving, Startable
<1> QED BY <1>1, <1>2, <1>3, <1>4, <1>5 DEF SessionInv

LEMMA TapResetKeeps ==
  ASSUME SessionInv, TapReset
  PROVE  SessionInv'
<1>1. SlotsInv' /\ EpochsInv' /\ Asked' = Asked
  BY TrafficStays DEF TapReset
<1>2. TypeOK'
  BY ReduceStays DEF SessionInv, TypeOK, TapReset, Tap, Dispatch, screen, held, client, work, States, Live, CameraStates, Clearing, Receiving, Startable
<1>3. VerdictInv'
  BY <1>1, Reduces
     DEF SessionInv, TypeOK, VerdictInv, ScreenInv, TapReset, Tap, Dispatch, screen, held, client, work, States, Live, CameraStates, Clearing, Receiving, Startable
<1>4. ScreenInv'
  BY Reduces DEF SessionInv, TypeOK, ScreenInv, TapReset, Tap, Dispatch, screen, held, client, work, States, Live, CameraStates, Clearing, Receiving, Startable
<1>5. EndedHoldsNoFile'
  BY Reduces
     DEF SessionInv, TypeOK, ScreenInv, EndedHoldsNoFile, TapReset, Tap, Dispatch, screen, held, client, work, States, Live, CameraStates, Clearing, Receiving, Startable
<1> QED BY <1>1, <1>2, <1>3, <1>4, <1>5 DEF SessionInv

LEMMA TapSaveKeeps ==
  ASSUME SessionInv, TapSave
  PROVE  SessionInv'
<1>1. SlotsInv' /\ EpochsInv' /\ Asked' = Asked
  BY TrafficStays DEF TapSave
<1>2. TypeOK'
  BY ReduceStays DEF SessionInv, TypeOK, TapSave, Tap, Dispatch, screen, held, client, work, States, Live, CameraStates, Clearing, Receiving, Startable
<1>3. VerdictInv'
  BY <1>1, Reduces
     DEF SessionInv, TypeOK, VerdictInv, ScreenInv, TapSave, Tap, Dispatch, screen, held, client, work, States, Live, CameraStates, Clearing, Receiving, Startable
<1>4. ScreenInv'
  BY Reduces DEF SessionInv, TypeOK, ScreenInv, TapSave, Tap, Dispatch, screen, held, client, work, States, Live, CameraStates, Clearing, Receiving, Startable
<1>5. EndedHoldsNoFile'
  BY Reduces
     DEF SessionInv, TypeOK, ScreenInv, EndedHoldsNoFile, TapSave, Tap, Dispatch, screen, held, client, work, States, Live, CameraStates, Clearing, Receiving, Startable
<1> QED BY <1>1, <1>2, <1>3, <1>4, <1>5 DEF SessionInv

LEMMA TapEraseKeeps ==
  ASSUME SessionInv, TapErase
  PROVE  SessionInv'
<1>1. SlotsInv' /\ EpochsInv' /\ Asked' = Asked
  BY TrafficStays DEF TapErase
<1>2. TypeOK'
  BY ReduceStays DEF SessionInv, TypeOK, TapErase, screen, held, client, work, States, Live, CameraStates, Clearing, Receiving, Startable
<1>3. VerdictInv'
  BY <1>1, Reduces
     DEF SessionInv, TypeOK, VerdictInv, ScreenInv, TapErase, screen, held, client, work, States, Live, CameraStates, Clearing, Receiving, Startable
<1>4. ScreenInv'
  BY Reduces DEF SessionInv, TypeOK, ScreenInv, TapErase, screen, held, client, work, States, Live, CameraStates, Clearing, Receiving, Startable
<1>5. EndedHoldsNoFile'
  BY Reduces
     DEF SessionInv, TypeOK, ScreenInv, EndedHoldsNoFile, TapErase, screen, held, client, work, States, Live, CameraStates, Clearing, Receiving, Startable
<1> QED BY <1>1, <1>2, <1>3, <1>4, <1>5 DEF SessionInv

LEMMA EraseEndsKeeps ==
  ASSUME SessionInv, EraseEnds
  PROVE  SessionInv'
<1>1. SlotsInv' /\ EpochsInv' /\ Asked' = Asked
  BY TrafficStays DEF EraseEnds
<1>2. TypeOK'
  BY ReduceStays DEF SessionInv, TypeOK, EraseEnds, Dispatch, screen, held, client, work, States, Live, CameraStates, Clearing, Receiving, Startable
<1>3. VerdictInv'
  BY <1>1, Reduces
     DEF SessionInv, TypeOK, VerdictInv, ScreenInv, EraseEnds, Dispatch, screen, held, client, work, States, Live, CameraStates, Clearing, Receiving, Startable
<1>4. ScreenInv'
  BY Reduces DEF SessionInv, TypeOK, ScreenInv, EraseEnds, Dispatch, screen, held, client, work, States, Live, CameraStates, Clearing, Receiving, Startable
<1>5. EndedHoldsNoFile'
  BY Reduces
     DEF SessionInv, TypeOK, ScreenInv, EndedHoldsNoFile, EraseEnds, Dispatch, screen, held, client, work, States, Live, CameraStates, Clearing, Receiving, Startable
<1> QED BY <1>1, <1>2, <1>3, <1>4, <1>5 DEF SessionInv

LEMMA ExportEndsKeeps ==
  ASSUME SessionInv, ExportEnds
  PROVE  SessionInv'
<1>1. SlotsInv' /\ EpochsInv' /\ Asked' = Asked
  BY TrafficStays DEF ExportEnds
<1>2. TypeOK'
  BY ReduceStays DEF SessionInv, TypeOK, ExportEnds, Dispatch, screen, held, client, work, States, Live, CameraStates, Clearing, Receiving, Startable
<1>3. VerdictInv'
  BY <1>1, Reduces
     DEF SessionInv, TypeOK, VerdictInv, ScreenInv, ExportEnds, Dispatch, screen, held, client, work, States, Live, CameraStates, Clearing, Receiving, Startable
<1>4. ScreenInv'
  BY Reduces DEF SessionInv, TypeOK, ScreenInv, ExportEnds, Dispatch, screen, held, client, work, States, Live, CameraStates, Clearing, Receiving, Startable
<1>5. EndedHoldsNoFile'
  BY Reduces
     DEF SessionInv, TypeOK, ScreenInv, EndedHoldsNoFile, ExportEnds, Dispatch, screen, held, client, work, States, Live, CameraStates, Clearing, Receiving, Startable
<1> QED BY <1>1, <1>2, <1>3, <1>4, <1>5 DEF SessionInv

LEMMA HideKeeps ==
  ASSUME SessionInv, Hide
  PROVE  SessionInv'
<1>1. SlotsInv' /\ EpochsInv' /\ Asked' = Asked
  BY TrafficStays DEF Hide
<1>2. TypeOK'
  BY ReduceStays DEF SessionInv, TypeOK, Hide, Dispatch, screen, held, client, work, States, Live, CameraStates, Clearing, Receiving, Startable
<1>3. VerdictInv'
  BY <1>1, Reduces
     DEF SessionInv, TypeOK, VerdictInv, ScreenInv, Hide, Dispatch, screen, held, client, work, States, Live, CameraStates, Clearing, Receiving, Startable
<1>4. ScreenInv'
  BY Reduces DEF SessionInv, TypeOK, ScreenInv, Hide, Dispatch, screen, held, client, work, States, Live, CameraStates, Clearing, Receiving, Startable
<1>5. EndedHoldsNoFile'
  BY Reduces
     DEF SessionInv, TypeOK, ScreenInv, EndedHoldsNoFile, Hide, Dispatch, screen, held, client, work, States, Live, CameraStates, Clearing, Receiving, Startable
<1> QED BY <1>1, <1>2, <1>3, <1>4, <1>5 DEF SessionInv

LEMMA ShowKeeps ==
  ASSUME SessionInv, Show
  PROVE  SessionInv'
<1>1. SlotsInv' /\ EpochsInv' /\ Asked' = Asked
  BY TrafficStays DEF Show
<1>2. TypeOK'
  BY ReduceStays DEF SessionInv, TypeOK, Show, Dispatch, screen, held, client, work, States, Live, CameraStates, Clearing, Receiving, Startable
<1>3. VerdictInv'
  BY <1>1, Reduces
     DEF SessionInv, TypeOK, VerdictInv, ScreenInv, Show, Dispatch, screen, held, client, work, States, Live, CameraStates, Clearing, Receiving, Startable
<1>4. ScreenInv'
  BY Reduces DEF SessionInv, TypeOK, ScreenInv, Show, Dispatch, screen, held, client, work, States, Live, CameraStates, Clearing, Receiving, Startable
<1>5. EndedHoldsNoFile'
  BY Reduces
     DEF SessionInv, TypeOK, ScreenInv, EndedHoldsNoFile, Show, Dispatch, screen, held, client, work, States, Live, CameraStates, Clearing, Receiving, Startable
<1> QED BY <1>1, <1>2, <1>3, <1>4, <1>5 DEF SessionInv

LEMMA StallKeeps ==
  ASSUME SessionInv, Stall
  PROVE  SessionInv'
<1>1. SlotsInv' /\ EpochsInv' /\ Asked' = Asked
  BY TrafficStays DEF Stall
<1>2. TypeOK'
  BY ReduceStays DEF SessionInv, TypeOK, Stall, Dispatch, screen, held, client, work, States, Live, CameraStates, Clearing, Receiving, Startable
<1>3. VerdictInv'
  BY <1>1, Reduces
     DEF SessionInv, TypeOK, VerdictInv, ScreenInv, Stall, Dispatch, screen, held, client, work, States, Live, CameraStates, Clearing, Receiving, Startable
<1>4. ScreenInv'
  BY Reduces DEF SessionInv, TypeOK, ScreenInv, Stall, Dispatch, screen, held, client, work, States, Live, CameraStates, Clearing, Receiving, Startable
<1>5. EndedHoldsNoFile'
  BY Reduces
     DEF SessionInv, TypeOK, ScreenInv, EndedHoldsNoFile, Stall, Dispatch, screen, held, client, work, States, Live, CameraStates, Clearing, Receiving, Startable
<1> QED BY <1>1, <1>2, <1>3, <1>4, <1>5 DEF SessionInv

LEMMA CommitUnsupportedKeeps ==
  ASSUME SessionInv, CommitUnsupported
  PROVE  SessionInv'
<1>1. SlotsInv' /\ EpochsInv' /\ Asked' = Asked
  BY TrafficStays DEF CommitUnsupported
<1>2. TypeOK'
  BY ReduceStays DEF SessionInv, TypeOK, CommitUnsupported, Committed, Dispatch, screen, held, client, work, States, Live, CameraStates, Clearing, Receiving, Startable
<1>3. VerdictInv'
  BY <1>1, Reduces
     DEF SessionInv, TypeOK, VerdictInv, ScreenInv, CommitUnsupported, Committed, Dispatch, screen, held, client, work, States, Live, CameraStates, Clearing, Receiving, Startable
<1>4. ScreenInv'
  BY Reduces DEF SessionInv, TypeOK, ScreenInv, CommitUnsupported, Committed, Dispatch, screen, held, client, work, States, Live, CameraStates, Clearing, Receiving, Startable
<1>5. EndedHoldsNoFile'
  BY Reduces
     DEF SessionInv, TypeOK, ScreenInv, EndedHoldsNoFile, CommitUnsupported, Committed, Dispatch, screen, held, client, work, States, Live, CameraStates, Clearing, Receiving, Startable
<1> QED BY <1>1, <1>2, <1>3, <1>4, <1>5 DEF SessionInv

LEMMA CommitWarmingKeeps ==
  ASSUME SessionInv, CommitWarming
  PROVE  SessionInv'
<1>1. SlotsInv' /\ EpochsInv' /\ Asked' = Asked
  BY TrafficStays DEF CommitWarming
<1>2. TypeOK'
  BY ReduceStays DEF SessionInv, TypeOK, CommitWarming, Committed, screen, held, client, work, States, Live, CameraStates, Clearing, Receiving, Startable
<1>3. VerdictInv'
  BY <1>1, Reduces
     DEF SessionInv, TypeOK, VerdictInv, ScreenInv, CommitWarming, Committed, screen, held, client, work, States, Live, CameraStates, Clearing, Receiving, Startable
<1>4. ScreenInv'
  BY Reduces DEF SessionInv, TypeOK, ScreenInv, CommitWarming, Committed, screen, held, client, work, States, Live, CameraStates, Clearing, Receiving, Startable
<1>5. EndedHoldsNoFile'
  BY Reduces
     DEF SessionInv, TypeOK, ScreenInv, EndedHoldsNoFile, CommitWarming, Committed, screen, held, client, work, States, Live, CameraStates, Clearing, Receiving, Startable
<1> QED BY <1>1, <1>2, <1>3, <1>4, <1>5 DEF SessionInv

LEMMA CommitOtherKeeps ==
  ASSUME SessionInv, CommitOther
  PROVE  SessionInv'
<1>1. SlotsInv' /\ EpochsInv' /\ Asked' = Asked
  BY TrafficStays DEF CommitOther
<1>2. TypeOK'
  BY ReduceStays DEF SessionInv, TypeOK, CommitOther, Committed, CameraRuns, screen, held, client, work, States, Live, CameraStates, Clearing, Receiving, Startable
<1>3. VerdictInv'
  BY <1>1, Reduces
     DEF SessionInv, TypeOK, VerdictInv, ScreenInv, CommitOther, Committed, CameraRuns, screen, held, client, work, States, Live, CameraStates, Clearing, Receiving, Startable
<1>4. ScreenInv'
  BY Reduces DEF SessionInv, TypeOK, ScreenInv, CommitOther, Committed, CameraRuns, screen, held, client, work, States, Live, CameraStates, Clearing, Receiving, Startable
<1>5. EndedHoldsNoFile'
  BY Reduces
     DEF SessionInv, TypeOK, ScreenInv, EndedHoldsNoFile, CommitOther, Committed, CameraRuns, screen, held, client, work, States, Live, CameraStates, Clearing, Receiving, Startable
<1> QED BY <1>1, <1>2, <1>3, <1>4, <1>5 DEF SessionInv

LEMMA CameraReadyKeeps ==
  ASSUME SessionInv, CameraReady
  PROVE  SessionInv'
<1>1. SlotsInv' /\ EpochsInv' /\ Asked' = Asked
  BY TrafficStays DEF CameraReady
<1>2. TypeOK'
  BY ReduceStays DEF SessionInv, TypeOK, CameraReady, Dispatch, screen, held, client, work, States, Live, CameraStates, Clearing, Receiving, Startable
<1>3. VerdictInv'
  BY <1>1, Reduces
     DEF SessionInv, TypeOK, VerdictInv, ScreenInv, CameraReady, Dispatch, screen, held, client, work, States, Live, CameraStates, Clearing, Receiving, Startable
<1>4. ScreenInv'
  BY Reduces DEF SessionInv, TypeOK, ScreenInv, CameraReady, Dispatch, screen, held, client, work, States, Live, CameraStates, Clearing, Receiving, Startable
<1>5. EndedHoldsNoFile'
  BY Reduces
     DEF SessionInv, TypeOK, ScreenInv, EndedHoldsNoFile, CameraReady, Dispatch, screen, held, client, work, States, Live, CameraStates, Clearing, Receiving, Startable
<1> QED BY <1>1, <1>2, <1>3, <1>4, <1>5 DEF SessionInv

LEMMA CameraFailsKeeps ==
  ASSUME SessionInv, CameraFails
  PROVE  SessionInv'
<1>1. SlotsInv' /\ EpochsInv' /\ Asked' = Asked
  BY TrafficStays DEF CameraFails
<1>2. TypeOK'
  BY ReduceStays DEF SessionInv, TypeOK, CameraFails, Dispatch, screen, held, client, work, States, Live, CameraStates, Clearing, Receiving, Startable
<1>3. VerdictInv'
  BY <1>1, Reduces
     DEF SessionInv, TypeOK, VerdictInv, ScreenInv, CameraFails, Dispatch, screen, held, client, work, States, Live, CameraStates, Clearing, Receiving, Startable
<1>4. ScreenInv'
  BY Reduces DEF SessionInv, TypeOK, ScreenInv, CameraFails, Dispatch, screen, held, client, work, States, Live, CameraStates, Clearing, Receiving, Startable
<1>5. EndedHoldsNoFile'
  BY Reduces
     DEF SessionInv, TypeOK, ScreenInv, EndedHoldsNoFile, CameraFails, Dispatch, screen, held, client, work, States, Live, CameraStates, Clearing, Receiving, Startable
<1> QED BY <1>1, <1>2, <1>3, <1>4, <1>5 DEF SessionInv

LEMMA CameraAbandonedKeeps ==
  ASSUME SessionInv, CameraAbandoned
  PROVE  SessionInv'
<1>1. SlotsInv' /\ EpochsInv' /\ Asked' = Asked
  BY TrafficStays DEF CameraAbandoned
<1>2. TypeOK'
  BY ReduceStays DEF SessionInv, TypeOK, CameraAbandoned, screen, held, client, work, States, Live, CameraStates, Clearing, Receiving, Startable
<1>3. VerdictInv'
  BY <1>1, Reduces
     DEF SessionInv, TypeOK, VerdictInv, ScreenInv, CameraAbandoned, screen, held, client, work, States, Live, CameraStates, Clearing, Receiving, Startable
<1>4. ScreenInv'
  BY Reduces DEF SessionInv, TypeOK, ScreenInv, CameraAbandoned, screen, held, client, work, States, Live, CameraStates, Clearing, Receiving, Startable
<1>5. EndedHoldsNoFile'
  BY Reduces
     DEF SessionInv, TypeOK, ScreenInv, EndedHoldsNoFile, CameraAbandoned, screen, held, client, work, States, Live, CameraStates, Clearing, Receiving, Startable
<1> QED BY <1>1, <1>2, <1>3, <1>4, <1>5 DEF SessionInv
-----------------------------------------------------------------------------
(* What React runs for the client *)

LEMMA CommitPreflightKeeps ==
  ASSUME SessionInv, CommitPreflight
  PROVE  SessionInv'
<1>0. TypeOK /\ EpochsInv /\ epoch \in Nat
  BY DEF SessionInv, TypeOK
<1> DEFINE m == Request("open", epoch + 1, "-")
<1>1. m \in Requests /\ m.epoch = epoch + 1 /\ \A e : m \notin FramesOf(e) /\ m \notin VerifiesOf(e)
  BY <1>0 DEF Request, Requests, FramesOf, VerifiesOf
<1>2. toWorker' = Append(toWorker, m)
  BY DEF CommitPreflight
<1> HIDE DEF m
<1>3. /\ toWorker' \in Seq(Requests)
      /\ \A i \in DOMAIN toWorker' : toWorker'[i].epoch <= epoch + 1
      /\ \A kind : HowMany(toWorker', kind) = HowMany(toWorker, kind) + IF m \in kind THEN 1 ELSE 0
  BY <1>0, <1>1, <1>2, WorkerIsSent
<1>4. TypeOK'
  <2>1. state' \in States /\ 0 \in 0 .. MaxInFlight
    BY <1>0, ReduceStays, ReceiverAssumption DEF CommitPreflight, Dispatch, TypeOK
  <2>2. shown' \in States /\ urgent' \in BOOLEAN /\ visible' \in BOOLEAN
    BY <1>0 DEF CommitPreflight, Committed, TypeOK
  <2>3. verified' \in Nat /\ exports' \in Nat /\ erasing' \in BOOLEAN /\ camera' = "off"
    BY <1>0 DEF CommitPreflight, Committed, TypeOK
  <2>4. epoch' \in Nat /\ opened' \in BOOLEAN /\ inFlight' = 0 /\ session' \in Nat /\ alive' \in BOOLEAN
    BY <1>0 DEF CommitPreflight
  <2>5. UNCHANGED <<toClient, current, pipe, verifying>>
    BY DEF CommitPreflight, work
  <2> QED BY <1>0, <1>3, <2>1, <2>2, <2>3, <2>4, <2>5 DEF TypeOK
<1>5. EpochsInv'
  <2>1. \A i \in DOMAIN toClient : toClient[i].epoch \in Nat /\ toClient[i].epoch <= epoch
    BY <1>0, EpochsAreNat DEF EpochsInv
  <2> QED BY <1>0, <1>3, <2>1 DEF CommitPreflight, EpochsInv, TypeOK, work
<1>6. SlotsInv' /\ Asked' = 0
  <2>1. epoch' = epoch + 1 /\ toClient' = toClient /\ verifying' = verifying /\ inFlight' = 0
    BY DEF CommitPreflight, work
  <2>2. /\ HowMany(toWorker', FramesOf(epoch')) = 0 /\ HowMany(toWorker', VerifiesOf(epoch')) = 0
        /\ HowMany(toClient', AnswersTo(epoch')) = 0 /\ HowMany(toClient', VerdictsOf(epoch')) = 0
        /\ epoch' \notin verifying'
    BY <1>0, <1>1, <1>3, <2>1, NothingOfTheNext
  <2> QED BY <2>1, <2>2 DEF SlotsInv, Asked
<1>7. VerdictInv'
  BY <1>6 DEF VerdictInv
<1>8. ScreenInv' /\ EndedHoldsNoFile'
  BY <1>0, Reduces
     DEF SessionInv, CommitPreflight, Committed, Dispatch, ScreenInv, TypeOK,
         EndedHoldsNoFile, States, Live, CameraStates, Clearing, Receiving,
         Startable, work
<1> QED BY <1>4, <1>5, <1>6, <1>7, <1>8 DEF SessionInv

LEMMA CommitVerifyingKeeps ==
  ASSUME SessionInv, CommitVerifying
  PROVE  SessionInv'
<1>0. TypeOK /\ EpochsInv /\ epoch \in Nat
  BY DEF SessionInv, TypeOK
<1> DEFINE m == Request("verify", epoch, "-")
<1>1. m \in Requests /\ m.epoch = epoch /\ m \notin FramesOf(epoch) /\ m \in VerifiesOf(epoch)
  BY <1>0 DEF Request, Requests, FramesOf, VerifiesOf
<1>2. opened /\ toWorker' = Append(toWorker, m)
  BY DEF SessionInv, CommitVerifying, ScreenInv
<1> HIDE DEF m
<1>3. /\ toWorker' \in Seq(Requests)
      /\ \A i \in DOMAIN toWorker' : toWorker'[i].epoch <= epoch
      /\ \A kind : HowMany(toWorker', kind) = HowMany(toWorker, kind) + IF m \in kind THEN 1 ELSE 0
  BY <1>0, <1>1, <1>2, WorkerIsSent
<1>4. TypeOK'
  BY <1>0, <1>3 DEF CommitVerifying, Committed, TypeOK, client, work
<1>5. EpochsInv'
  BY <1>0, <1>3 DEF CommitVerifying, EpochsInv, client, work
<1>6. epoch' = epoch /\ toClient' = toClient /\ verifying' = verifying /\ inFlight' = inFlight
  BY DEF CommitVerifying, client, work
<1>7. SlotsInv'
  BY <1>0, <1>1, <1>3, <1>6, CountsAreNat DEF SessionInv, SlotsInv, TypeOK
<1>8. VerdictInv'
  BY <1>2 DEF VerdictInv, CommitVerifying, client
<1>9. ScreenInv' /\ EndedHoldsNoFile'
  BY <1>0, <1>2
     DEF SessionInv, CommitVerifying, Committed, ScreenInv, TypeOK,
         EndedHoldsNoFile, States, Live, CameraStates, Clearing, Receiving,
         Startable, client, work
<1> QED BY <1>4, <1>5, <1>7, <1>8, <1>9 DEF SessionInv

LEMMA CommitEndedKeeps ==
  ASSUME SessionInv, CommitEnded
  PROVE  SessionInv'
<1>0. TypeOK /\ EpochsInv /\ epoch \in Nat
  BY DEF SessionInv, TypeOK
<1>1. PICK reason \in {"interrupted", "cancelled"} : Close(reason)
  BY DEF CommitEnded
<1>2. CASE opened
  <2> DEFINE m == Request("close", epoch + 1, reason)
  <2>1. m \in Requests /\ m.epoch = epoch + 1 /\ \A e : m \notin FramesOf(e) /\ m \notin VerifiesOf(e)
    BY <1>0 DEF Request, Requests, FramesOf, VerifiesOf
  <2>2. /\ toWorker' = Append(toWorker, m)
        /\ opened' = FALSE /\ inFlight' = 0 /\ epoch' = epoch + 1
        /\ UNCHANGED <<session, alive, toClient, work>>
        /\ epoch + 1 \in Nat /\ epoch <= epoch + 1
    BY <1>0, <1>1, <1>2 DEF CommitEnded, Close
  <2> HIDE DEF m
  <2>3. /\ toWorker' \in Seq(Requests)
        /\ \A i \in DOMAIN toWorker' : toWorker'[i].epoch <= epoch + 1
        /\ \A kind : HowMany(toWorker', kind) = HowMany(toWorker, kind) + IF m \in kind THEN 1 ELSE 0
    <3> DEFINE n == epoch + 1
    <3>1. n \in Nat /\ epoch <= n /\ m.epoch <= n
      BY <1>0, <2>1
    <3>2. toWorker' = Append(toWorker, m) /\ m \in Requests
      BY <2>1, <2>2
    <3> HIDE DEF n
    <3>3. /\ toWorker' \in Seq(Requests)
          /\ \A i \in DOMAIN toWorker' : toWorker'[i].epoch <= n
          /\ \A kind : HowMany(toWorker', kind) = HowMany(toWorker, kind) + IF m \in kind THEN 1 ELSE 0
      BY <1>0, <3>1, <3>2, WorkerIsSent
    <3> QED BY <3>3 DEF n
  <2>4. TypeOK'
    <3>1. 0 \in 0 .. MaxInFlight
      BY ReceiverAssumption
    <3> QED BY <1>0, <2>2, <2>3, <3>1 DEF CommitEnded, Committed, TypeOK, work
  <2>5. EpochsInv'
    <3>1. \A i \in DOMAIN toClient : toClient[i].epoch \in Nat /\ toClient[i].epoch <= epoch
      BY <1>0, EpochsAreNat DEF EpochsInv
    <3> QED BY <1>0, <2>2, <2>3, <3>1 DEF EpochsInv, TypeOK, work
  <2>6. SlotsInv' /\ Asked' = 0
    <3>1. /\ HowMany(toWorker', FramesOf(epoch')) = 0 /\ HowMany(toWorker', VerifiesOf(epoch')) = 0
          /\ HowMany(toClient', AnswersTo(epoch')) = 0 /\ HowMany(toClient', VerdictsOf(epoch')) = 0
          /\ epoch' \notin verifying'
      BY <1>0, <2>1, <2>2, <2>3, NothingOfTheNext DEF work
    <3> QED BY <2>2, <3>1 DEF SlotsInv, Asked
  <2>7. VerdictInv'
    BY <2>6 DEF VerdictInv
  <2>8. ScreenInv' /\ EndedHoldsNoFile'
    BY <1>0, <2>2
       DEF SessionInv, CommitEnded, Committed, ScreenInv, TypeOK,
           EndedHoldsNoFile, States, Live, CameraStates, Clearing, Receiving,
           Startable
  <2> QED BY <2>4, <2>5, <2>6, <2>7, <2>8 DEF SessionInv
<1>3. CASE ~opened
  <2>1. UNCHANGED <<client, toWorker, toClient, work>>
    BY <1>1, <1>3 DEF CommitEnded, Close
  <2>2. SlotsInv' /\ EpochsInv' /\ Asked' = Asked
    BY <2>1, TrafficStays
  <2>3. TypeOK'
    BY <1>0, <2>1 DEF CommitEnded, Committed, TypeOK, client, work
  <2>4. VerdictInv'
    BY <1>3, <2>2 DEF SessionInv, VerdictInv
  <2>5. ScreenInv' /\ EndedHoldsNoFile'
    BY <1>0, <1>3, <2>1
       DEF SessionInv, CommitEnded, Committed, ScreenInv, TypeOK,
           EndedHoldsNoFile, States, Live, CameraStates, Clearing, Receiving,
           Startable, client
  <2> QED BY <2>2, <2>3, <2>4, <2>5 DEF SessionInv
<1> QED BY <1>2, <1>3

LEMMA CaptureKeeps ==
  ASSUME SessionInv, Capture
  PROVE  SessionInv'
<1>0. TypeOK /\ EpochsInv /\ epoch \in Nat
  BY DEF SessionInv, TypeOK
<1> DEFINE m == Request("frame", epoch, "-")
<1>1. m \in Requests /\ m.epoch = epoch /\ m \in FramesOf(epoch) /\ m \notin VerifiesOf(epoch)
  BY <1>0 DEF Request, Requests, FramesOf, VerifiesOf
<1>2. toWorker' = Append(toWorker, m)
  BY DEF Capture
<1> HIDE DEF m
<1>3. /\ toWorker' \in Seq(Requests)
      /\ \A i \in DOMAIN toWorker' : toWorker'[i].epoch <= epoch
      /\ \A kind : HowMany(toWorker', kind) = HowMany(toWorker, kind) + IF m \in kind THEN 1 ELSE 0
  BY <1>0, <1>1, <1>2, WorkerIsSent
<1>4. TypeOK'
  BY <1>0, <1>3, ReceiverAssumption DEF Capture, CanAccept, TypeOK, screen, held, work
<1>5. EpochsInv'
  BY <1>0, <1>3 DEF Capture, EpochsInv, work
<1>6. epoch' = epoch /\ toClient' = toClient /\ verifying' = verifying /\ inFlight' = inFlight + 1
  BY DEF Capture, work
<1>7. SlotsInv'
  BY <1>0, <1>1, <1>3, <1>6, CountsAreNat DEF SessionInv, SlotsInv, TypeOK
<1>8. VerdictInv'
  <2>1. Asked' = Asked
    BY <1>0, <1>1, <1>3, <1>6, CountsAreNat DEF Asked
  <2> QED BY <2>1 DEF SessionInv, VerdictInv, Capture, screen
<1>9. ScreenInv' /\ EndedHoldsNoFile'
  BY DEF SessionInv, Capture, ScreenInv, EndedHoldsNoFile, screen, held
<1> QED BY <1>4, <1>5, <1>7, <1>8, <1>9 DEF SessionInv
-----------------------------------------------------------------------------
(* The worker *)

\* What the worker does leaves the page alone: no slot may be lost by it, and no
\* verification come out of nothing.
LEMMA WorkerKeeps ==
  ASSUME SessionInv, UNCHANGED <<screen, held, client>>, TypeOK', EpochsInv',
         HowMany(toWorker', FramesOf(epoch)) + HowMany(toClient', AnswersTo(epoch))
           >= HowMany(toWorker, FramesOf(epoch)) + HowMany(toClient, AnswersTo(epoch)),
         Asked' <= Asked
  PROVE  SessionInv'
<1>1. TypeOK /\ epoch' = epoch /\ inFlight' = inFlight /\ inFlight \in Nat
  BY DEF SessionInv, TypeOK, client
<1>2. SlotsInv'
  <2>1. /\ inFlight <= HowMany(toWorker, FramesOf(epoch)) + HowMany(toClient, AnswersTo(epoch))
        /\ HowMany(toWorker, FramesOf(epoch)) + HowMany(toClient, AnswersTo(epoch)) \in Nat
        /\ HowMany(toWorker', FramesOf(epoch)) + HowMany(toClient', AnswersTo(epoch)) \in Nat
    BY <1>1, CountsAreNat, CountsNext DEF SessionInv, SlotsInv
  <2> QED BY <1>1, <2>1 DEF SlotsInv
<1>3. VerdictInv'
  <2>1. Asked \in Nat /\ Asked' \in Nat
    BY <1>1, CountsAreNat, CountsNext
  <2> QED BY <2>1 DEF SessionInv, VerdictInv, client
<1> QED BY <1>2, <1>3, PageStays DEF SessionInv

LEMMA OnOpenKeeps ==
  ASSUME SessionInv, OnOpen
  PROVE  SessionInv'
<1>0. TypeOK /\ EpochsInv /\ epoch \in Nat /\ epoch' = epoch /\ verifying' = verifying
  BY DEF SessionInv, TypeOK, OnOpen, client
<1> DEFINE r == Head(toWorker)
           m == Progress(r.epoch, "none", FALSE)
<1>1. /\ r \in Requests /\ r.epoch <= epoch /\ r.type = "open" /\ toWorker' \in Seq(Requests)
      /\ \A i \in DOMAIN toWorker' : toWorker'[i].epoch <= epoch
      /\ \A kind : HowMany(toWorker', kind) = HowMany(toWorker, kind) - IF r \in kind THEN 1 ELSE 0
  BY <1>0, WorkerTakes DEF OnOpen
<1>2. r \notin FramesOf(epoch) /\ r \notin VerifiesOf(epoch)
  BY <1>1 DEF FramesOf, VerifiesOf
<1>3. m \in Events /\ m.epoch <= epoch /\ m \notin AnswersTo(epoch) /\ m \notin VerdictsOf(epoch)
  BY <1>1 DEF Progress, Events, Requests, AnswersTo, VerdictsOf
<1>4. toClient' = Append(toClient, m) /\ current' = r.epoch /\ r.epoch \in Nat
  BY <1>1 DEF OnOpen, Requests
<1> HIDE DEF m, r
<1>5. /\ toClient' \in Seq(Events)
      /\ \A i \in DOMAIN toClient' : toClient'[i].epoch <= epoch
      /\ \A kind : HowMany(toClient', kind) = HowMany(toClient, kind) + IF m \in kind THEN 1 ELSE 0
  BY <1>0, <1>3, <1>4, ClientIsSent
<1>6. TypeOK'
  BY <1>0, <1>1, <1>4, <1>5 DEF OnOpen, TypeOK, screen, held, client
<1>7. EpochsInv'
  BY <1>0, <1>1, <1>4, <1>5 DEF OnOpen, EpochsInv, client
<1>8. /\ HowMany(toWorker', FramesOf(epoch)) = HowMany(toWorker, FramesOf(epoch))
      /\ HowMany(toClient', AnswersTo(epoch)) = HowMany(toClient, AnswersTo(epoch))
      /\ Asked' = Asked
  BY <1>0, <1>1, <1>2, <1>3, <1>5, CountsAreNat DEF Asked
<1>9. UNCHANGED <<screen, held, client>>
  BY DEF OnOpen
<1> QED BY <1>0, <1>6, <1>7, <1>8, <1>9, CountsAreNat, WorkerKeeps

LEMMA OnCloseKeeps ==
  ASSUME SessionInv, OnClose
  PROVE  SessionInv'
<1>0. TypeOK /\ EpochsInv /\ epoch \in Nat /\ epoch' = epoch /\ verifying' = verifying
  BY DEF SessionInv, TypeOK, OnClose, client
<1> DEFINE r == Head(toWorker)
<1>1. /\ r \in Requests /\ r.epoch <= epoch /\ r.type = "close" /\ toWorker' \in Seq(Requests)
      /\ \A i \in DOMAIN toWorker' : toWorker'[i].epoch <= epoch
      /\ \A kind : HowMany(toWorker', kind) = HowMany(toWorker, kind) - IF r \in kind THEN 1 ELSE 0
  BY <1>0, WorkerTakes DEF OnClose
<1>2. r \notin FramesOf(epoch) /\ r \notin VerifiesOf(epoch)
  BY <1>1 DEF FramesOf, VerifiesOf
<1> HIDE DEF r
<1>3. TypeOK'
  BY <1>0, <1>1 DEF OnClose, TypeOK, screen, held, client
<1>4. EpochsInv'
  BY <1>0, <1>1 DEF OnClose, EpochsInv, client
<1>5. /\ HowMany(toWorker', FramesOf(epoch)) = HowMany(toWorker, FramesOf(epoch))
      /\ toClient' = toClient /\ Asked' = Asked
  BY <1>0, <1>1, <1>2, CountsAreNat DEF OnClose, Asked
<1> QED BY <1>0, <1>3, <1>4, <1>5, CountsAreNat, WorkerKeeps DEF OnClose

\* The answer to a frame, whatever becomes of it, is for the slot it took.
LEMMA FrameIsAnswered ==
  ASSUME SessionInv, Handles("frame"), NEW a \in Events, a.type \in {"frame", "fatal"},
         a.epoch = Head(toWorker).epoch, UNCHANGED <<screen, held, client, current, verifying>>,
         pipe' \in {"none", "active", "complete", "faulted"},
         \/ toClient' = Append(toClient, a)
         \/ \E p \in Events : /\ p.type = "progress" /\ p.epoch <= epoch
                              /\ toClient' = Append(Append(toClient, a), p)
  PROVE  SessionInv'
<1>0. TypeOK /\ EpochsInv /\ epoch \in Nat /\ epoch' = epoch /\ verifying' = verifying
  BY DEF SessionInv, TypeOK, client
<1> DEFINE r == Head(toWorker)
<1>1. /\ r \in Requests /\ r.epoch <= epoch /\ r.type = "frame" /\ toWorker' \in Seq(Requests)
      /\ \A i \in DOMAIN toWorker' : toWorker'[i].epoch <= epoch
      /\ \A kind : HowMany(toWorker', kind) = HowMany(toWorker, kind) - IF r \in kind THEN 1 ELSE 0
  BY <1>0, WorkerTakes
<1>2. /\ r \notin VerifiesOf(epoch) /\ a \notin VerdictsOf(epoch)
      /\ r \in FramesOf(epoch) <=> a \in AnswersTo(epoch)
  BY <1>1 DEF FramesOf, VerifiesOf, AnswersTo, VerdictsOf
<1>3. /\ toClient' \in Seq(Events)
      /\ \A i \in DOMAIN toClient' : toClient'[i].epoch <= epoch
      /\ HowMany(toClient', AnswersTo(epoch)) =
           HowMany(toClient, AnswersTo(epoch)) + IF a \in AnswersTo(epoch) THEN 1 ELSE 0
      /\ HowMany(toClient', VerdictsOf(epoch)) = HowMany(toClient, VerdictsOf(epoch))
  <2>1. /\ Append(toClient, a) \in Seq(Events)
        /\ \A i \in DOMAIN Append(toClient, a) : Append(toClient, a)[i].epoch <= epoch
        /\ \A kind : HowMany(Append(toClient, a), kind) =
                       HowMany(toClient, kind) + IF a \in kind THEN 1 ELSE 0
    BY <1>0, <1>1, AtEnd, HowManyAppended DEF TypeOK, EpochsInv
  <2>2. CASE toClient' = Append(toClient, a)
    BY <1>0, <1>2, <2>1, <2>2, CountsAreNat
  <2>3. ASSUME NEW p \in Events, p.type = "progress", p.epoch <= epoch,
               toClient' = Append(Append(toClient, a), p)
        PROVE  /\ toClient' \in Seq(Events)
               /\ \A i \in DOMAIN toClient' : toClient'[i].epoch <= epoch
               /\ HowMany(toClient', AnswersTo(epoch)) =
                    HowMany(toClient, AnswersTo(epoch)) + IF a \in AnswersTo(epoch) THEN 1 ELSE 0
               /\ HowMany(toClient', VerdictsOf(epoch)) = HowMany(toClient, VerdictsOf(epoch))
    <3>1. p \notin AnswersTo(epoch) /\ p \notin VerdictsOf(epoch)
      BY <2>3 DEF AnswersTo, VerdictsOf
    <3>2. /\ toClient' \in Seq(Events)
          /\ \A i \in DOMAIN toClient' : toClient'[i].epoch <= epoch
          /\ \A kind : HowMany(toClient', kind) =
                         HowMany(Append(toClient, a), kind) + IF p \in kind THEN 1 ELSE 0
      <4> DEFINE q == Append(toClient, a)
      <4>1. q \in Seq(Events) /\ \A i \in DOMAIN q : q[i].epoch <= epoch
        BY <2>1
      <4> HIDE DEF q
      <4>2. /\ Append(q, p) \in Seq(Events)
            /\ \A i \in DOMAIN Append(q, p) : Append(q, p)[i].epoch <= epoch
            /\ \A kind : HowMany(Append(q, p), kind) =
                           HowMany(q, kind) + IF p \in kind THEN 1 ELSE 0
        BY <1>0, <2>3, <4>1, AtEnd, HowManyAppended
      <4> QED BY <2>3, <4>2 DEF q
    <3> QED BY <1>0, <1>2, <2>1, <3>1, <3>2, CountsAreNat
  <2> QED BY <2>2, <2>3
<1> HIDE DEF r
<1>4. TypeOK'
  BY <1>0, <1>1, <1>3 DEF TypeOK, screen, held, client
<1>5. EpochsInv'
  BY <1>0, <1>1, <1>3 DEF EpochsInv, client
<1>6. /\ HowMany(toWorker', FramesOf(epoch)) + HowMany(toClient', AnswersTo(epoch)) =
           HowMany(toWorker, FramesOf(epoch)) + HowMany(toClient, AnswersTo(epoch))
      /\ Asked' = Asked
  BY <1>0, <1>1, <1>2, <1>3, CountsAreNat DEF Asked
<1> QED BY <1>0, <1>4, <1>5, <1>6, CountsAreNat, WorkerKeeps

LEMMA OnFrameStaleKeeps ==
  ASSUME SessionInv, OnFrameStale
  PROVE  SessionInv'
<1> DEFINE r == Head(toWorker)
           a == Event("frame", r.epoch)
<1>1. r \in Requests
  BY WorkerTakes DEF SessionInv, OnFrameStale
<1>2. a \in Events /\ a.type = "frame" /\ a.epoch = r.epoch
  BY <1>1 DEF Event, Events, Requests
<1>3. /\ Handles("frame") /\ toClient' = Append(toClient, a)
      /\ UNCHANGED <<screen, held, client, current, verifying>>
      /\ pipe' \in {"none", "active", "complete", "faulted"}
  BY DEF SessionInv, TypeOK, OnFrameStale, work
<1> QED BY <1>2, <1>3, FrameIsAnswered

LEMMA OnFrameThrowsKeeps ==
  ASSUME SessionInv, OnFrameThrows
  PROVE  SessionInv'
<1> DEFINE r == Head(toWorker)
           a == Event("fatal", r.epoch)
<1>1. r \in Requests
  BY WorkerTakes DEF SessionInv, OnFrameThrows
<1>2. a \in Events /\ a.type = "fatal" /\ a.epoch = r.epoch
  BY <1>1 DEF Event, Events, Requests
<1>3. /\ Handles("frame") /\ toClient' = Append(toClient, a)
      /\ UNCHANGED <<screen, held, client, current, verifying>>
      /\ pipe' \in {"none", "active", "complete", "faulted"}
  BY DEF SessionInv, TypeOK, OnFrameThrows, work
<1> QED BY <1>2, <1>3, FrameIsAnswered

LEMMA OnFrameKeeps ==
  ASSUME SessionInv, OnFrame
  PROVE  SessionInv'
<1> DEFINE r == Head(toWorker)
           a == Event("frame", r.epoch)
<1>1. r \in Requests
  BY WorkerTakes DEF SessionInv, OnFrame
<1>2. a \in Events /\ a.type = "frame" /\ a.epoch = r.epoch
  BY <1>1 DEF Event, Events, Requests
<1>3. /\ Handles("frame") /\ UNCHANGED <<screen, held, client, current, verifying>>
      /\ pipe' \in {"none", "active", "complete", "faulted"}
  BY DEF SessionInv, TypeOK, OnFrame, Outcomes
<1>4. \/ toClient' = Append(toClient, a)
      \/ \E fresh \in BOOLEAN :
           toClient' = Append(Append(toClient, a), Progress(current, pipe', fresh))
  BY DEF OnFrame
<1>5. \A fresh \in BOOLEAN :
        LET p == Progress(current, pipe', fresh)
        IN  p \in Events /\ p.type = "progress" /\ p.epoch <= epoch
  BY <1>3 DEF SessionInv, TypeOK, EpochsInv, Progress, Events
<1> HIDE DEF a
<1> QED BY <1>2, <1>3, <1>4, <1>5, FrameIsAnswered

LEMMA OnVerifyKeeps ==
  ASSUME SessionInv, OnVerify
  PROVE  SessionInv'
<1>0. /\ TypeOK /\ EpochsInv /\ epoch \in Nat /\ epoch' = epoch /\ toClient' = toClient
      /\ verifying \subseteq Nat
  BY DEF SessionInv, TypeOK, OnVerify, client
<1> DEFINE r == Head(toWorker)
<1>1. /\ r \in Requests /\ r.epoch <= epoch /\ r.type = "verify" /\ toWorker' \in Seq(Requests)
      /\ \A i \in DOMAIN toWorker' : toWorker'[i].epoch <= epoch
      /\ \A kind : HowMany(toWorker', kind) = HowMany(toWorker, kind) - IF r \in kind THEN 1 ELSE 0
  BY <1>0, WorkerTakes DEF OnVerify
<1>2. r \notin FramesOf(epoch) /\ (r \in VerifiesOf(epoch) <=> r.epoch = epoch) /\ r.epoch \in Nat
  BY <1>1 DEF FramesOf, VerifiesOf, Requests
<1>3. verifying' = verifying \/ verifying' = verifying \cup {r.epoch}
  BY DEF OnVerify
<1> HIDE DEF r
<1>4. TypeOK'
  BY <1>0, <1>1, <1>2, <1>3 DEF OnVerify, TypeOK, screen, held, client
<1>5. EpochsInv'
  BY <1>0, <1>1, <1>3 DEF OnVerify, EpochsInv, client
<1>6. HowMany(toWorker', FramesOf(epoch)) = HowMany(toWorker, FramesOf(epoch))
  BY <1>0, <1>1, <1>2, CountsAreNat
<1>7. Asked' <= Asked
  <2> DEFINE w == HowMany(toWorker, VerifiesOf(epoch))
             c == HowMany(toClient, VerdictsOf(epoch))
  <2>1. w \in Nat /\ c \in Nat
    BY <1>0, CountsAreNat
  <2>2. /\ HowMany(toWorker', VerifiesOf(epoch)) = w - IF r.epoch = epoch THEN 1 ELSE 0
        /\ HowMany(toClient', VerdictsOf(epoch)) = c
    BY <1>0, <1>1, <1>2
  <2>3. epoch \in verifying' => epoch \in verifying \/ r.epoch = epoch
    BY <1>3
  <2>4. /\ Asked = w + c + IF epoch \in verifying THEN 1 ELSE 0
        /\ Asked' = HowMany(toWorker', VerifiesOf(epoch)) + HowMany(toClient', VerdictsOf(epoch))
                    + IF epoch \in verifying' THEN 1 ELSE 0
    BY <1>0 DEF Asked
  <2>5. verifying \subseteq verifying'
    BY <1>3
  <2> HIDE DEF w, c
  <2> QED BY <2>1, <2>2, <2>3, <2>4, <2>5
<1>8. UNCHANGED <<screen, held, client>>
  BY DEF OnVerify
<1> QED BY <1>0, <1>4, <1>5, <1>6, <1>7, <1>8, CountsAreNat, WorkerKeeps

LEMMA VerifySettlesKeeps ==
  ASSUME SessionInv, NEW e \in verifying, VerifySettles(e)
  PROVE  SessionInv'
<1>0. /\ TypeOK /\ EpochsInv /\ epoch \in Nat /\ epoch' = epoch /\ toWorker' = toWorker
      /\ verifying \subseteq Nat /\ verifying' = verifying \ {e} /\ e \in Nat /\ e <= epoch
      /\ toClient \in Seq(Events)
  BY DEF SessionInv, TypeOK, EpochsInv, VerifySettles, client
<1> DEFINE v == Event("verified", e)
           p == Progress(e, "complete", TRUE)
           f == Event("failed", e)
<1>1. /\ {v, p, f} \subseteq Events /\ v.epoch = e /\ p.epoch = e /\ f.epoch = e
      /\ \A m \in {v, p, f} : m \notin AnswersTo(epoch)
      /\ \A m \in {p, f} : m \notin VerdictsOf(epoch)
      /\ v \in VerdictsOf(epoch) <=> e = epoch
  BY <1>0 DEF Event, Progress, Events, AnswersTo, VerdictsOf
<1>2. toClient' \in {toClient, Append(Append(toClient, v), p), Append(toClient, f)}
  <2>1. \A a, b \in Events : toClient \o <<a, b>> = Append(Append(toClient, a), b)
    BY <1>0
  <2> QED BY <1>1, <2>1 DEF VerifySettles, VerifyFailed
<1> HIDE DEF v, p, f
<1>3. /\ toClient' \in Seq(Events)
      /\ \A i \in DOMAIN toClient' : toClient'[i].epoch <= epoch
      /\ HowMany(toClient', AnswersTo(epoch)) = HowMany(toClient, AnswersTo(epoch))
      /\ HowMany(toClient', VerdictsOf(epoch)) <=
           HowMany(toClient, VerdictsOf(epoch)) + IF e = epoch THEN 1 ELSE 0
  <2>1. CASE toClient' = toClient
    BY <1>0, <2>1, CountsAreNat DEF EpochsInv
  <2>2. CASE toClient' = Append(toClient, f)
    <3>1. /\ toClient' \in Seq(Events)
          /\ \A i \in DOMAIN toClient' : toClient'[i].epoch <= epoch
          /\ \A kind : HowMany(toClient', kind) = HowMany(toClient, kind) + IF f \in kind THEN 1 ELSE 0
      BY <1>0, <1>1, <2>2, ClientIsSent
    <3> QED BY <1>0, <1>1, <3>1, CountsAreNat
  <2>3. CASE toClient' = Append(Append(toClient, v), p)
    <3> DEFINE q == Append(toClient, v)
    <3>1. /\ q \in Seq(Events) /\ \A i \in DOMAIN q : q[i].epoch <= epoch
          /\ \A kind : HowMany(q, kind) = HowMany(toClient, kind) + IF v \in kind THEN 1 ELSE 0
      BY <1>0, <1>1, AtEnd, HowManyAppended DEF EpochsInv
    <3> HIDE DEF q
    <3>2. /\ Append(q, p) \in Seq(Events)
          /\ \A i \in DOMAIN Append(q, p) : Append(q, p)[i].epoch <= epoch
          /\ \A kind : HowMany(Append(q, p), kind) = HowMany(q, kind) + IF p \in kind THEN 1 ELSE 0
      BY <1>0, <1>1, <3>1, AtEnd, HowManyAppended
    <3>3. toClient' = Append(q, p)
      BY <2>3 DEF q
    <3> QED BY <1>0, <1>1, <3>1, <3>2, <3>3, CountsAreNat
  <2> QED BY <1>2, <2>1, <2>2, <2>3
<1>4. TypeOK'
  BY <1>0, <1>3 DEF VerifySettles, TypeOK, screen, held, client
<1>5. EpochsInv'
  BY <1>0, <1>3 DEF VerifySettles, EpochsInv, client
<1>6. Asked' <= Asked
  <2>1. CASE e = epoch
    BY <1>0, <1>3, <2>1, <1>4, CountsAreNat, CountsNext DEF Asked
  <2>2. CASE e # epoch
    BY <1>0, <1>3, <2>2, <1>4, CountsAreNat, CountsNext DEF Asked
  <2> QED BY <2>1, <2>2
<1>7. UNCHANGED <<screen, held, client>>
  BY DEF VerifySettles
<1> QED BY <1>0, <1>3, <1>4, <1>5, <1>6, <1>7, CountsAreNat, WorkerKeeps
-----------------------------------------------------------------------------
(* The client hears *)

LEMMA OnFrameAnswerKeeps ==
  ASSUME SessionInv, OnFrameAnswer
  PROVE  SessionInv'
<1>0. /\ TypeOK /\ EpochsInv /\ epoch \in Nat /\ epoch' = epoch /\ toWorker' = toWorker
      /\ inFlight \in Nat /\ verifying' = verifying
  BY DEF SessionInv, TypeOK, OnFrameAnswer, work
<1> DEFINE m == Head(toClient)
<1>1. /\ m \in Events /\ m.type = "frame" /\ toClient' \in Seq(Events)
      /\ \A i \in DOMAIN toClient' : toClient'[i].epoch <= epoch
      /\ \A kind : HowMany(toClient', kind) = HowMany(toClient, kind) - IF m \in kind THEN 1 ELSE 0
  BY <1>0, ClientTakes DEF OnFrameAnswer
<1>2. m \notin VerdictsOf(epoch)
  BY <1>1 DEF VerdictsOf
<1> HIDE DEF m
<1>3. TypeOK'
  <2>1. inFlight' \in 0 .. MaxInFlight
    BY <1>0, ReceiverAssumption DEF OnFrameAnswer, TypeOK
  <2> QED BY <1>0, <1>1, <2>1 DEF OnFrameAnswer, TypeOK, screen, held, work
<1>4. EpochsInv'
  BY <1>0, <1>1 DEF OnFrameAnswer, EpochsInv, work
<1>5. SlotsInv'
  <2>1. HowMany(toClient', AnswersTo(epoch)) \in Nat /\ HowMany(toWorker, FramesOf(epoch)) \in Nat
        /\ HowMany(toClient, AnswersTo(epoch)) \in Nat
    BY <1>0, <1>3, CountsAreNat, CountsNext
  <2>2. inFlight' = IF inFlight > 0 THEN inFlight - 1 ELSE inFlight
    BY DEF OnFrameAnswer
  <2> QED BY <1>0, <1>1, <2>1, <2>2 DEF SessionInv, SlotsInv
<1>6. Asked' = Asked
  BY <1>0, <1>1, <1>2, CountsAreNat DEF Asked
<1>7. VerdictInv'
  BY <1>6 DEF SessionInv, VerdictInv, OnFrameAnswer, screen
<1>8. ScreenInv' /\ EndedHoldsNoFile'
  BY DEF SessionInv, ScreenInv, OnFrameAnswer, EndedHoldsNoFile, screen, held
<1> QED BY <1>3, <1>4, <1>5, <1>7, <1>8 DEF SessionInv

\* A report, a verdict and a failure are read of the client's session alone.
LEMMA OnOutcome ==
  ASSUME SessionInv, NEW type \in {"progress", "verified", "failed"}, Hears(type),
         state' \in States, verified' \in Nat,
         UNCHANGED <<shown, urgent, visible, exports, erasing, camera, client, toWorker, work>>
  PROVE  /\ TypeOK' /\ SlotsInv' /\ EpochsInv'
         /\ IF type = "verified" /\ IsOurs THEN Asked # 0 ELSE Asked' = Asked
<1>0. /\ TypeOK /\ EpochsInv /\ epoch \in Nat /\ epoch' = epoch /\ toWorker' = toWorker
      /\ inFlight' = inFlight /\ inFlight \in Nat /\ verifying' = verifying
  BY DEF SessionInv, TypeOK, client, work
<1> DEFINE m == Head(toClient)
<1>1. /\ m \in Events /\ m.type = type /\ toClient' \in Seq(Events)
      /\ \A i \in DOMAIN toClient' : toClient'[i].epoch <= epoch
      /\ \A kind : HowMany(toClient', kind) = HowMany(toClient, kind) - IF m \in kind THEN 1 ELSE 0
  BY <1>0, ClientTakes
<1>2. /\ m \notin AnswersTo(epoch)
      /\ m \in VerdictsOf(epoch) <=> type = "verified" /\ m.epoch = epoch
  BY <1>1 DEF AnswersTo, VerdictsOf
<1>3. IsOurs <=> m.epoch = epoch
  BY DEF IsOurs
<1> HIDE DEF m
<1>4. TypeOK'
  BY <1>0, <1>1 DEF TypeOK, client, work
<1>5. EpochsInv'
  BY <1>0, <1>1 DEF EpochsInv, client, work
<1>6. HowMany(toClient', AnswersTo(epoch)) = HowMany(toClient, AnswersTo(epoch))
  BY <1>0, <1>1, <1>2, CountsAreNat
<1>7. SlotsInv'
  BY <1>0, <1>6 DEF SessionInv, SlotsInv
<1>8. IF type = "verified" /\ IsOurs THEN Asked' = Asked - 1 ELSE Asked' = Asked
  <2>1. HowMany(toClient', VerdictsOf(epoch)) =
          HowMany(toClient, VerdictsOf(epoch)) - IF type = "verified" /\ IsOurs THEN 1 ELSE 0
    BY <1>1, <1>2, <1>3
  <2>2. HowMany(toClient, VerdictsOf(epoch)) \in Nat /\ HowMany(toWorker, VerifiesOf(epoch)) \in Nat
    BY <1>0, CountsAreNat
  <2> QED BY <1>0, <2>1, <2>2 DEF Asked
<1>9. Asked \in Nat /\ Asked' \in Nat
  BY <1>0, <1>4, CountsAreNat, CountsNext
<1> QED BY <1>4, <1>5, <1>7, <1>8, <1>9

LEMMA OnProgressKeeps ==
  ASSUME SessionInv, OnProgress
  PROVE  SessionInv'
<1>1. PICK s \in States : /\ s = state \/ s = Reduce(state, "FRAME_ACCEPTED")
                          /\ \/ state' = s \/ state' = Reduce(s, "SESSION_COMPLETE")
                             \/ state' = Reduce(state, "SESSION_FAILED")
  <2>1. state \in States /\ Reduce(state, "FRAME_ACCEPTED") \in States
    BY ReduceStays DEF SessionInv, TypeOK
  <2> QED BY <2>1 DEF OnProgress
<1>2. state' \in States /\ state \in States
  BY <1>1, ReduceStays DEF SessionInv, TypeOK
<1>3. TypeOK' /\ SlotsInv' /\ EpochsInv' /\ Asked' = Asked
  BY <1>2, OnOutcome DEF SessionInv, TypeOK, OnProgress, held
<1>4. VerdictInv'
  BY <1>1, <1>2, <1>3, Reduces
     DEF SessionInv, VerdictInv, OnProgress, client, States, Live, CameraStates, Clearing, Receiving
<1>5. ScreenInv'
  BY <1>1, <1>2, Reduces
     DEF SessionInv, ScreenInv, OnProgress, held, client, States, Live, CameraStates, Clearing,
         Receiving, Startable
<1>6. EndedHoldsNoFile'
  BY <1>1, <1>2, Reduces
     DEF SessionInv, EndedHoldsNoFile, OnProgress, held, client,
         States, Live, CameraStates, Clearing, Receiving
<1> QED BY <1>3, <1>4, <1>5, <1>6 DEF SessionInv

LEMMA OnFailedKeeps ==
  ASSUME SessionInv, OnFailed
  PROVE  SessionInv'
<1>1. state' = state \/ state' = Reduce(state, "SESSION_FAILED")
  BY DEF OnFailed, Dispatch
<1>2. state' \in States /\ state \in States
  BY <1>1, ReduceStays DEF SessionInv, TypeOK
<1>3. TypeOK' /\ SlotsInv' /\ EpochsInv' /\ Asked' = Asked
  BY <1>2, OnOutcome DEF SessionInv, TypeOK, OnFailed, held
<1>4. VerdictInv'
  BY <1>1, <1>2, <1>3, Reduces
     DEF SessionInv, VerdictInv, OnFailed, client, States, Live, CameraStates, Clearing, Receiving
<1>5. ScreenInv'
  BY <1>1, <1>2, Reduces
     DEF SessionInv, ScreenInv, OnFailed, held, client, States, Live, CameraStates, Clearing,
         Receiving, Startable
<1>6. EndedHoldsNoFile'
  BY <1>1, <1>2, Reduces
     DEF SessionInv, EndedHoldsNoFile, OnFailed, held, client,
         States, Live, CameraStates, Clearing, Receiving
<1> QED BY <1>3, <1>4, <1>5, <1>6 DEF SessionInv

LEMMA OnVerifiedKeeps ==
  ASSUME SessionInv, OnVerified
  PROVE  SessionInv'
<1>0. state \in States /\ verified \in Nat /\ epoch \in Nat /\ TypeOK
  BY DEF SessionInv, TypeOK
<1>1. CASE IsOurs
  <2>1. state' = Reduce(state, "VERIFIED") /\ verified' = epoch
    BY <1>1 DEF OnVerified, Dispatch, IsOurs
  <2>2. state' \in States
    BY <1>0, <2>1, ReduceStays
  <2>3. TypeOK' /\ SlotsInv' /\ EpochsInv' /\ Asked # 0 /\ opened
    BY <1>0, <1>1, <2>1, <2>2, OnOutcome DEF OnVerified, SessionInv, VerdictInv
  <2>4. VerdictInv'
    BY <2>3 DEF VerdictInv, OnVerified, client
  <2>5. ScreenInv'
    BY <1>0, <2>1, <2>3, Reduces
       DEF SessionInv, ScreenInv, VerdictInv, OnVerified, client, States, Live, CameraStates,
           Clearing, Receiving, Startable
  <2>6. EndedHoldsNoFile'
    BY <2>3 DEF SessionInv, EndedHoldsNoFile, OnVerified, client
  <2> QED BY <2>3, <2>4, <2>5, <2>6 DEF SessionInv
<1>2. CASE ~IsOurs
  <2>1. state' = state /\ verified' = verified
    BY <1>2 DEF OnVerified
  <2>2. TypeOK' /\ SlotsInv' /\ EpochsInv' /\ Asked' = Asked
    BY <1>0, <1>2, <2>1, OnOutcome DEF OnVerified
  <2>3. UNCHANGED <<screen, held, client>>
    BY <2>1 DEF OnVerified, screen, held, client
  <2>4. VerdictInv'
    BY <2>2, <2>3 DEF SessionInv, VerdictInv, screen, client
  <2> QED BY <2>2, <2>3, <2>4, PageStays DEF SessionInv
<1> QED BY <1>1, <1>2

LEMMA WorkerLostKeeps ==
  ASSUME SessionInv, WorkerLost
  PROVE  SessionInv'
<1>0. TypeOK /\ epoch \in Nat
  BY DEF SessionInv, TypeOK
<1>1. TypeOK'
  <2>1. state' \in States /\ 0 \in 0 .. MaxInFlight
    BY <1>0, ReduceStays, ReceiverAssumption DEF WorkerLost, Dispatch, TypeOK
  <2>2. toWorker' \in Seq(Requests) /\ toClient' \in Seq(Events)
    BY DEF WorkerLost
  <2>3. /\ UNCHANGED <<shown, urgent, visible, verified, exports, erasing, camera, session>>
        /\ alive' \in BOOLEAN /\ inFlight' = 0 /\ opened' \in BOOLEAN
    BY DEF WorkerLost, held
  <2>4. /\ epoch' \in Nat /\ current' \in Nat /\ verifying' \subseteq Nat
        /\ pipe' \in {"none", "active", "complete", "faulted"}
    BY <1>0 DEF WorkerLost
  <2> QED BY <1>0, <2>1, <2>2, <2>3, <2>4 DEF TypeOK
<1>2. EpochsInv'
  BY <1>0 DEF WorkerLost, EpochsInv
<1>3. SlotsInv' /\ Asked' = 0
  <2>1. \A kind : HowMany(toWorker', kind) = 0 /\ HowMany(toClient', kind) = 0
    BY NoneOfNothing DEF WorkerLost
  <2> QED BY <2>1 DEF WorkerLost, SlotsInv, Asked
<1>4. VerdictInv'
  BY <1>3 DEF VerdictInv
<1>5. ScreenInv' /\ EndedHoldsNoFile'
  BY <1>0, Reduces
     DEF SessionInv, WorkerLost, Dispatch, ScreenInv, EndedHoldsNoFile,
         TypeOK, held, States, Live, CameraStates, Clearing, Receiving, Startable
<1> QED BY <1>1, <1>2, <1>3, <1>4, <1>5 DEF SessionInv

LEMMA OnFatalKeeps ==
  ASSUME SessionInv, OnFatal
  PROVE  SessionInv'
<1>1. CASE IsOurs
  BY <1>1, WorkerLostKeeps DEF OnFatal
<1>2. CASE ~IsOurs
  <2>0. /\ TypeOK /\ EpochsInv /\ epoch \in Nat
        /\ Hears("fatal") /\ UNCHANGED <<screen, held, client, toWorker, work>>
    BY <1>2 DEF SessionInv, TypeOK, OnFatal, Hears
  <2> DEFINE m == Head(toClient)
  <2>1. /\ m \in Events /\ m.type = "fatal" /\ toClient' \in Seq(Events)
        /\ \A i \in DOMAIN toClient' : toClient'[i].epoch <= epoch
        /\ \A kind : HowMany(toClient', kind) = HowMany(toClient, kind) - IF m \in kind THEN 1 ELSE 0
    BY <2>0, ClientTakes
  <2>2. m \notin AnswersTo(epoch) /\ m \notin VerdictsOf(epoch)
    BY <1>2, <2>1 DEF AnswersTo, VerdictsOf, IsOurs
  <2> HIDE DEF m
  <2>3. TypeOK'
    BY <2>0, <2>1 DEF TypeOK, screen, held, client, work
  <2>4. EpochsInv'
    BY <2>0, <2>1 DEF EpochsInv, client, work
  <2>5. /\ HowMany(toClient', AnswersTo(epoch)) = HowMany(toClient, AnswersTo(epoch))
        /\ epoch' = epoch /\ toWorker' = toWorker /\ Asked' = Asked
    BY <2>0, <2>1, <2>2, CountsAreNat DEF Asked, client, work
  <2>6. UNCHANGED <<screen, held, client>>
    BY <2>0
  <2> QED BY <2>0, <2>3, <2>4, <2>5, <2>6, CountsAreNat, WorkerKeeps
<1> QED BY <1>1, <1>2
-----------------------------------------------------------------------------
(* Every step *)

LEMMA SessionInit ==
  ASSUME Init
  PROVE  SessionInv
<1>1. TypeOK
  <2>1. 0 \in 0 .. MaxInFlight /\ "IDLE" \in States
    BY ReceiverAssumption DEF States, Clearing
  <2>2. <<>> \in Seq(Requests) /\ <<>> \in Seq(Events)
    OBVIOUS
  <2> QED BY <2>1, <2>2 DEF Init, TypeOK
<1>2. \A kind : HowMany(toWorker, kind) = 0 /\ HowMany(toClient, kind) = 0
  BY NoneOfNothing DEF Init
<1>3. SlotsInv /\ EpochsInv /\ VerdictInv
  BY <1>2 DEF Init, SlotsInv, EpochsInv, VerdictInv, Asked
<1>4. ScreenInv /\ EndedHoldsNoFile
  BY DEF Init, ScreenInv, EndedHoldsNoFile, Live, CameraStates,
         Clearing, Receiving, Startable
<1> QED BY <1>1, <1>3, <1>4 DEF SessionInv

LEMMA SessionStep ==
  ASSUME SessionInv, [Next]_vars
  PROVE  SessionInv'
<1>1. CASE Taps
  BY <1>1, TapReceiveKeeps, TapCancelKeeps, TapResetKeeps, TapSaveKeeps, TapEraseKeeps DEF Taps
<1>2. CASE Page
  BY <1>2, EraseEndsKeeps, ExportEndsKeeps, HideKeeps, ShowKeeps, StallKeeps DEF Page
<1>3. CASE Commit
  BY <1>3, CommitPreflightKeeps, CommitUnsupportedKeeps, CommitWarmingKeeps,
     CommitVerifyingKeeps, CommitEndedKeeps, CommitOtherKeeps DEF Commit
<1>4. CASE Camera
  BY <1>4, CameraReadyKeeps, CameraFailsKeeps, CameraAbandonedKeeps, CaptureKeeps DEF Camera
<1>5. CASE Worker
  BY <1>5, OnOpenKeeps, OnCloseKeeps, OnFrameStaleKeeps, OnFrameKeeps, OnFrameThrowsKeeps,
     OnVerifyKeeps, VerifySettlesKeeps DEF Worker
<1>6. CASE OnMessage
  BY <1>6, OnFrameAnswerKeeps, OnProgressKeeps, OnVerifiedKeeps, OnFailedKeeps, OnFatalKeeps
     DEF OnMessage
<1>7. CASE WorkerDies
  BY <1>7, WorkerLostKeeps DEF WorkerDies
<1>8. CASE UNCHANGED vars
  <2>1. UNCHANGED <<screen, held, client, toWorker, toClient, work>>
    BY <1>8 DEF vars
  <2>2. TypeOK'
    BY <2>1 DEF SessionInv, TypeOK, screen, held, client, work
  <2>3. SlotsInv' /\ EpochsInv' /\ Asked' = Asked
    BY <2>1, TrafficStays
  <2>4. VerdictInv'
    BY <2>1, <2>3 DEF SessionInv, VerdictInv, screen, client
  <2> QED BY <2>1, <2>2, <2>3, <2>4, PageStays DEF SessionInv
<1> QED BY <1>1, <1>2, <1>3, <1>4, <1>5, <1>6, <1>7, <1>8 DEF Next

LEMMA SessionHolds == Spec => []SessionInv
<1>1. Init => SessionInv
  BY SessionInit
<1>2. SessionInv /\ [Next]_vars => SessionInv'
  BY SessionStep
<1> QED BY <1>1, <1>2, PTL DEF Spec
-----------------------------------------------------------------------------
(* What a user can rely on *)

\* The machine, the queues and the worker stay in their types, and no more frames
\* are in flight than the client allows.
THEOREM SessionTypeCorrect == Spec => []TypeOK
<1>1. SessionInv => TypeOK
  BY DEF SessionInv
<1> QED BY <1>1, SessionHolds, PTL

\* Every slot in flight has a frame or an answer on its way, whatever epoch it was
\* taken in: a late answer can return a slot early, and none is ever lost.
LEMMA SlotsAreOwed ==
  ASSUME SessionInv
  PROVE  SlotsComeBack
<1>1. toWorker \in Seq(Requests) /\ toClient \in Seq(Events)
  BY DEF SessionInv, TypeOK
<1>2. /\ {i \in DOMAIN toWorker : toWorker[i].type = "frame" /\ toWorker[i].epoch = epoch}
           = {i \in DOMAIN toWorker : toWorker[i] \in FramesOf(epoch)}
      /\ {i \in DOMAIN toClient : /\ toClient[i].type \in {"frame", "fatal"}
                                  /\ toClient[i].epoch = epoch}
           = {i \in DOMAIN toClient : toClient[i] \in AnswersTo(epoch)}
  <2>1. /\ \A i \in DOMAIN toWorker : toWorker[i] \in Requests
        /\ \A i \in DOMAIN toClient : toClient[i] \in Events
    BY <1>1
  <2> QED BY <2>1 DEF FramesOf, AnswersTo
<1>3. Outstanding = HowMany(toWorker, FramesOf(epoch)) + HowMany(toClient, AnswersTo(epoch))
  BY <1>2 DEF Outstanding, HowMany
<1> QED BY <1>3 DEF SessionInv, SlotsInv, SlotsComeBack

\* The page says that it sees when it does, and only then; it speaks of bytes that
\* are there, and of cleared ones that are gone.
LEMMA ScreenFollows ==
  ASSUME SessionInv
  PROVE  ScanningSees /\ HiddenCameraStops /\ ScreenIsTrue
<1>1. ScanningSees
  BY DEF SessionInv, ScreenInv, ScanningSees, Receiving
<1>2. HiddenCameraStops
  BY DEF SessionInv, ScreenInv, HiddenCameraStops, Live
<1>3. ASSUME state = shown
      PROVE  CameraStatus(shown, FALSE) \in {"active", "active, waiting"} <=> camera = "live"
  <2>1. shown \in Receiving <=> camera = "live"
    BY <1>3 DEF SessionInv, ScreenInv, CameraStates, Receiving
  <2>2. CameraStatus(shown, FALSE) \in {"active", "active, waiting"} <=> shown \in Receiving
    BY DEF CameraStatus, Receiving
  <2> QED BY <2>1, <2>2
<1>4. ASSUME state = shown, MayOfferResume(shown), visible
      PROVE  opened
  BY <1>4 DEF SessionInv, ScreenInv, MayOfferResume, Receiving
<1>5. ASSUME state = shown
      PROVE  Announced(shown) \in {"cleared", "not saved"} => verified = 0 /\ ~opened
  BY <1>5 DEF SessionInv, Announced, EndedHoldsNoFile
<1> QED BY <1>1, <1>2, <1>3, <1>4, <1>5 DEF ScreenIsTrue

\* However taps, stalls, visibility, exports and the death of a worker fall between
\* a reducer's step and its effects: no slot is lost, a scanning screen has a camera
\* and a hidden page has none, and an ended session holds no file (App.tsx,
\* receiver-client.ts, receiver-state.ts).
THEOREM SessionsAreSound == Spec => []SessionSound
<1>1. SessionInv => SessionSound
  BY SlotsAreOwed, ScreenFollows DEF SessionSound, SessionInv
<1> QED BY <1>1, SessionHolds, PTL

\* What the page shows of all this is so: it speaks of an active camera exactly when
\* one runs, offers to resume only what is open, and of cleared bytes when they are
\* gone (the part of ScreenSound that is about the state; WhatIsSaidIsSo is the rest).
THEOREM ScreensAreTrue == Spec => []ScreenIsTrue
<1>1. SessionInv => ScreenIsTrue
  BY ScreenFollows
<1> QED BY <1>1, SessionHolds, PTL

\* A verdict that is heard is of a session that is open: the one on the screen.
LEMMA VerdictIsOfTheSession ==
  ASSUME SessionInv, OnVerified, IsOurs
  PROVE  epoch # 0 /\ epoch = session
<1>1. state \in States /\ state' \in States /\ verified' \in Nat
  BY ReduceStays DEF SessionInv, TypeOK, OnVerified, Dispatch, IsOurs
<1>2. Asked # 0
  BY <1>1, OnOutcome DEF OnVerified
<1> QED BY <1>2 DEF SessionInv, VerdictInv, EpochsInv

\* A complete screen, and how it is left: a step that brings one about hears a
\* verdict, ends an export, or comes from one, and the file and the session stand
\* still but where a session starts or ends.
LEMMA FileStays ==
  ASSUME SessionInv, CompleteHoldsFile, UNCHANGED <<verified, session>>,
         state' \in {"COMPLETE", "EXPORTING"} => state \in {"COMPLETE", "EXPORTING"}
  PROVE  CompleteHoldsFile'
BY DEF CompleteHoldsFile

LEMMA FileStep ==
  ASSUME SessionInv, [Next]_vars, CompleteHoldsFile
  PROVE  CompleteHoldsFile' \/ StrayExport
<1> DEFINE Done == {"COMPLETE", "EXPORTING"}
<1>0. state \in States
  BY DEF SessionInv, TypeOK
<1>1. CASE Taps
  <2>1. UNCHANGED <<verified, session>>
    BY <1>1 DEF Taps, TapReceive, TapCancel, TapReset, TapSave, TapErase, held, client
  <2>2. state' \in Done => state \in Done
    BY <1>0, <1>1, Reduces
       DEF Taps, TapReceive, TapCancel, TapReset, TapSave, TapErase, Tap, Dispatch, screen
  <2> QED BY <2>1, <2>2, FileStays
<1>2. CASE Page
  <2>1. CASE EraseEnds \/ Hide \/ Show \/ Stall
    <3>1. UNCHANGED <<verified, session>>
      BY <2>1 DEF EraseEnds, Hide, Show, Stall, held, client
    <3>2. state' \in Done => state \in Done
      BY <1>0, <2>1, Reduces DEF EraseEnds, Hide, Show, Stall, Dispatch
    <3> QED BY <3>1, <3>2, FileStays
  <2>2. CASE ExportEnds /\ verified' = 0 /\ Dispatch("EXPORT_SETTLED")
    <3>1. state' = IF state \in {"EXPORTING"} THEN "IDLE" ELSE state
      BY <1>0, <2>2, Reduces DEF Dispatch
    <3>2. exports' = exports - 1 /\ verified' = 0
      BY <2>2 DEF ExportEnds
    <3> QED BY <3>1, <3>2 DEF CompleteHoldsFile, StrayExport
  <2>3. CASE ExportEnds /\ Dispatch("VERIFIED") /\ UNCHANGED verified
    <3>1. state' = IF state \in {"VERIFYING", "EXPORTING"} THEN "COMPLETE" ELSE state
      BY <1>0, <2>3, Reduces DEF Dispatch
    <3>2. exports' = exports - 1 /\ UNCHANGED <<verified, session>>
      BY <2>3 DEF ExportEnds, client
    <3> QED BY <3>1, <3>2 DEF CompleteHoldsFile, StrayExport
  <2> QED BY <1>2, <2>1, <2>2, <2>3 DEF Page, ExportEnds
<1>3. CASE Commit
  <2>1. CASE CommitPreflight \/ CommitUnsupported
    BY <1>0, <2>1, Reduces DEF CommitPreflight, CommitUnsupported, Dispatch, CompleteHoldsFile, Live
  <2>2. CASE CommitEnded
    BY <2>2 DEF CommitEnded, Clearing, CompleteHoldsFile
  <2>3. CASE CommitWarming \/ CommitVerifying \/ CommitOther
    BY <2>3, FileStays DEF CommitWarming, CommitVerifying, CommitOther, client
  <2> QED BY <1>3, <2>1, <2>2, <2>3 DEF Commit
<1>4. CASE Camera
  <2>1. UNCHANGED <<verified, session>>
    BY <1>4 DEF Camera, CameraReady, CameraFails, CameraAbandoned, Capture, held, client
  <2>2. state' \in Done => state \in Done
    BY <1>0, <1>4, Reduces
       DEF Camera, CameraReady, CameraFails, CameraAbandoned, Capture, Dispatch, screen
  <2> QED BY <2>1, <2>2, FileStays
<1>5. CASE Worker
  <2>1. UNCHANGED <<verified, session, state>>
    BY <1>5 DEF Worker, OnOpen, OnClose, OnFrameStale, OnFrame, OnFrameThrows, OnVerify,
                VerifySettles, screen, held, client
  <2> QED BY <2>1, FileStays
<1>6. ASSUME WorkerLost
      PROVE  CompleteHoldsFile'
  <2>1. UNCHANGED <<verified, session>>
    BY <1>6 DEF WorkerLost, held
  <2>2. state' \in Done => state \in Done
    BY <1>0, <1>6, Reduces DEF WorkerLost, Dispatch
  <2> QED BY <2>1, <2>2, FileStays
<1>7. CASE OnMessage
  <2>1. CASE OnFrameAnswer
    BY <2>1, FileStays DEF OnFrameAnswer, screen, held
  <2>2. CASE OnProgress
    <3>1. UNCHANGED <<verified, session>>
      BY <2>2 DEF OnProgress, held, client
    <3>2. Reduce(state, "FRAME_ACCEPTED") \in States
      BY <1>0, ReduceStays
    <3>3. state' \in Done => state \in Done
      BY <1>0, <2>2, <3>2, Reduces DEF OnProgress
    <3> QED BY <3>1, <3>3, FileStays
  <2>3. CASE OnVerified
    <3>1. CASE IsOurs
      <4>1. verified' = epoch /\ epoch # 0 /\ epoch = session /\ session' = session
        BY <2>3, <3>1, VerdictIsOfTheSession DEF OnVerified, IsOurs, client
      <4> QED BY <4>1 DEF CompleteHoldsFile
    <3>2. CASE ~IsOurs
      BY <2>3, <3>2, FileStays DEF OnVerified, client
    <3> QED BY <3>1, <3>2
  <2>4. CASE OnFailed
    <3>1. UNCHANGED <<verified, session>>
      BY <2>4 DEF OnFailed, held, client
    <3>2. state' \in Done => state \in Done
      BY <1>0, <2>4, Reduces DEF OnFailed, Dispatch
    <3> QED BY <3>1, <3>2, FileStays
  <2>5. CASE OnFatal
    BY <2>5, <1>6, FileStays DEF OnFatal, screen, held, client
  <2> QED BY <1>7, <2>1, <2>2, <2>3, <2>4, <2>5 DEF OnMessage
<1>8. CASE WorkerDies
  BY <1>6, <1>8 DEF WorkerDies
<1>9. CASE UNCHANGED vars
  BY <1>9, FileStays DEF vars, screen, held, client
<1> QED BY <1>1, <1>2, <1>3, <1>4, <1>5, <1>7, <1>8, <1>9 DEF Next

\* Once a screen is complete with the file of its session, every step leaves it so or
\* leaves the screen, but for an export that settles where it is not the one shown:
\* its success takes the file from under the screen, its failure completes a screen
\* that still verifies (App.tsx:505-507).  Nothing is assumed of the sheet that saves.
THEOREM FilesAreKept == Spec => FileIsKept
<1>1. SessionInv /\ [Next]_vars => [CompleteHoldsFile => CompleteHoldsFile' \/ StrayExport]_vars
  BY FileStep
<1> QED BY <1>1, SessionHolds, PTL DEF Spec, FileIsKept
-----------------------------------------------------------------------------
(***************************************************************************)
(* What is said of it, as functions of messages, states and reports         *)
(***************************************************************************)
\* Whatever the size of the video, what camera.ts captures of it passes the guard of
\* worker-protocol.ts and the worker's pixel limit, and lies inside the video: a frame
\* over the limit would be answered "no code" for as long as the session lasts.
THEOREM EveryCaptureIsDecoded ==
  ASSUME NEW width \in Nat, NEW height \in Nat, NEW bitmap \in BOOLEAN, Captures(width, height)
  PROVE  /\ IsRequest(FrameMessage(width, height, bitmap))
         /\ Decodes(FrameMessage(width, height, bitmap), OpenMessage(TRUE).limits, TRUE)
         /\ RoiEdge(width, height) <= Smaller(width, height)
<1> DEFINE short == Smaller(width, height)
           source == SourceEdge(width, height)
           edge == RoiEdge(width, height)
           m == FrameMessage(width, height, bitmap)
<1>1. short \in Nat
  BY DEF Smaller
<1>2. source \in Nat /\ source <= short
  <2> HIDE DEF short
  <2>1. source = (short * 86) \div 100
    BY DEF SourceEdge, short
  <2> QED BY <1>1, <2>1
<1>3. edge \in Nat /\ edge <= source /\ edge <= 720 /\ edge >= 96
  BY <1>2 DEF RoiEdge, Captures, MaxRoiEdge, MinRoiEdge, Smaller
<1>4. edge * edge \in Nat /\ edge * edge <= 720 * 720
  <2> HIDE DEF edge
  <2>1. edge * edge <= edge * 720
    BY <1>3
  <2>2. edge * 720 <= 720 * 720
    BY <1>3
  <2> QED BY <1>3, <2>1, <2>2
<1>5. (100 * edge) \div source \in Nat
  BY <1>2, <1>3
<1>6. /\ m.type = "frame" /\ m.frameId = 1 /\ m.capturedAt = 1 /\ m.width = edge /\ m.height = edge
      /\ m.captureScale = (100 * edge) \div source /\ m.bitmap = bitmap
      /\ m.pixels = IF bitmap THEN NotACount ELSE edge * edge * 4
  BY DEF FrameMessage
<1> HIDE DEF m, edge, source, short
<1>7. IsRequest(m)
  BY <1>3, <1>4, <1>5, <1>6 DEF IsRequest, IsCount, NotACount
<1> DEFINE limits == OpenMessage(TRUE).limits
<1>8. limits["maxDecodePixels"] = 720 * 720
  BY DEF OpenMessage, DefaultLimits, LimitNames
<1> HIDE DEF limits
<1>9. Decodes(m, limits, TRUE)
  <2>1. /\ m.width >= 1 /\ m.height >= 1
        /\ m.width * m.height <= limits["maxDecodePixels"]
    BY <1>3, <1>4, <1>6, <1>8
  <2>2. CASE bitmap
    <3>1. m.pixels = NotACount /\ m.bitmap
      BY <1>6, <2>2
    <3> QED BY <2>1, <3>1 DEF Decodes
  <2>3. CASE ~bitmap
    <3>1. m.pixels = m.width * m.height * 4 /\ m.pixels # NotACount
      BY <1>4, <1>6, <2>3 DEF NotACount
    <3> QED BY <2>1, <3>1 DEF Decodes
  <2> QED BY <2>2, <2>3
<1>10. edge <= short
  BY <1>1, <1>2, <1>3
<1> QED BY <1>7, <1>9, <1>10 DEF m, limits, edge, short

\* The closed parts of ScreenSound, over the inputs TLC evaluates them for.
LEMMA CapturesAreDecoded == FramesAreDecoded
<1>1. Videos \subseteq Nat
  BY DEF Videos
<1> QED BY <1>1, EveryCaptureIsDecoded DEF FramesAreDecoded

LEMMA StorageIsReported ==
  ASSUME NEW quota \in Nat \cup {NotACount}, NEW usage \in Nat \cup {NotACount}, NEW required \in Nat
  PROVE  /\ Reported([quota |-> quota, usage |-> usage, required |-> required]).storageRequiredBytes = required
         /\ Reported([quota |-> quota, usage |-> usage, required |-> required]).storageAvailableBytes \in Nat
         /\ Reported([quota |-> quota, usage |-> usage, required |-> required]).storageConfidence
              = IF quota = NotACount THEN "unknown" ELSE "reported"
         /\ quota # NotACount =>
              Reported([quota |-> quota, usage |-> usage, required |-> required]).storageAvailableBytes <= quota
BY DEF Reported, Available, NotACount

\* Whatever a browser says of its storage, and a session of its units, the report
\* passes the client's guard.
LEMMA EveryReportIsHeard ==
  ASSUME NEW quota \in Nat \cup {NotACount}, NEW usage \in Nat \cup {NotACount}, NEW required \in Nat,
         NEW protocol \in 0..2, NEW units \in Nat, NEW recovered \in Nat,
         NEW storage \in {Unasked, Reported([quota |-> quota, usage |-> usage, required |-> required])}
  PROVE  IsEvent([type |-> "progress", progress |-> ProgressOf(protocol, units, recovered, 0, storage)])
<1>1. /\ storage.storageRequiredBytes \in Nat /\ storage.storageAvailableBytes \in Nat
      /\ storage.storageConfidence \in {"none", "reported", "unknown"}
  BY StorageIsReported DEF Unasked
<1>2. IsProgress(ProgressOf(protocol, units, recovered, 0, storage))
  BY <1>1 DEF IsProgress, ProgressOf, IsCount
<1> QED BY <1>2 DEF IsEvent

LEMMA AnswersArrive == AnswersAreHeard
<1>1. \A outcome \in FrameOutcomes, ms, stale \in Counts : IsEvent(FrameEvent(outcome, ms, ms, stale))
  BY DEF IsEvent, FrameEvent, Counts, IsCount
<1>2. Counts \subseteq Nat
  BY DEF Counts
<1>3. \A store \in {"memory", "opfs"}, compressed \in BOOLEAN :
        IsEvent([type |-> "verified", size |-> 1, source |-> VerifiedSource(store, compressed)])
  BY DEF IsEvent, VerifiedSource, IsVerifiedSource, SessionFiles, IsCount
<1> QED BY <1>1, <1>2, <1>3, EveryReportIsHeard DEF AnswersAreHeard

LEMMA FramesAreCounted == FramesCountOnce
<1> SUFFICES ASSUME NEW outcome \in FrameOutcomes, NEW reason \in {"CRC_MISMATCH", "SESSION_MISMATCH", "V1_FRAME"}
             PROVE  Cardinality(CountedAs(outcome, reason)) =
                      IF Read(outcome) /\ outcome \notin {"pending-manifest", "pending-storage"} THEN 1 ELSE 0
  BY DEF FramesCountOnce
<1>1. CASE ~Read(outcome) \/ outcome \in {"pending-manifest", "pending-storage"}
  <2>1. CountedAs(outcome, reason) = {}
    BY <1>1 DEF CountedAs, Read
  <2> QED BY <1>1, <2>1, FS_EmptySet
<1>2. CASE Read(outcome) /\ outcome \notin {"pending-manifest", "pending-storage"}
  <2>1. PICK k : CountedAs(outcome, reason) = {k}
    <3>1. CASE outcome = "duplicate"
      <4>1. CountedAs(outcome, reason) = {"duplicate"}
        BY <3>1 DEF CountedAs
      <4> QED BY <4>1
    <3>2. CASE outcome \in {"accepted", "manifest"}
      <4>1. CountedAs(outcome, reason) = {"new"}
        BY <3>2 DEF CountedAs
      <4> QED BY <4>1
    <3>3. CASE outcome = "rejected" /\ ~Foreign(reason)
      <4>1. CountedAs(outcome, reason) = {"parse"}
        BY <3>3 DEF CountedAs
      <4> QED BY <4>1
    <3>4. CASE outcome = "foreign" \/ (outcome = "rejected" /\ Foreign(reason))
      <4>1. CountedAs(outcome, reason) = {"foreign"}
        BY <3>4 DEF CountedAs
      <4> QED BY <4>1
    <3> QED BY <1>2, <3>1, <3>2, <3>3, <3>4 DEF FrameOutcomes, Read
  <2> QED BY <1>2, <2>1, FS_Singleton
<1> QED BY <1>1, <1>2

LEMMA ControlsDoAnswer == ControlsAnswer
<1> SUFFICES ASSUME NEW s \in States
             PROVE  /\ \A e \in Dock(s) : Accepts(s, e) \/ s \in Startable \/ s = "EXPORTING"
                    /\ \E e \in Dock(s) : Accepts(s, e)
  BY DEF ControlsAnswer
<1> USE DEF Transitions, Listed, States, Live, CameraStates, Clearing, Receiving
<1>1. CASE s \in Startable
  <2>1. <<s, "RECEIVE_REQUESTED", "PREFLIGHT">> \in Transitions
    BY <1>1 DEF Startable
  <2>2. Accepts(s, "RECEIVE_REQUESTED")
    BY <2>1 DEF Accepts
  <2>3. Dock(s) = {"RECEIVE_REQUESTED", "CANCELLED"}
    BY <1>1 DEF Dock, MayOfferExport, Startable
  <2> QED BY <1>1, <2>2, <2>3
<1>2. CASE s \notin Startable
  <2>1. <<s, "RESET", "IDLE">> \in Transitions
    BY <1>2 DEF Startable
  <2>2. Accepts(s, "RESET")
    BY <2>1 DEF Accepts
  <2>3. CASE s \in {"COMPLETE", "EXPORTING"}
    <3>1. Dock(s) = {"EXPORT_STARTED", "RESET"}
      BY <2>3 DEF Dock, MayOfferExport, Startable
    <3>2. s = "COMPLETE" => <<s, "EXPORT_STARTED", "EXPORTING">> \in Transitions
      OBVIOUS
    <3>3. s = "COMPLETE" => Accepts(s, "EXPORT_STARTED")
      BY <3>2 DEF Accepts
    <3> QED BY <2>2, <2>3, <3>1, <3>3
  <2>4. CASE s \notin {"COMPLETE", "EXPORTING"}
    <3>1. s \in Live
      BY <1>2, <2>4 DEF Startable
    <3>2. Dock(s) = {"RESET", "CANCELLED"}
      BY <1>2, <2>4, <3>1 DEF Dock, MayOfferExport, CanCancel
    <3>3. <<s, "CANCELLED", "CANCELLED">> \in Transitions
      BY <3>1
    <3>4. Accepts(s, "CANCELLED")
      BY <3>3 DEF Accepts
    <3> QED BY <2>2, <3>2, <3>4
  <2> QED BY <2>3, <2>4
<1> QED BY <1>1, <1>2

LEMMA FaultsHaveCopy == FaultsAreExplained
BY DEF FaultsAreExplained, FaultCodes, FaultCopy, FaultKind, StoreFaults, CapacityFaults, ManifestPolicyFaults,
       ManifestFaults, VerifyFaults, StorageFaults

\* What SummariesAreHonest says of one report.
Honest(p, units, recovered, quota, required) ==
  /\ \A shows \in Summary(p) :
       /\ shows.percent \in 0..100 /\ shows.adopted <= shows.recovered
       /\ shows.percent = 100 => recovered = units
  /\ StorageSummary(p) = "enough" => quota >= required
  /\ \A card \in ResumeCard("INCOMPLETE", p) : card.code /\ card.kept > 0

\* It is so of every report, of however many units: no summary shows more than was
\* received, calls room enough that nobody measured, or offers a code without a session
\* (summarizeTransfer(), summarizeStorage() and the resume card).
THEOREM EverySummaryIsHonest ==
  ASSUME NEW protocol \in 0..2, NEW units \in Nat, NEW recovered \in Nat, NEW adopted \in Nat,
         NEW quota \in Nat \cup {NotACount}, NEW required \in Nat,
         recovered <= units, adopted <= recovered,
         NEW p, p = ProgressOf(protocol, units, recovered, adopted,
                               Reported([quota |-> quota, usage |-> 0, required |-> required]))
  PROVE  Honest(p, units, recovered, quota, required)
<1> DEFINE storage == Reported([quota |-> quota, usage |-> 0, required |-> required])
<1>1. /\ storage.storageRequiredBytes = required /\ storage.storageAvailableBytes \in Nat
      /\ storage.storageConfidence = IF quota = NotACount THEN "unknown" ELSE "reported"
      /\ quota # NotACount => storage.storageAvailableBytes <= quota
  BY StorageIsReported DEF NotACount
<1> HIDE DEF storage
<1>2. /\ p.sessionActive <=> (protocol = 2 \/ (protocol = 1 /\ units > 0))
      /\ p.protocol = protocol /\ p.resumeToken = (protocol = 2)
      /\ p.unitsTotal = IF protocol = 0 THEN 0 ELSE units
      /\ p.unitsRecovered = IF protocol = 0 THEN 0 ELSE recovered
      /\ p.unitsAdopted = IF protocol = 2 THEN adopted ELSE 0
      /\ p.storageRequiredBytes = storage.storageRequiredBytes
      /\ p.storageAvailableBytes = storage.storageAvailableBytes
      /\ p.storageConfidence = storage.storageConfidence
  BY DEF ProgressOf, storage
<1>3. ASSUME NEW shows \in Summary(p)
      PROVE  /\ shows.percent \in 0..100 /\ shows.adopted <= shows.recovered
             /\ shows.percent = 100 => recovered = units
  <2>1. p.sessionActive /\ p.unitsTotal # 0
    BY <1>3 DEF Summary
  <2>2. protocol \in {1, 2} /\ units > 0 /\ p.unitsTotal = units /\ p.unitsRecovered = recovered
    BY <1>2, <2>1
  <2>3. /\ shows.percent = (100 * recovered) \div units
        /\ shows.recovered = recovered /\ shows.adopted = p.unitsAdopted
    BY <1>3, <2>1, <2>2 DEF Summary
  <2>4. /\ (100 * recovered) \div units \in 0..100
        /\ (100 * recovered) \div units = 100 => recovered = units
    <3> DEFINE q == (100 * recovered) \div units
    <3>1. q \in Int /\ units * q <= 100 * recovered /\ 100 * recovered < units * q + units
      BY <2>2, Z3
    <3> HIDE DEF q
    <3>2. q < 101
      <4> SUFFICES ASSUME q >= 101 PROVE FALSE
        BY <3>1
      <4>1. units * q >= units * 101
        BY <2>2, <3>1
      <4> QED BY <2>2, <3>1, <4>1
    <3>3. q > -1
      <4> SUFFICES ASSUME q <= -1 PROVE FALSE
        BY <3>1
      <4>1. units * q <= units * (-1)
        BY <2>2, <3>1
      <4> QED BY <2>2, <3>1, <4>1
    <3>4. q = 100 => recovered = units
      BY <2>2, <3>1
    <3> QED BY <3>1, <3>2, <3>3, <3>4 DEF q
  <2> QED BY <1>2, <2>2, <2>3, <2>4
<1>4. StorageSummary(p) = "enough" => quota >= required
  BY <1>1, <1>2 DEF StorageSummary, NotACount
<1>5. ASSUME NEW card \in ResumeCard("INCOMPLETE", p)
      PROVE  card.code /\ card.kept > 0
  <2>1. /\ p.protocol = 2 /\ p.unitsRecovered # 0
        /\ card = [kept |-> p.unitsRecovered, total |-> p.unitsTotal, code |-> p.resumeToken]
    BY <1>5 DEF ResumeCard
  <2>2. card.kept = p.unitsRecovered /\ card.code = p.resumeToken
    BY <2>1
  <2>3. p.unitsRecovered > 0
    BY <1>2, <2>1
  <2>4. p.resumeToken
    BY <1>2, <2>1
  <2> QED BY <2>2, <2>3, <2>4
<1> QED BY <1>3, <1>4, <1>5 DEF Honest

LEMMA SummariesStayHonest == SummariesAreHonest
<1>1. /\ \A n \in 0..3 : n \in Nat
      /\ \A n \in {0, 1, 5, NotACount} : n \in Nat \cup {NotACount} /\ (n # NotACount => n \in Nat)
  OBVIOUS
<1>2. ASSUME NEW protocol \in 0..2, NEW units \in 0..3, NEW recovered \in 0..3, NEW adopted \in 0..3,
             NEW quota \in {0, 1, 5, NotACount}, NEW required \in {0, 1, 5, NotACount},
             recovered <= units /\ adopted <= recovered /\ required # NotACount
      PROVE  Honest(ProgressOf(protocol, units, recovered, adopted,
                               Reported([quota |-> quota, usage |-> 0, required |-> required])),
                    units, recovered, quota, required)
  BY <1>1, <1>2, EverySummaryIsHonest
<1> QED BY <1>2, Zenon DEF SummariesAreHonest, Honest

\* What is said and offered is right, and no message is dropped by the guard it is
\* read through: the part of ScreenSound that is about finitely many states and
\* messages, without FiguresAreTrue, which TLC evaluates.
THEOREM WhatIsSaidIsSo ==
  NothingIsRefused /\ ControlsAnswer /\ FaultsAreExplained /\ SummariesAreHonest
BY CapturesAreDecoded, AnswersArrive, FramesAreCounted, ControlsDoAnswer, FaultsHaveCopy,
   SummariesStayHonest
DEF NothingIsRefused
=============================================================================
