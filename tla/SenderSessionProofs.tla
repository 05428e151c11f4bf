------------------------ MODULE SenderSessionProofs -------------------------
(***************************************************************************)
(* The desktop's screen and its registry of streaming sessions, for any    *)
(* number of selections and whatever order dialogs, preflights, answers    *)
(* and cancellations come in.                                              *)
(*                                                                         *)
(* SessionsAccountedFor is about a screen that rests; on the way there, a  *)
(* session may be about to be brought to the screen or about to be         *)
(* cancelled.  ShownInv says that no session on the screen is being        *)
(* cancelled, FilesInv whose the open files are, and AloneInv, while no    *)
(* selection has overtaken another, where every session is.                *)
(***************************************************************************)
EXTENDS SenderSession, TLAPS

Requests == [kind : {"cancel", "progress", "recover"}, session : Selects]
Calls == [at : {"unused", "dialog", "preflight", "empty", "error", "ready", "done"},
          token : BOOLEAN, heard : BOOLEAN]
Answers == [kind : {"progress", "recover"}, session : Selects, ok : BOOLEAN]

\* What is under way to the main process.
Said == {toMain[i] : i \in DOMAIN toMain}
Cancel(c) == Request("cancel", c)

\* A screen holds a session exactly in the states that say so.
HoldsInv == (session = 0) <=> (state \in Cleared)

\* A session on the screen, or about to be brought to it, is registered and is not
\* being cancelled; what is said to the main process is of a call that is over.
ShownInv ==
  /\ session # 0 => session \in registered /\ select[session].at = "done" /\ Cancel(session) \notin Said
  /\ \A c \in Selects : select[c].at = "ready" /\ select[c].heard => c \in registered
  /\ \A m \in Said : select[m.session].at = "done"

\* A session is registered by a call that has ended.
FilesInv ==
  /\ FilesAccountedFor
  /\ \A c \in registered : select[c].at \in {"ready", "done"}

\* While no selection has overtaken another there is one at a time, nothing is on
\* the screen meanwhile, and every session is on the screen, on its way to it, or
\* being cancelled.
AloneInv ==
  ~overtaken =>
    /\ Working # {} => session = 0
    /\ \A c, d \in Working : c = d
    /\ \A c \in registered : c = session \/ select[c].at = "ready" \/ Cancel(c) \in Said

AccountInv == TypeOK /\ HoldsInv /\ ShownInv /\ FilesInv /\ AloneInv
-----------------------------------------------------------------------------
(* The table of sender-state.ts *)

\* No event but the end of a preflight leads from a screen without a session to one
\* that needs it, and PREPARING is entered from READY alone.
LEMMA Reduction ==
  ASSUME NEW s \in States, NEW e
  PROVE  /\ Reduce(s, e) \in States
         /\ e # "PREFLIGHT_READY" /\ s \in Cleared => Reduce(s, e) \in Cleared
         /\ Reduce(s, "PREFLIGHT_READY") = (IF s = "PREFLIGHTING" THEN "READY" ELSE s)
<1>1. \A t \in Transitions : t[3] \in States
  BY DEF Transitions, States, Streaming
<1>2. \A t \in Transitions : t[2] # "PREFLIGHT_READY" /\ t[1] \in Cleared => t[3] \in Cleared
  BY DEF Transitions, States, Streaming, Cleared
<1>3. \A t \in Transitions : t[2] = "PREFLIGHT_READY" => t[1] = "PREFLIGHTING" /\ t[3] = "READY"
  BY DEF Transitions, States, Streaming
<1>4. <<"PREFLIGHTING", "PREFLIGHT_READY", "READY">> \in Transitions
  BY DEF Transitions
<1>5. ASSUME \E t \in Transitions : t[1] = s /\ t[2] = e
      PROVE  \E t \in Transitions : t[1] = s /\ t[2] = e /\ Reduce(s, e) = t[3]
  BY <1>5 DEF Reduce
<1>6. ASSUME ~\E t \in Transitions : t[1] = s /\ t[2] = e
      PROVE  Reduce(s, e) = s
  BY <1>6 DEF Reduce
<1>7. Reduce(s, e) \in States /\ (e # "PREFLIGHT_READY" /\ s \in Cleared => Reduce(s, e) \in Cleared)
  BY <1>1, <1>2, <1>5, <1>6
<1>8. Reduce(s, "PREFLIGHT_READY") = (IF s = "PREFLIGHTING" THEN "READY" ELSE s)
  <2>1. CASE s = "PREFLIGHTING"
    <3> DEFINE t == CHOOSE u \in Transitions : u[1] = s /\ u[2] = "PREFLIGHT_READY"
    <3>1. t \in Transitions /\ t[1] = s /\ t[2] = "PREFLIGHT_READY"
      BY <1>4, <2>1
    <3>2. Reduce(s, "PREFLIGHT_READY") = t[3]
      BY <3>1 DEF Reduce
    <3> QED BY <1>3, <2>1, <3>1, <3>2
  <2>2. CASE s # "PREFLIGHTING"
    BY <1>3, <2>2 DEF Reduce
  <2> QED BY <2>1, <2>2
<1> QED BY <1>7, <1>8

\* A picker that is opened clears the screen.
LEMMA PickersClear ==
  /\ \A s \in {"IDLE", "CANCELLED", "READY", "STREAM_COMPLETE", "FAILED"} :
       Reduce(s, "SELECT_REQUESTED") = "PREFLIGHTING"
  /\ Reduce("RESUME_ENTRY", "RESUME_SUBMITTED") = "PREFLIGHTING"
<1>1. ASSUME NEW s, NEW e, <<s, e, "PREFLIGHTING">> \in Transitions,
             \A t \in Transitions : t[2] = e => t[3] = "PREFLIGHTING"
      PROVE  Reduce(s, e) = "PREFLIGHTING"
  <2> DEFINE t == CHOOSE u \in Transitions : u[1] = s /\ u[2] = e
  <2>1. t \in Transitions /\ t[1] = s /\ t[2] = e
    BY <1>1
  <2> QED BY <1>1, <2>1 DEF Reduce
<1>2. \A s \in {"IDLE", "CANCELLED", "READY", "STREAM_COMPLETE", "FAILED"} :
        <<s, "SELECT_REQUESTED", "PREFLIGHTING">> \in Transitions
  BY DEF Transitions
<1>3. <<"RESUME_ENTRY", "RESUME_SUBMITTED", "PREFLIGHTING">> \in Transitions
  BY DEF Transitions
<1>4. \A t \in Transitions : t[2] \in {"SELECT_REQUESTED", "RESUME_SUBMITTED"} => t[3] = "PREFLIGHTING"
  BY DEF Transitions, States, Streaming
<1> QED BY <1>1, <1>2, <1>3, <1>4
-----------------------------------------------------------------------------
(* What is said *)

LEMMA SaidOf ==
  ASSUME NEW q \in Seq(Requests), NEW r \in Seq(Requests)
  PROVE  /\ q \o r \in Seq(Requests)
         /\ {(q \o r)[i] : i \in DOMAIN (q \o r)} = {q[i] : i \in DOMAIN q} \cup {r[i] : i \in DOMAIN r}
<1> DEFINE s == q \o r
<1>1. /\ s \in Seq(Requests) /\ DOMAIN s = 1..(Len(q) + Len(r)) /\ DOMAIN q = 1..Len(q)
      /\ DOMAIN r = 1..Len(r) /\ Len(q) \in Nat /\ Len(r) \in Nat
      /\ \A i \in 1..Len(q) : s[i] = q[i]
      /\ \A i \in 1..Len(r) : s[Len(q) + i] = r[i]
  OBVIOUS
<1> HIDE DEF s
<1>2. ASSUME NEW i \in DOMAIN s
      PROVE  s[i] \in {q[j] : j \in DOMAIN q} \cup {r[j] : j \in DOMAIN r}
  <2>1. CASE i <= Len(q)
    BY <1>1, <2>1
  <2>2. CASE ~(i <= Len(q))
    <3>1. i - Len(q) \in DOMAIN r /\ s[Len(q) + (i - Len(q))] = r[i - Len(q)] /\ Len(q) + (i - Len(q)) = i
      BY <1>1, <2>2
    <3> QED BY <3>1
  <2> QED BY <2>1, <2>2
<1>3. ASSUME NEW i \in DOMAIN q PROVE q[i] \in {s[j] : j \in DOMAIN s}
  BY <1>1
<1>4. ASSUME NEW i \in DOMAIN r PROVE r[i] \in {s[j] : j \in DOMAIN s}
  <2>1. Len(q) + i \in DOMAIN s /\ s[Len(q) + i] = r[i]
    BY <1>1
  <2> QED BY <2>1
<1>5. {s[i] : i \in DOMAIN s} = {q[i] : i \in DOMAIN q} \cup {r[i] : i \in DOMAIN r}
  BY <1>2, <1>3, <1>4
<1> QED BY <1>1, <1>5 DEF s

LEMMA OneSays ==
  ASSUME NEW m \in Requests
  PROVE  <<m>> \in Seq(Requests) /\ {<<m>>[i] : i \in DOMAIN <<m>>} = {m}
<1>1. DOMAIN <<m>> = 1..1 /\ <<m>>[1] = m /\ 1..1 = {1}
  OBVIOUS
<1> QED BY <1>1

LEMMA NothingSays ==
  <<>> \in Seq(Requests) /\ {<<>>[i] : i \in DOMAIN <<>>} = {}
<1> QED OBVIOUS

\* What a commit adds to what is said.
Added(st, s) ==
  (IF st \in Cleared /\ s # 0 THEN {Cancel(s)} ELSE {})
  \cup (IF st = "PREPARING" /\ <<st, s>> # <<state, session>> THEN {Request("progress", s)} ELSE {})

LEMMA CommitSays ==
  ASSUME toMain \in Seq(Requests), NEW st \in States, NEW s \in Selects \cup {0},
         st \notin Cleared => s # 0, Commit(st, s)
  PROVE  toMain' \in Seq(Requests) /\ Said' = Said \cup Added(st, s)
<1> DEFINE off == st \in Cleared /\ s # 0
           on == st = "PREPARING" /\ <<st, s>> # <<state, session>>
<1>0. off \in BOOLEAN /\ on \in BOOLEAN
  OBVIOUS
<1>1. (off => s \in Selects) /\ (on => s \in Selects)
  BY DEF Cleared
<1>2. /\ Sent(off, "cancel", s) \in Seq(Requests)
      /\ {Sent(off, "cancel", s)[i] : i \in DOMAIN Sent(off, "cancel", s)} = IF off THEN {Cancel(s)} ELSE {}
  <2>1. CASE off
    <3>1. Cancel(s) \in Requests /\ Sent(off, "cancel", s) = <<Cancel(s)>>
      <4>1. Cancel(s) \in Requests
        BY <1>1, <2>1 DEF Cancel, Request, Requests
      <4>2. Sent(off, "cancel", s) = <<Cancel(s)>>
        BY <2>1 DEF Sent, Cancel
      <4> QED BY <4>1, <4>2
    <3> DEFINE q == <<Cancel(s)>>
    <3>2. q \in Seq(Requests) /\ {q[i] : i \in DOMAIN q} = {Cancel(s)}
      BY <3>1, OneSays
    <3>3. Sent(off, "cancel", s) = q
      BY <3>1
    <3> HIDE DEF q
    <3> QED BY <2>1, <3>2, <3>3
  <2>2. CASE ~off
    <3>1. Sent(off, "cancel", s) = <<>>
      BY <2>2 DEF Sent
    <3> QED BY <2>2, <3>1, NothingSays
  <2> QED BY <2>1, <2>2
<1>3. /\ Sent(on, "progress", s) \in Seq(Requests)
      /\ {Sent(on, "progress", s)[i] : i \in DOMAIN Sent(on, "progress", s)}
           = IF on THEN {Request("progress", s)} ELSE {}
  <2>1. CASE on
    <3>1. Request("progress", s) \in Requests /\ Sent(on, "progress", s) = <<Request("progress", s)>>
      <4>1. Request("progress", s) \in Requests
        BY <1>1, <2>1 DEF Request, Requests
      <4>2. Sent(on, "progress", s) = <<Request("progress", s)>>
        BY <2>1 DEF Sent
      <4> QED BY <4>1, <4>2
    <3> DEFINE q == <<Request("progress", s)>>
    <3>2. q \in Seq(Requests) /\ {q[i] : i \in DOMAIN q} = {Request("progress", s)}
      BY <3>1, OneSays
    <3>3. Sent(on, "progress", s) = q
      BY <3>1
    <3> HIDE DEF q
    <3> QED BY <2>1, <3>2, <3>3
  <2>2. CASE ~on
    <3>1. Sent(on, "progress", s) = <<>>
      BY <2>2 DEF Sent
    <3> QED BY <2>2, <3>1, NothingSays
  <2> QED BY <2>1, <2>2
<1>4. toMain' = (toMain \o Sent(off, "cancel", s)) \o Sent(on, "progress", s)
  BY DEF Commit, Releases, Confirms
<1>5. Added(st, s) = (IF off THEN {Cancel(s)} ELSE {}) \cup (IF on THEN {Request("progress", s)} ELSE {})
  BY DEF Added
<1> HIDE DEF off, on
<1>6. /\ toMain \o Sent(off, "cancel", s) \in Seq(Requests)
      /\ {(toMain \o Sent(off, "cancel", s))[i] : i \in DOMAIN (toMain \o Sent(off, "cancel", s))}
           = Said \cup (IF off THEN {Cancel(s)} ELSE {})
  BY <1>2, SaidOf DEF Said
<1> DEFINE first == toMain \o Sent(off, "cancel", s)
<1>7. first \in Seq(Requests) /\ {first[i] : i \in DOMAIN first} = Said \cup (IF off THEN {Cancel(s)} ELSE {})
  BY <1>6
<1>8. toMain' = first \o Sent(on, "progress", s)
  BY <1>4
<1> DEFINE then == Sent(on, "progress", s)
<1>9. /\ then \in Seq(Requests) /\ toMain' = first \o then
      /\ {then[i] : i \in DOMAIN then} = IF on THEN {Request("progress", s)} ELSE {}
  BY <1>3, <1>8
<1> HIDE DEF first, then
<1>10. /\ toMain' \in Seq(Requests)
       /\ {toMain'[i] : i \in DOMAIN toMain'}
            = {first[i] : i \in DOMAIN first} \cup {then[i] : i \in DOMAIN then}
  <2>1. /\ first \o then \in Seq(Requests)
        /\ {(first \o then)[i] : i \in DOMAIN (first \o then)}
             = {first[i] : i \in DOMAIN first} \cup {then[i] : i \in DOMAIN then}
    BY <1>7, <1>9, SaidOf
  <2> QED BY <1>9, <2>1
<1> QED BY <1>5, <1>7, <1>9, <1>10 DEF Said

LEMMA HandledSays ==
  ASSUME toMain \in Seq(Requests), toMain # <<>>, toMain' = Tail(toMain)
  PROVE  /\ toMain' \in Seq(Requests) /\ Head(toMain) \in Requests /\ Head(toMain) \in Said
         /\ Said' \subseteq Said /\ Said \subseteq Said' \cup {Head(toMain)}
<1>1. /\ Len(toMain) \in Nat /\ Len(toMain) >= 1 /\ DOMAIN toMain = 1..Len(toMain)
      /\ toMain' \in Seq(Requests) /\ DOMAIN toMain' = 1..(Len(toMain) - 1)
      /\ \A i \in 1..(Len(toMain) - 1) : toMain'[i] = toMain[i + 1]
      /\ Head(toMain) = toMain[1] /\ toMain[1] \in Requests
  OBVIOUS
<1>2. ASSUME NEW i \in DOMAIN toMain'
      PROVE  toMain'[i] \in Said
  <2>1. i + 1 \in DOMAIN toMain /\ toMain'[i] = toMain[i + 1]
    BY <1>1
  <2> QED BY <2>1 DEF Said
<1>3. ASSUME NEW i \in DOMAIN toMain, i # 1
      PROVE  toMain[i] \in Said'
  <2>1. i - 1 \in DOMAIN toMain' /\ toMain'[i - 1] = toMain[(i - 1) + 1] /\ (i - 1) + 1 = i
    BY <1>1, <1>3
  <2> QED BY <2>1 DEF Said
<1>4. 1 \in DOMAIN toMain
  BY <1>1
<1>5. Said \subseteq Said' \cup {Head(toMain)}
  BY <1>1, <1>3 DEF Said
<1>6. Said' \subseteq Said
  BY <1>2 DEF Said
<1> QED BY <1>1, <1>4, <1>5, <1>6 DEF Said

LEMMA CancelsDiffer ==
  /\ \A c, d : Cancel(c) = Cancel(d) => c = d
  /\ \A c, d, kind : Cancel(c) = Request(kind, d) => kind = "cancel"
  /\ \A c : Cancel(c).session = c /\ Cancel(c).kind = "cancel"
  /\ \A c, kind : Request(kind, c).session = c /\ Request(kind, c).kind = kind
<1> QED BY DEF Cancel, Request
-----------------------------------------------------------------------------
(* The steps of the screen *)

\* A commit of the screen's own session keeps the invariant, whatever becomes of
\* calls that are not registered, as long as a call that begins begins alone.
LEMMA ScreenMoves ==
  ASSUME AccountInv, NEW st \in States, state \in Cleared => st \in Cleared, Commit(st, session),
         UNCHANGED <<window, registered, open>>, TypeOK',
         \A c \in Selects : \/ select'[c] = select[c]
                            \/ /\ select[c].at \in {"unused", "empty", "error"}
                               /\ select'[c].at \in {"dialog", "done"},
         overtaken => overtaken',
         ~overtaken' => /\ Working' # {} => session' = 0
                        /\ \A c, d \in Working' : c = d
  PROVE  AccountInv'
<1>0. /\ session \in Selects \cup {0} /\ toMain \in Seq(Requests) /\ state \in States
      /\ overtaken \in BOOLEAN /\ overtaken' \in BOOLEAN /\ registered \subseteq Selects /\ 0 \notin Selects
      /\ \A m \in Said : m.session \in Selects
  <2>1. /\ session \in Selects \cup {0} /\ toMain \in Seq(Requests) /\ state \in States
        /\ overtaken \in BOOLEAN /\ overtaken' \in BOOLEAN /\ registered \subseteq Selects /\ 0 \notin Selects
    BY SenderSessionAssumption DEF AccountInv, TypeOK, Requests
  <2>2. \A m \in Said : m \in Requests
    BY <2>1 DEF Said
  <2> QED BY <2>1, <2>2 DEF Requests
<1>1. st \notin Cleared => session # 0
  BY DEF AccountInv, HoldsInv
<1>2. Said' = Said \cup Added(st, session)
  BY <1>0, <1>1, CommitSays
<1>3. state' = st /\ session' = IF st \in Cleared THEN 0 ELSE session
  BY DEF Commit, Kept
<1>4. HoldsInv'
  BY <1>1, <1>3 DEF HoldsInv
<1>5. \A c \in Selects : /\ select[c].at = "done" => select'[c].at = "done"
                         /\ select[c].at = "ready" => select'[c].at = "ready"
                         /\ select'[c].at \in {"ready", "preflight"} => select'[c] = select[c]
                         /\ select[c].at = "preflight" => select'[c] = select[c]
  OBVIOUS
<1>6. \A m \in Added(st, session) : m.session = session /\ (session' # 0 => m # Cancel(session')) /\ session # 0
  BY <1>1, <1>3, CancelsDiffer DEF Added, Cleared
<1>7. ShownInv'
  <2>1. \A m \in Said' : select'[m.session].at = "done"
    BY <1>0, <1>2, <1>5, <1>6 DEF AccountInv, ShownInv
  <2>2. \A c \in Selects : select'[c].at = "ready" /\ select'[c].heard => c \in registered'
    BY <1>5 DEF AccountInv, ShownInv
  <2>3. session' # 0 => session' \in registered' /\ select'[session'].at = "done" /\ Cancel(session') \notin Said'
    BY <1>0, <1>2, <1>3, <1>5, <1>6 DEF AccountInv, ShownInv
  <2> QED BY <2>1, <2>2, <2>3 DEF ShownInv
<1>8. FilesInv'
  <2>1. {c \in Selects : select'[c].at = "preflight"} = {c \in Selects : select[c].at = "preflight"}
    BY <1>5
  <2>2. \A c \in registered : select'[c].at \in {"ready", "done"}
    BY <1>0, <1>5 DEF AccountInv, FilesInv
  <2> QED BY <2>1, <2>2 DEF AccountInv, FilesInv, FilesAccountedFor
<1>9. AloneInv'
  <2>1. session' # session => Cancel(session) \in Said'
    BY <1>0, <1>1, <1>2, <1>3 DEF Added
  <2>2. ASSUME ~overtaken', NEW c \in registered'
        PROVE  c = session' \/ select'[c].at = "ready" \/ Cancel(c) \in Said'
    BY <1>0, <1>2, <1>5, <2>1, <2>2 DEF AccountInv, AloneInv
  <2> QED BY <2>2 DEF AloneInv
<1> QED BY <1>4, <1>7, <1>8, <1>9 DEF AccountInv

\* A step that leaves the machine, the session, the calls and the registry alone.
LEMMA RestKeeps ==
  ASSUME AccountInv, UNCHANGED <<state, session, toMain, select, registered, open, overtaken>>,
         window' = "quit" <=> window = "quit", TypeOK'
  PROVE  AccountInv'
<1>1. Said' = Said /\ Working' = Working
  BY DEF Said, Working
<1> QED BY <1>1 DEF AccountInv, HoldsInv, ShownInv, FilesInv, FilesAccountedFor, AloneInv

\* Dispatch() of anything but the end of a preflight.
LEMMA DispatchKeeps ==
  ASSUME AccountInv, NEW e, e # "PREFLIGHT_READY", Dispatch(e),
         UNCHANGED <<window, registered, open, select, overtaken>>,
         surface' \in {"SEND", "LOOPBACK", "RECEIVE"}, asking' \in BOOLEAN, loopback' \in BOOLEAN,
         answers' \subseteq Answers
  PROVE  AccountInv'
<1> DEFINE st == Reduce(state, e)
<1>0. state \in States /\ toMain \in Seq(Requests) /\ session \in Selects \cup {0} /\ wanted \in Selects \cup {0}
  BY DEF AccountInv, TypeOK, Requests
<1>1. st \in States /\ (state \in Cleared => st \in Cleared) /\ Commit(st, session)
  BY <1>0, Reduction DEF Dispatch, Settle
<1>2. (st \notin Cleared => session # 0) /\ state' = st /\ session' \in {0, session}
  BY <1>1 DEF AccountInv, HoldsInv, Commit, Kept
<1>3. wanted' \in {wanted, 0}
  BY DEF Dispatch, Settle
<1>4. toMain' \in Seq(Requests)
  BY <1>0, <1>1, <1>2, CommitSays
<1>5. TypeOK'
  BY <1>0, <1>1, <1>2, <1>3, <1>4 DEF AccountInv, TypeOK, Requests, Answers
<1>6. Working' = Working
  BY DEF Working
<1> HIDE DEF st
<1> QED BY <1>1, <1>2, <1>5, <1>6, ScreenMoves DEF AccountInv, AloneInv

\* openPicker(): the screen is cleared, and the call is the only one or overtakes.
LEMMA PickKeeps ==
  ASSUME AccountInv, NEW e, NEW token \in BOOLEAN, Reduce(state, e) = "PREFLIGHTING", Pick(e, token),
         UNCHANGED <<window, surface, asking, loopback, answers, registered, open>>
  PROVE  AccountInv'
<1>0. /\ state \in States /\ toMain \in Seq(Requests) /\ session \in Selects \cup {0}
      /\ select \in [Selects -> Calls] /\ overtaken \in BOOLEAN
  BY DEF AccountInv, TypeOK, Requests, Calls
<1>1. PICK c \in Selects :
        /\ select[c].at = "unused" /\ Commit("PREFLIGHTING", session) /\ wanted' = c
        /\ select' = [select EXCEPT ![c] = [at |-> "dialog", token |-> token, heard |-> TRUE]]
        /\ overtaken' = (overtaken \/ Working # {})
  BY DEF Pick
<1>2. "PREFLIGHTING" \in States /\ "PREFLIGHTING" \in Cleared
  BY DEF States, Cleared
<1>3. state' = "PREFLIGHTING" /\ session' = 0
  BY <1>1, <1>2 DEF Commit, Kept
<1>4. toMain' \in Seq(Requests)
  BY <1>0, <1>1, <1>2, CommitSays
<1>5. select' \in [Selects -> Calls]
  BY <1>0, <1>1 DEF Calls
<1>6. overtaken' \in BOOLEAN
  BY <1>1
<1>7. TypeOK'
  BY <1>0, <1>1, <1>2, <1>3, <1>4, <1>5, <1>6 DEF AccountInv, TypeOK, Requests, Calls
<1>8. \A d \in Selects : select'[d] = select[d] \/ (d = c /\ select'[d].at = "dialog")
  BY <1>0, <1>1
<1>9. ASSUME ~overtaken' PROVE \A x, y \in Working' : x = y
  <2>1. Working = {}
    BY <1>1, <1>9
  <2>2. \A x \in Working' : x = c
    BY <1>8, <2>1 DEF Working
  <2> QED BY <2>2
<1> QED BY <1>1, <1>2, <1>3, <1>7, <1>8, <1>9, ScreenMoves
-----------------------------------------------------------------------------
(* The steps of the main process *)

LEMMA SelectMoves ==
  ASSUME AccountInv, NEW c \in Selects, NEW pc \in {"preflight", "empty", "error", "ready", "done"},
         select' = At(c, pc)
  PROVE  /\ select' \in [Selects -> Calls] /\ select'[c].at = pc /\ select'[c].heard = select[c].heard
         /\ \A d \in Selects : d # c => select'[d] = select[d]
<1>1. select \in [Selects -> Calls]
  BY DEF AccountInv, TypeOK, Calls
<1>2. select[c] \in Calls
  BY <1>1
<1>3. [select[c] EXCEPT !.at = pc] \in Calls
  BY <1>2 DEF Calls
<1>4. select' = [select EXCEPT ![c] = [select[c] EXCEPT !.at = pc]]
  BY DEF At
<1> QED BY <1>1, <1>2, <1>3, <1>4 DEF Calls

\* A call that goes on, its file opened, closed again or registered.
LEMMA CallGoesOn ==
  ASSUME AccountInv, NEW c \in Selects, NEW pc \in {"preflight", "empty", "error", "ready"},
         select[c].at \in {"dialog", "preflight"}, select' = At(c, pc),
         UNCHANGED <<window, screen, toMain, answers, loopback, overtaken>>,
         registered' = IF pc = "ready" THEN registered \cup {c} ELSE registered,
         open' = CASE pc = "preflight" -> open \cup {c}
                   [] pc = "ready"     -> open
                   [] OTHER            -> open \ {c},
         pc = "ready" => select[c].at = "preflight"
  PROVE  AccountInv'
<1> USE DEF screen
<1>0. /\ select' \in [Selects -> Calls] /\ select'[c].at = pc /\ select'[c].heard = select[c].heard
      /\ \A d \in Selects : d # c => select'[d] = select[d]
  BY SelectMoves
<1>1. TypeOK'
  BY <1>0 DEF AccountInv, TypeOK, Calls
<1>2. HoldsInv' /\ Said' = Said
  BY DEF AccountInv, HoldsInv, Said
<1>3. \A m \in Said : m.session # c
  BY DEF AccountInv, ShownInv
<1>4. /\ \A m \in Said : m.session \in Selects
      /\ session \in Selects \cup {0} /\ registered \subseteq Selects /\ open \subseteq Selects
  <2>1. toMain \in Seq(Requests)
    BY DEF AccountInv, TypeOK, Requests
  <2>2. \A m \in Said : m \in Requests
    BY <2>1 DEF Said
  <2> QED BY <2>2 DEF Requests, AccountInv, TypeOK
<1>5. ShownInv'
  BY <1>0, <1>2, <1>3, <1>4 DEF AccountInv, ShownInv
<1>6. c \notin registered
  BY DEF AccountInv, FilesInv
<1>7. FilesInv'
  <2>1. \A d \in registered' : select'[d].at \in {"ready", "done"}
    BY <1>0, <1>4, <1>6 DEF AccountInv, FilesInv
  <2>2. FilesAccountedFor'
    BY <1>0, <1>4, <1>6 DEF AccountInv, FilesInv, FilesAccountedFor
  <2> QED BY <2>1, <2>2 DEF FilesInv
<1>8. Working' = Working
  BY <1>0 DEF Working
<1>9. AloneInv'
  BY <1>0, <1>2, <1>4, <1>8 DEF AccountInv, AloneInv
<1> QED BY <1>1, <1>2, <1>5, <1>7, <1>9 DEF AccountInv

LEMMA HandleKeeps ==
  ASSUME AccountInv, Handle
  PROVE  AccountInv'
<1> USE DEF screen
<1> DEFINE r == Head(toMain)
<1>0. /\ toMain \in Seq(Requests) /\ toMain # <<>> /\ toMain' = Tail(toMain)
      /\ UNCHANGED <<window, screen, select, loopback, overtaken>>
  BY DEF Handle, AccountInv, TypeOK, Requests
<1>1. /\ toMain' \in Seq(Requests) /\ r \in Requests /\ r \in Said
      /\ Said' \subseteq Said /\ Said \subseteq Said' \cup {r}
  BY <1>0, HandledSays
<1>2. r.session \in Selects /\ r.kind \in {"cancel", "progress", "recover"} /\ select[r.session].at = "done"
      /\ r = Request(r.kind, r.session)
  BY <1>1 DEF AccountInv, ShownInv, Requests, Request
<1>3. CASE r.kind = "cancel"
  <2>1. /\ registered' = registered \ {r.session} /\ UNCHANGED answers
        /\ open' = IF r.session \in registered THEN open \ {r.session} ELSE open
    BY <1>3 DEF Handle, Forgotten
  <2>2. r = Cancel(r.session)
    BY <1>2, <1>3 DEF Cancel
  <2>3. TypeOK'
    BY <1>0, <1>1, <2>1 DEF AccountInv, TypeOK, Requests
  <2>4. session # r.session
    BY <1>1, <1>2, <2>2, SenderSessionAssumption DEF AccountInv, ShownInv
  <2>5. HoldsInv' /\ ShownInv'
    BY <1>0, <1>1, <1>2, <2>1, <2>4 DEF AccountInv, HoldsInv, ShownInv
  <2>6. FilesInv'
    BY <1>0, <1>2, <2>1 DEF AccountInv, FilesInv, FilesAccountedFor
  <2>7. Working' = Working
    BY <1>0 DEF Working
  <2>8. \A c \in registered' : Cancel(c) \in Said => Cancel(c) \in Said'
    BY <1>1, <2>1, <2>2, CancelsDiffer
  <2>9. AloneInv'
    BY <1>0, <2>1, <2>7, <2>8 DEF AccountInv, AloneInv
  <2> QED BY <2>3, <2>5, <2>6, <2>9 DEF AccountInv
<1>4. CASE r.kind \in {"progress", "recover"}
  <2>1. UNCHANGED <<registered, open>> /\ answers' = Answered(r)
    BY <1>4 DEF Handle
  <2>2. answers' \subseteq Answers
    <3>1. (r.session \in registered) \in BOOLEAN
      OBVIOUS
    <3>2. [kind |-> r.kind, session |-> r.session, ok |-> r.session \in registered] \in Answers
      BY <1>2, <1>4, <3>1 DEF Answers
    <3> QED BY <2>1, <3>2 DEF Answered, Answers, AccountInv, TypeOK
  <2>3. TypeOK'
    BY <1>0, <1>1, <2>1, <2>2 DEF AccountInv, TypeOK, Requests, Answers
  <2>4. HoldsInv' /\ ShownInv'
    BY <1>0, <1>1, <2>1 DEF AccountInv, HoldsInv, ShownInv
  <2>5. FilesInv' /\ Working' = Working
    BY <1>0, <2>1 DEF AccountInv, FilesInv, FilesAccountedFor, Working
  <2>6. \A c \in registered : Cancel(c) \in Said => Cancel(c) \in Said'
    BY <1>1, <1>2, <1>4, CancelsDiffer
  <2>7. AloneInv'
    BY <1>0, <2>1, <2>5, <2>6 DEF AccountInv, AloneInv
  <2> QED BY <2>3, <2>4, <2>5, <2>7 DEF AccountInv
<1> QED BY <1>2, <1>3, <1>4
-----------------------------------------------------------------------------
(* The answers, and the window *)

\* openPicker() after its await: what it brings is on the screen, or released.
LEMMA DeliverKeeps ==
  ASSUME AccountInv, NEW c \in Selects, Deliver(c)
  PROVE  AccountInv'
<1>0. /\ state \in States /\ toMain \in Seq(Requests) /\ session \in Selects \cup {0}
      /\ wanted \in Selects \cup {0} /\ overtaken \in BOOLEAN /\ registered \subseteq Selects
      /\ 0 \notin Selects /\ select[c].heard
      /\ UNCHANGED <<window, surface, asking, loopback, answers, registered, open, overtaken>>
  BY SenderSessionAssumption DEF AccountInv, TypeOK, Requests, Deliver, main
<1>1. /\ select' \in [Selects -> Calls] /\ select'[c].at = "done"
      /\ \A d \in Selects : d # c => select'[d] = select[d]
  BY SelectMoves DEF Deliver
<1>2. Working' = Working \ {c}
  BY <1>1 DEF Working
<1>3. CASE select[c].at \in {"empty", "error"}
  <2>1. PICK st \in States : (state \in Cleared => st \in Cleared) /\ Settle(st, session)
    <3>1. CASE select[c].at = "empty"
      BY <1>0, <1>3, <3>1, Reduction DEF Deliver, Dispatch
    <3>2. CASE select[c].at = "error"
      <4>1. Settle(Refused(c), session)
        BY <1>3, <3>2 DEF Deliver
      <4>2. Refused(c) \in States /\ (state \in Cleared => Refused(c) \in Cleared)
        BY <1>0, Reduction DEF Refused
      <4> QED BY <4>1, <4>2
    <3> QED BY <1>3, <3>1, <3>2
  <2>2. Commit(st, session) /\ wanted' \in {wanted, 0}
    BY <2>1 DEF Settle
  <2>3. (st \notin Cleared => session # 0) /\ state' = st /\ session' \in {0, session}
    BY <2>1, <2>2 DEF AccountInv, HoldsInv, Commit, Kept
  <2>4. toMain' \in Seq(Requests)
    BY <1>0, <2>2, <2>3, CommitSays
  <2>5. TypeOK'
    BY <1>0, <1>1, <2>2, <2>3, <2>4 DEF AccountInv, TypeOK, Requests, Calls
  <2>6. \A d \in Selects : select'[d] = select[d] \/ (select[d].at \in {"empty", "error"} /\ select'[d].at = "done")
    BY <1>1, <1>3
  <2>7. ~overtaken' => /\ Working' # {} => session' = 0
                       /\ \A x, y \in Working' : x = y
    BY <1>0, <1>2, <2>3 DEF AccountInv, AloneInv
  <2> QED BY <1>0, <2>1, <2>2, <2>5, <2>6, <2>7, ScreenMoves
<1>4. CASE select[c].at = "ready"
  <2> DEFINE st == Reduce(state, "PREFLIGHT_READY")
  <2>1. st \in States /\ st = IF state = "PREFLIGHTING" THEN "READY" ELSE state
    BY <1>0, Reduction
  <2>2. Commit(st, c) /\ wanted' \in {wanted, 0}
    BY <1>4 DEF Deliver, Settle
  <2> HIDE DEF st
  <2>3. state' = st /\ session' = IF st \in Cleared THEN 0 ELSE c
    BY <2>2 DEF Commit, Kept
  <2>4. toMain' \in Seq(Requests) /\ Said' = Said \cup Added(st, c) /\ c # 0
    BY <1>0, <2>1, <2>2, CommitSays
  <2>5. TypeOK'
    BY <1>0, <1>1, <2>1, <2>2, <2>3, <2>4 DEF AccountInv, TypeOK, Requests, Calls
  <2>6. HoldsInv'
    BY <2>3, <2>4 DEF HoldsInv
  <2>7. c \in registered /\ \A m \in Said : m.session # c
    BY <1>0, <1>4 DEF AccountInv, ShownInv
  <2>8. \A m \in Added(st, c) : m.session = c /\ (session' # 0 => m # Cancel(c))
    BY <2>3, CancelsDiffer DEF Added, Cleared
  <2>9. \A m \in Said : m.session \in Selects
    <3>1. \A m \in Said : m \in Requests
      BY <1>0 DEF Said
    <3> QED BY <3>1 DEF Requests
  <2>10. ShownInv'
    <3>1. \A m \in Said' : select'[m.session].at = "done"
      BY <1>1, <2>4, <2>7, <2>8, <2>9 DEF AccountInv, ShownInv
    <3>2. session' # 0 => session' \in registered' /\ select'[session'].at = "done" /\ Cancel(session') \notin Said'
      BY <1>0, <1>1, <2>3, <2>4, <2>7, <2>8, CancelsDiffer
    <3>3. \A d \in Selects : select'[d].at = "ready" /\ select'[d].heard => d \in registered'
      BY <1>0, <1>1 DEF AccountInv, ShownInv
    <3> QED BY <3>1, <3>2, <3>3 DEF ShownInv
  <2>11. FilesInv'
    BY <1>0, <1>1, <1>4 DEF AccountInv, FilesInv, FilesAccountedFor
  <2>12. AloneInv'
    <3>1. ASSUME ~overtaken'
          PROVE  session = 0 /\ Working = {c}
      BY <1>0, <1>4, <3>1 DEF AccountInv, AloneInv, Working
    <3>2. ASSUME ~overtaken', NEW d \in registered'
          PROVE  d = session' \/ select'[d].at = "ready" \/ Cancel(d) \in Said'
      <4>1. CASE d = c
        BY <2>3, <2>4, <4>1 DEF Added
      <4>2. CASE d # c
        BY <1>0, <1>1, <2>4, <3>1, <3>2, <4>2 DEF AccountInv, AloneInv
      <4> QED BY <4>1, <4>2
    <3> QED BY <1>2, <3>1, <3>2 DEF AloneInv
  <2> QED BY <2>5, <2>6, <2>10, <2>11, <2>12 DEF AccountInv
<1> QED BY <1>3, <1>4 DEF Deliver

\* The screen starts again, and no call that was under way is heard.
LEMMA LostKeeps ==
  ASSUME AccountInv, Lost, window' \in {"crashed", "closed", "quit"},
         toMain' \in {toMain, <<>>}, registered' = {},
         open' = IF window' = "quit" THEN {} ELSE open \ registered,
         window # "quit"
  PROVE  AccountInv'
<1>0. /\ select \in [Selects -> Calls] /\ toMain \in Seq(Requests) /\ overtaken \in BOOLEAN
      /\ open \subseteq Selects
  BY DEF AccountInv, TypeOK, Requests, Calls
<1>1. \A c \in Selects : /\ select'[c] = [select[c] EXCEPT !.heard = select[c].at \in {"unused", "done"}]
                         /\ select'[c] \in Calls
  <2> SUFFICES ASSUME NEW c \in Selects
               PROVE  /\ select'[c] = [select[c] EXCEPT !.heard = select[c].at \in {"unused", "done"}]
                      /\ select'[c] \in Calls
    OBVIOUS
  <2>1. select[c] \in Calls /\ (select[c].at \in {"unused", "done"}) \in BOOLEAN
    BY <1>0
  <2>2. [select[c] EXCEPT !.heard = select[c].at \in {"unused", "done"}] \in Calls
    BY <2>1 DEF Calls
  <2> QED BY <2>2 DEF Lost
<1>2. select' \in [Selects -> Calls]
  BY <1>1 DEF Lost
<1>3. \A c \in Selects : /\ select'[c].at = select[c].at
                         /\ select'[c].heard => select[c].at \in {"unused", "done"}
  BY <1>0, <1>1 DEF Calls
<1>4. toMain' \in Seq(Requests) /\ Said' \subseteq Said
  <2>1. CASE toMain' = toMain
    BY <1>0, <2>1 DEF Said
  <2>2. CASE toMain' = <<>>
    <3>1. Said' = {}
      BY <2>2 DEF Said
    <3> QED BY <2>2, <3>1
  <2> QED BY <2>1, <2>2
<1>5. overtaken' \in BOOLEAN
  BY DEF Lost
<1>6. TypeOK'
  BY <1>0, <1>2, <1>4, <1>5 DEF Lost, TypeOK, States, Requests, Calls
<1>7. HoldsInv' /\ session' = 0 /\ Working' = Working
  BY <1>3 DEF Lost, HoldsInv, Cleared, Working
<1>8. \A m \in Said : m.session \in Selects
  <2>1. \A m \in Said : m \in Requests
    BY <1>0 DEF Said
  <2> QED BY <2>1 DEF Requests
<1>9. ShownInv'
  BY <1>3, <1>4, <1>7, <1>8 DEF AccountInv, ShownInv
<1>10. FilesInv'
  <2>1. \A c \in registered : select[c].at # "preflight"
    BY DEF AccountInv, FilesInv
  <2>2. {c \in Selects : select'[c].at = "preflight"} = {c \in Selects : select[c].at = "preflight"}
    BY <1>3
  <2> QED BY <2>1, <2>2 DEF AccountInv, FilesInv, FilesAccountedFor
<1>11. AloneInv'
  BY <1>7 DEF Lost, AloneInv, AccountInv
<1> QED BY <1>6, <1>7, <1>9, <1>10, <1>11 DEF AccountInv
-----------------------------------------------------------------------------
LEMMA ScreenInit == Init => AccountInv
<1> SUFFICES ASSUME Init PROVE AccountInv
  OBVIOUS
<1>1. TypeOK
  <2>1. select \in [Selects -> Calls]
    BY DEF Init, Idle, Calls
  <2>2. /\ window \in {"open", "crashed", "closed", "quit"} /\ surface \in {"SEND", "LOOPBACK", "RECEIVE"}
        /\ state \in States /\ {session, wanted} \subseteq Selects \cup {0} /\ toMain \in Seq(Requests)
        /\ answers \subseteq Answers /\ registered \subseteq Selects /\ open \subseteq Selects
    BY DEF Init, States
  <2>3. asking \in BOOLEAN /\ {loopback, overtaken} \subseteq BOOLEAN
    BY Zenon DEF Init
  <2> QED BY <2>1, <2>2, <2>3 DEF TypeOK, Calls, Requests, Answers
<1>2. Said = {} /\ Working = {}
  BY DEF Init, Said, Working, Idle
<1>3. HoldsInv /\ ShownInv /\ FilesInv /\ AloneInv
  BY <1>2 DEF Init, HoldsInv, Cleared, ShownInv, FilesInv, FilesAccountedFor, AloneInv, Idle
<1> QED BY <1>1, <1>3 DEF AccountInv

LEMMA ScreenNext == AccountInv /\ [Next]_vars => AccountInv'
<1> SUFFICES ASSUME AccountInv, [Next]_vars PROVE AccountInv'
  OBVIOUS
<1>0. TypeOK
  BY DEF AccountInv
<1> USE DEF screen, main
<1>1. CASE TapSelect
  BY <1>1, PickKeeps, PickersClear DEF TapSelect
<1>2. CASE SubmitResume
  BY <1>2, PickKeeps, PickersClear DEF SubmitResume
<1>3. CASE Tap
  <2>1. PICK e \in {x[2] : x \in {y \in Controls : y[1] = state}} : Dispatch(e)
    BY <1>3 DEF Tap
  <2>2. e # "PREFLIGHT_READY"
    <3>1. \A y \in Controls : y[2] # "PREFLIGHT_READY"
      BY DEF Controls
    <3> QED BY <3>1
  <2> QED BY <1>0, <1>3, <2>1, <2>2, DispatchKeeps DEF Tap, TypeOK, Answers
<1>4. CASE RequestCancel
  <2>1. CASE state \in Confirmed
    <3>1. UNCHANGED <<window, state, session, wanted, toMain, surface, select, loopback, main, overtaken>> /\ asking' = TRUE
      BY <1>4, <2>1 DEF RequestCancel
    <3>2. TypeOK'
      BY <1>0, <3>1 DEF TypeOK
    <3> QED BY <3>1, <3>2, RestKeeps
  <2>2. CASE state \notin Confirmed
    BY <1>0, <1>4, <2>2, DispatchKeeps DEF RequestCancel, TypeOK, Answers
  <2> QED BY <2>1, <2>2
<1>5. CASE AnswerDialog
  <2>1. CASE Dispatch("CANCELLED")
    BY <1>0, <1>5, <2>1, DispatchKeeps DEF AnswerDialog, TypeOK, Answers
  <2>2. CASE UNCHANGED <<state, session, wanted, toMain>>
    <3>1. TypeOK'
      BY <1>0, <1>5, <2>2 DEF AnswerDialog, TypeOK
    <3> QED BY <1>5, <2>2, <3>1, RestKeeps DEF AnswerDialog
  <2> QED BY <1>5, <2>1, <2>2 DEF AnswerDialog
<1>6. CASE StreamReports
  <2>1. PICK e \in {"STREAM_FINISHED", "STREAM_FAILED"} : Dispatch(e)
    BY <1>6 DEF StreamReports
  <2>2. e # "PREFLIGHT_READY"
    OBVIOUS
  <2> QED BY <1>0, <1>6, <2>1, <2>2, DispatchKeeps DEF StreamReports, TypeOK, Answers
<1>7. CASE TapRecover
  <2> DEFINE r == Request("recover", session)
  <2>1. session \in Selects /\ session # 0 /\ toMain' = Append(toMain, r)
        /\ UNCHANGED <<window, screen, select, loopback, main, overtaken>>
    BY <1>0, <1>7 DEF AccountInv, HoldsInv, TapRecover, Cleared, TypeOK
  <2>2. r \in Requests /\ toMain \in Seq(Requests) /\ r.session = session /\ r # Cancel(session)
    BY <1>0, <2>1, CancelsDiffer DEF Request, Requests, TypeOK
  <2>3. toMain' \in Seq(Requests) /\ Said' = Said \cup {r}
    <3>1. <<r>> \in Seq(Requests) /\ {<<r>>[i] : i \in DOMAIN <<r>>} = {r} /\ toMain' = toMain \o <<r>>
      BY <2>1, <2>2
    <3> HIDE DEF r
    <3> QED BY <2>2, <3>1, SaidOf DEF Said
  <2> HIDE DEF r
  <2>4. TypeOK'
    BY <1>0, <2>1, <2>3 DEF TypeOK, Requests
  <2>5. HoldsInv' /\ ShownInv' /\ FilesInv' /\ AloneInv'
    BY <2>1, <2>2, <2>3 DEF AccountInv, HoldsInv, ShownInv, FilesInv, FilesAccountedFor, AloneInv, Working
  <2> QED BY <2>4, <2>5 DEF AccountInv
<1>8. CASE TapLoopback \/ LoopbackStarts \/ OpenReceiver \/ Leave \/ Activate
  <2>1. /\ UNCHANGED <<state, session, toMain, select, registered, open, overtaken>>
        /\ window' = "quit" <=> window = "quit"
    BY <1>8 DEF TapLoopback, LoopbackStarts, OpenReceiver, Leave, Activate
  <2>2. TypeOK'
    BY <1>0, <1>8 DEF TapLoopback, LoopbackStarts, OpenReceiver, Leave, Activate, TypeOK
  <2> QED BY <2>1, <2>2, RestKeeps
<1>9. ASSUME NEW c \in Selects, DialogAnswers(c)
      PROVE  AccountInv'
  <2>1. /\ select[c].at = "dialog" /\ window # "quit"
        /\ UNCHANGED <<window, screen, toMain, answers, loopback, registered, overtaken>>
    BY <1>9 DEF DialogAnswers
  <2>2. c \notin open
    BY <2>1 DEF AccountInv, FilesInv, FilesAccountedFor
  <2>3. PICK pc \in {"preflight", "empty", "error"} :
          select' = At(c, pc) /\ open' = IF pc = "preflight" THEN open \cup {c} ELSE open \ {c}
    <3>1. open \ {c} = open
      BY <2>2
    <3> QED BY <1>9, <3>1 DEF DialogAnswers
  <2> QED BY <2>1, <2>3, CallGoesOn
<1>10. ASSUME NEW c \in Selects, PreflightRefuses(c)
       PROVE  AccountInv'
  BY <1>10, CallGoesOn DEF PreflightRefuses, Abandoned
<1>11. ASSUME NEW c \in Selects, PreflightEnds(c)
       PROVE  AccountInv'
  BY <1>11, CallGoesOn DEF PreflightEnds
<1>12. CASE Handle
  BY <1>12, HandleKeeps
<1>13. CASE AnswerProgress
  <2>1. PICK a \in answers :
          /\ answers' = answers \ {a}
          /\ IF Armed(a) THEN Dispatch(IF a.ok THEN "STREAM_STARTED" ELSE "STREAM_FAILED")
             ELSE UNCHANGED <<state, session, wanted, toMain>>
          /\ UNCHANGED <<window, surface, asking, select, loopback, registered, open, overtaken>>
    BY <1>13 DEF AnswerProgress
  <2>2. CASE Armed(a)
    <3>1. PICK e \in {"STREAM_STARTED", "STREAM_FAILED"} : Dispatch(e)
      BY <2>1, <2>2
    <3>2. e # "PREFLIGHT_READY"
      OBVIOUS
    <3> QED BY <1>0, <2>1, <3>1, <3>2, DispatchKeeps DEF TypeOK, Answers
  <2>3. CASE ~Armed(a)
    <3>1. TypeOK'
      BY <1>0, <2>1, <2>3 DEF TypeOK
    <3> QED BY <2>1, <2>3, <3>1, RestKeeps
  <2> QED BY <2>2, <2>3
<1>14. CASE AnswerRecover
  <2>1. PICK a \in answers :
          /\ answers' = answers \ {a}
          /\ Dispatch(IF a.ok THEN "RECOVERY_REQUESTED" ELSE "RESET")
          /\ UNCHANGED <<window, surface, asking, select, loopback, registered, open, overtaken>>
    BY <1>14 DEF AnswerRecover
  <2>2. PICK e \in {"RECOVERY_REQUESTED", "RESET"} : Dispatch(e)
    BY <2>1
  <2>3. e # "PREFLIGHT_READY"
    OBVIOUS
  <2> QED BY <1>0, <2>1, <2>2, <2>3, DispatchKeeps DEF TypeOK, Answers
<1>15. ASSUME NEW c \in Selects, Deliver(c)
       PROVE  AccountInv'
  BY <1>15, DeliverKeeps
<1>16. CASE WindowGone
  BY <1>16, LostKeeps DEF WindowGone, DisposeAll
<1>17. CASE Quit
  BY <1>17, LostKeeps DEF Quit
<1>18. CASE UNCHANGED vars
  BY <1>0, <1>18, RestKeeps DEF vars, TypeOK
<1> QED BY <1>1, <1>2, <1>3, <1>4, <1>5, <1>6, <1>7, <1>8, <1>9, <1>10, <1>11, <1>12, <1>13,
           <1>14, <1>15, <1>16, <1>17, <1>18 DEF Next, Taps

LEMMA AccountHolds == Spec => []AccountInv
  BY ScreenInit, ScreenNext, PTL DEF Spec

\* Every variable of the sending screen keeps its type.
THEOREM SenderTypeCorrect == Spec => []TypeOK
<1>1. AccountInv => TypeOK
  BY DEF AccountInv
<1> QED BY <1>1, AccountHolds, PTL

\* Screen, registry and open files agree, for any number of selections: the session
\* a screen holds is registered and every state that needs one holds one, every open
\* file is a session's or being read, and one selection at a time leaves nothing
\* behind.
THEOREM SessionsAreAccountedFor == Spec => []SessionsAccountedFor
<1>1. ASSUME AccountInv PROVE SessionsAccountedFor
  <2>1. ShownIsThere
    BY <1>1 DEF AccountInv, HoldsInv, ShownInv, ShownIsThere
  <2>2. FilesAccountedFor
    BY <1>1 DEF AccountInv, FilesInv
  <2>3. NothingLeftBehind
    <3>1. toMain = <<>> => Said = {}
      BY DEF Said
    <3>2. Working = {} => \A c \in Selects : select[c].at # "ready"
      BY DEF Working
    <3> QED BY <1>1, <3>1, <3>2 DEF AccountInv, AloneInv, TypeOK, NothingLeftBehind
  <2> QED BY <2>1, <2>2, <2>3 DEF SessionsAccountedFor
<1> QED BY <1>1, AccountHolds, PTL

\* As long as one selection is made at a time, the session on the screen changes
\* only through a state that releases it.
LEMMA KeepsItsSession ==
  ASSUME AccountInv, [Next]_vars, ~overtaken', {session, session'} \subseteq Selects
  PROVE  session' = session
<1>0. 0 \notin Selects /\ session # 0 /\ session' # 0
  BY SenderSessionAssumption
<1>1. ASSUME NEW st, Commit(st, session) PROVE session' = session
  BY <1>0, <1>1 DEF Commit, Kept
<1>2. ASSUME NEW e, NEW token, Pick(e, token) PROVE session' = session
  BY <1>1, <1>2 DEF Pick
<1>3. ASSUME NEW e, Dispatch(e) PROVE session' = session
  BY <1>1, <1>3 DEF Dispatch, Settle
<1>4. ASSUME NEW c \in Selects, Deliver(c) PROVE session' = session
  <2>1. UNCHANGED overtaken /\ select[c].at \in {"empty", "error", "ready"}
    BY <1>4 DEF Deliver
  <2>2. c \in Working /\ ~overtaken
    BY <2>1 DEF Working
  <2> QED BY <1>0, <2>2 DEF AccountInv, AloneInv
<1>5. CASE Taps \/ StreamReports
  BY <1>2, <1>3, <1>5 DEF Taps, TapSelect, SubmitResume, Tap, RequestCancel, AnswerDialog,
     TapRecover, TapLoopback, OpenReceiver, Leave, StreamReports, screen
<1>6. CASE AnswerProgress \/ AnswerRecover
  BY <1>3, <1>6 DEF AnswerProgress, AnswerRecover
<1>7. CASE WindowGone \/ Quit
  BY <1>0, <1>7 DEF WindowGone, Quit, Lost
<1>8. CASE LoopbackStarts \/ Handle \/ Activate
  BY <1>8 DEF LoopbackStarts, Handle, Activate, screen
<1>9. ASSUME NEW c \in Selects, DialogAnswers(c) \/ PreflightRefuses(c) \/ PreflightEnds(c)
      PROVE  session' = session
  BY <1>9 DEF DialogAnswers, PreflightRefuses, PreflightEnds, screen
<1>10. CASE UNCHANGED vars
  BY <1>10 DEF vars, screen
<1> QED BY <1>4, <1>5, <1>6, <1>7, <1>8, <1>9, <1>10 DEF Next

\* A stream goes on with the file it started with.
THEOREM StreamsKeepTheirFiles == Spec => StreamKeepsItsFile
<1>1. AccountInv /\ [Next]_vars =>
        [~overtaken' /\ {session, session'} \subseteq Selects => session' = session]_vars
  BY KeepsItsSession
<1> QED BY <1>1, AccountHolds, PTL DEF Spec, StreamKeepsItsFile
=============================================================================
