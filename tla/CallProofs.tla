----------------------------- MODULE CallProofs -----------------------------
(***************************************************************************)
(* Calls between any number of users, with tabs that leave and keys that   *)
(* expire.                                                                 *)
(*                                                                         *)
(* DeclinedNeverStarted, one tab for each user: the invariant follows what *)
(* can still decide a call.  A call has at most one token: the number      *)
(* waiting in startCall, the offer on its way or in its handler, the ring  *)
(* on its way to the receiver's page or shown there, the answer or refusal *)
(* on its way or in its handler.  Whoever holds the token may answer or    *)
(* refuse, nobody both.                                                    *)
(*                                                                         *)
(* TypeOK, any tabs: a call's number stands in one place until its row has *)
(* a caller, and whoever names the call from then on agrees with the row   *)
(* about its parties.                                                      *)
(*                                                                         *)
(* BusyWithOwnCall, one tab for each user: the handlers of a receiver run  *)
(* one after the other, in the order his page spoke, and what each has     *)
(* still to write agrees with what the busy flags already say.             *)
(***************************************************************************)
EXTENDS CallSignaling, TLAPS

OneTabEach == \A s, t \in Tabs : UserOf[s] = UserOf[t] => s = t

USE UsersAssumption, TabsAssumption, CallIdsAssumption, BoundsAssumption

-----------------------------------------------------------------------------
(* Types, weaker than TypeOK: any user may stand where one is named.       *)
Mode == {"closed", "opening", "idle", "incoming", "calling", "connecting", "ongoing"}
PageState == [mode : Mode, with : SomeUser, id : Id, dial : Id]
Letter == [type : {"offer", "answer", "reject", "end", "close"}, to : SomeUser, id : Id]
Ping == [type : {"incoming", "answer", "rejected", "ended", "busy", "unavailable"}, from : SomeUser, id : Id]
Consumer == [joined : BOOLEAN, active : Id, peer : SomeUser]
Row == [caller : SomeUser, receiver : SomeUser, status : CallStatus, started : BOOLEAN]

Opening == {"reach", "free", "ring", "join", "appear", "accept"}
Finishing == {"read", "save", "hold own", "hold peer", "drop own", "drop peer", "tell", "vanish", "leave"}
Task == [plan : Seq(Opening \cup Finishing), tells : {"none", "answer", "rejected", "ended"}, to : SomeUser,
         id : Id, status : CallStatus, answered : BOOLEAN, read : Row]

Typed ==
  /\ client \in [Tabs -> PageState]
  /\ up \in [Tabs -> Seq(Letter)]
  /\ down \in [Tabs -> Seq(Ping)]
  /\ consumer \in [Tabs -> Consumer]
  /\ task \in [Tabs -> Task]
  /\ row \in [CallIds -> Row]

(* What a handler has still to do goes with what it will tell: only one    *)
(* that tells something marks a row.                                       *)
Silent == Seq(Opening \cup {"vanish", "leave"})
Outcomes == {<<"answer", "ongoing">>, <<"rejected", "rejected">>, <<"ended", "ended">>}
TaskOK(k) ==
  \/ k.tells = "none" /\ k.plan \in Silent
  \/ /\ <<k.tells, k.status>> \in Outcomes
     /\ k.plan \in Seq(Finishing)
     /\ k.id = NoCall => k.plan \in Seq(Finishing \ {"read", "save"})
     /\ k.tells = "rejected" => ~k.answered

Over == {"ended", "rejected"}
Closed(r) == r.started => r.status \in Over
ReadOK(k) ==
  /\ k.read.status = "ringing" => ~k.read.started
  /\ k.tells = "rejected" => Closed(k.read)

RowOK(r) == r.status \in {"ringing", "rejected"} => ~r.started

-----------------------------------------------------------------------------
(* The token of call c: its place is a tab, a kind and, in a queue, a      *)
(* position.                                                               *)
Kinds == {"dial", "held", "sent", "task", "rings", "nowhere"}
Queued(q, i, c, types) == i \in 1..Len(q) /\ q[i].id = c /\ q[i].type \in types
Token(c, t, k, i) ==
  \/ k = "dial" /\ i = 0 /\ client[t].dial = c
  \/ k = "held" /\ i = 0 /\ client[t].id = c /\ client[t].mode \in {"incoming", "connecting"}
  \/ k = "sent" /\ Queued(up[t], i, c, {"offer", "answer", "reject"})
  \/ k = "task" /\ i = 0 /\ task[t].id = c /\ task[t].tells # "ended"
  \/ k = "rings" /\ Queued(down[t], i, c, {"incoming"})
Answered(t, k, i) ==
  \/ k = "sent" /\ up[t][i].type = "answer"
  \/ k = "task" /\ task[t].tells = "answer"

Once(c) ==
  \A s, t \in Tabs, k, l \in Kinds, i, j \in Nat :
    Token(c, s, k, i) /\ Token(c, t, l, j) => s = t /\ k = l /\ i = j
Known(c) == \A t \in Tabs, k \in Kinds, i \in Nat : Token(c, t, k, i) => row[c].status # "none"
Undecided(c) ==
  \A t \in Tabs, k \in Kinds, i \in Nat : Token(c, t, k, i) /\ ~Answered(t, k, i) => Closed(row[c])

Fate(c) == Once(c) /\ Known(c) /\ Undecided(c)

Inv ==
  /\ Typed
  /\ \A t \in Tabs : TaskOK(task[t]) /\ ReadOK(task[t])
  /\ \A c \in CallIds : RowOK(row[c]) /\ Fate(c)

-----------------------------------------------------------------------------
(* How the tokens of a call fare in a step.                                *)
RowFine(c) ==
  /\ row[c].status # "none" => row'[c].status # "none"
  /\ Closed(row[c]) => Closed(row'[c])

\* What stands at one place after the step stood at the other before it.
From(c, s, k, i, t, l, j) ==
  Token(c, t, l, j)' => Token(c, s, k, i) /\ (Answered(s, k, i) => Answered(t, l, j)')

\* Tokens are dropped or stay where they are.
Fades(c) == \A t \in Tabs, k \in Kinds, i \in Nat : From(c, t, k, i, t, k, i)

\* At most one goes, to another kind of place of the same or another tab.
Goes(c, s, k, i, t, l, j) ==
  /\ From(c, s, k, i, t, l, j)
  /\ \A v \in Tabs, m \in Kinds, n \in Nat : ~(v = t /\ m = l /\ n = j) =>
       /\ From(c, v, m, n, v, m, n)
       /\ ~(v = s /\ m = k /\ n = i /\ Token(c, v, m, n)')

\* The head of queue k of tab t is taken and goes to a place of kind l.
Taken(c, t, k, l, j) ==
  /\ From(c, t, k, 1, t, l, j)
  /\ \A n \in Nat : From(c, t, k, n + 1, t, k, n) /\ ~Token(c, t, k, 0)'
  /\ \A v \in Tabs, m \in Kinds, n \in Nat : ~(v = t /\ m = k) /\ ~(v = t /\ m = l /\ n = j) =>
       From(c, v, m, n, v, m, n)

LEMMA Fewer ==
  ASSUME NEW c \in CallIds, Fate(c), RowFine(c), Fades(c)
  PROVE  Fate(c)'
  <1>1. Once(c)'
    BY DEF Fate, Once, Fades, From
  <1>2. Known(c)'
    BY DEF Fate, Known, RowFine, Fades, From
  <1>3. Undecided(c)'
    BY DEF Fate, Undecided, RowFine, Fades, From
  <1> QED BY <1>1, <1>2, <1>3 DEF Fate

LEMMA Moved ==
  ASSUME NEW c \in CallIds, Fate(c), RowFine(c),
         NEW s \in Tabs, NEW k \in Kinds, NEW i \in Nat, NEW t \in Tabs, NEW l \in Kinds, NEW j \in Nat,
         Goes(c, s, k, i, t, l, j)
  PROVE  Fate(c)'
  <1>1. Once(c)'
    BY DEF Fate, Once, Goes, From
  <1>2. Known(c)'
    BY DEF Fate, Known, RowFine, Goes, From
  <1>3. Undecided(c)'
    BY DEF Fate, Undecided, RowFine, Goes, From
  <1> QED BY <1>1, <1>2, <1>3 DEF Fate

LEMMA HeadTaken ==
  ASSUME NEW c \in CallIds, Fate(c), RowFine(c),
         NEW t \in Tabs, NEW k \in Kinds, NEW l \in Kinds, NEW j \in Nat, l # k, Taken(c, t, k, l, j)
  PROVE  Fate(c)'
  <1> DEFINE Place(y, z) == IF y = l /\ z = j THEN <<k, 1>> ELSE IF y = k THEN <<k, z + 1>> ELSE <<y, z>>
  <1>1. ASSUME NEW u \in Tabs, NEW m \in Kinds, NEW p \in Nat, Token(c, u, m, p)'
        PROVE  \E n \in Kinds, q \in Nat :
                 /\ <<n, q>> = IF u = t THEN Place(m, p) ELSE <<m, p>>
                 /\ Token(c, u, n, q)
                 /\ Answered(u, n, q) => Answered(u, m, p)'
                 /\ u = t /\ m = k => p # 0
    BY <1>1 DEF Taken, From
  <1>2. Once(c)'
    <2> SUFFICES ASSUME NEW u \in Tabs, NEW v \in Tabs, NEW m \in Kinds, NEW n \in Kinds, NEW p \in Nat, NEW q \in Nat,
                        Token(c, u, m, p)', Token(c, v, n, q)'
                 PROVE  u = v /\ m = n /\ p = q
      BY DEF Once
    <2> HIDE DEF Place
    <2>1. PICK m0 \in Kinds, p0 \in Nat :
            <<m0, p0>> = (IF u = t THEN Place(m, p) ELSE <<m, p>>) /\ Token(c, u, m0, p0) /\ (u = t /\ m = k => p # 0)
      BY <1>1
    <2>2. PICK n0 \in Kinds, q0 \in Nat :
            <<n0, q0>> = (IF v = t THEN Place(n, q) ELSE <<n, q>>) /\ Token(c, v, n0, q0) /\ (v = t /\ n = k => q # 0)
      BY <1>1
    <2>3. u = v /\ m0 = n0 /\ p0 = q0
      BY <2>1, <2>2 DEF Fate, Once
    <2> QED BY <2>1, <2>2, <2>3 DEF Place
  <1>3. ASSUME NEW u \in Tabs, NEW m \in Kinds, NEW p \in Nat, Token(c, u, m, p)'
        PROVE  row[c].status # "none" /\ (~Answered(u, m, p)' => Closed(row[c]))
    <2>1. PICK m0 \in Kinds, p0 \in Nat : Token(c, u, m0, p0) /\ (Answered(u, m0, p0) => Answered(u, m, p)')
      BY <1>1, <1>3
    <2> QED BY <2>1 DEF Fate, Known, Undecided
  <1>4. Known(c)' /\ Undecided(c)'
    BY <1>3 DEF Known, Undecided, RowFine
  <1> QED BY <1>2, <1>3, <1>4 DEF Fate

-----------------------------------------------------------------------------
(* The same, place by place.                                               *)
FadesAt(c, k) == \A t \in Tabs, i \in Nat : From(c, t, k, i, t, k, i)

Shown == {"incoming", "connecting"}
PagesFade ==
  \A t \in Tabs :
    /\ client'[t].dial \in {client[t].dial, NoCall}
    /\ client'[t].mode \in Shown =>
         client'[t].id = NoCall \/ (client'[t].id = client[t].id /\ client[t].mode \in Shown)
TasksFade ==
  \A t \in Tabs : \/ task'[t].id = task[t].id /\ task'[t].tells = task[t].tells
                  \/ task'[t].id = NoCall
UpFades ==
  \A t \in Tabs : \/ up'[t] = up[t]
                  \/ \E m \in Letter : m.type \in {"end", "close"} /\ up'[t] = Append(up[t], m)
DownFades ==
  \A t \in Tabs : \/ down'[t] \in {down[t], <<>>}
                  \/ \E m \in Ping : m.type # "incoming" /\ down'[t] = Append(down[t], m)

LEMMA AllFade ==
  ASSUME NEW c \in CallIds, \A k \in Kinds \ {"nowhere"} : FadesAt(c, k)
  PROVE  Fades(c)
  <1> SUFFICES ASSUME NEW t \in Tabs, NEW k \in Kinds, NEW i \in Nat PROVE From(c, t, k, i, t, k, i)
    BY DEF Fades
  <1>1. CASE k # "nowhere"
    BY <1>1 DEF FadesAt
  <1>2. CASE k = "nowhere"
    BY <1>2 DEF From, Token
  <1> QED BY <1>1, <1>2

LEMMA PagesFading ==
  ASSUME NEW c \in CallIds, PagesFade
  PROVE  FadesAt(c, "dial") /\ FadesAt(c, "held")
  <1>1. c # NoCall
    BY DEF NoCall
  <1>2. FadesAt(c, "dial")
    BY <1>1 DEF FadesAt, From, Token, Answered, PagesFade
  <1>3. FadesAt(c, "held")
    BY <1>1 DEF FadesAt, From, Token, Answered, PagesFade, Shown
  <1> QED BY <1>2, <1>3

LEMMA TasksFading ==
  ASSUME NEW c \in CallIds, TasksFade
  PROVE  FadesAt(c, "task")
  BY DEF FadesAt, From, Token, Answered, TasksFade, NoCall

LEMMA UpFading ==
  ASSUME NEW c \in CallIds, Typed, UpFades
  PROVE  FadesAt(c, "sent")
  <1> SUFFICES ASSUME NEW t \in Tabs, NEW i \in Nat, Token(c, t, "sent", i)'
               PROVE  Token(c, t, "sent", i) /\ (Answered(t, "sent", i) => Answered(t, "sent", i)')
    BY DEF FadesAt, From
  <1>0. up[t] \in Seq(Letter) /\ Queued(up'[t], i, c, {"offer", "answer", "reject"})
    BY DEF Token, Typed
  <1>1. CASE up'[t] = up[t]
    BY <1>0, <1>1 DEF Token, Answered
  <1>2. ASSUME NEW m \in Letter, m.type \in {"end", "close"}, up'[t] = Append(up[t], m)
        PROVE  Queued(up[t], i, c, {"offer", "answer", "reject"}) /\ up'[t][i] = up[t][i]
    BY <1>0, <1>2 DEF Queued
  <1> QED BY <1>1, <1>2 DEF UpFades, Token, Answered

LEMMA DownFading ==
  ASSUME NEW c \in CallIds, Typed, DownFades
  PROVE  FadesAt(c, "rings")
  <1> SUFFICES ASSUME NEW t \in Tabs, NEW i \in Nat, Token(c, t, "rings", i)'
               PROVE  Token(c, t, "rings", i)
    BY DEF FadesAt, From, Answered
  <1>0. down[t] \in Seq(Ping) /\ Queued(down'[t], i, c, {"incoming"})
    BY DEF Token, Typed
  <1>1. CASE down'[t] \in {down[t], <<>>}
    BY <1>0, <1>1 DEF Token, Queued
  <1>2. ASSUME NEW m \in Ping, m.type # "incoming", down'[t] = Append(down[t], m)
        PROVE  Queued(down[t], i, c, {"incoming"})
    BY <1>0, <1>2 DEF Queued
  <1> QED BY <1>1, <1>2 DEF DownFades, Token

Posts(t, m) == up' = [up EXCEPT ![t] = Append(@, m)]
TakesUp(t) == up[t] # <<>> /\ up' = [up EXCEPT ![t] = Tail(@)]
TakesDown(t) == down[t] # <<>> /\ down' = [down EXCEPT ![t] = Tail(@)]

LEMMA SeqHead ==
  ASSUME NEW S, NEW q \in Seq(S), q # <<>>
  PROVE  /\ Len(q) \in Nat /\ Len(q) >= 1 /\ Head(q) = q[1] /\ q[1] \in S
         /\ Tail(q) \in Seq(S) /\ Len(Tail(q)) = Len(q) - 1
         /\ \A i \in 1..Len(Tail(q)) : i + 1 \in 1..Len(q) /\ Tail(q)[i] = q[i + 1]
  <1>1. Len(q) \in Nat /\ Len(q) >= 1
    OBVIOUS
  <1>2. Head(q) = q[1] /\ q[1] \in S
    BY <1>1
  <1>3. Tail(q) \in Seq(S) /\ Len(Tail(q)) = Len(q) - 1
    BY <1>1
  <1> QED BY <1>1, <1>2, <1>3

\* A message is put behind the others of its tab.
LEMMA Posted ==
  ASSUME NEW c \in CallIds, Typed, NEW t \in Tabs, NEW m \in Letter,
         Posts(t, m), NEW n, n = Len(up[t]) + 1
  PROVE  /\ \A s \in Tabs, i \in Nat : ~(s = t /\ i = n) => From(c, s, "sent", i, s, "sent", i)
         /\ Token(c, t, "sent", n)' => m.id = c /\ m.type \in {"offer", "answer", "reject"}
         /\ m.type = "answer" => Answered(t, "sent", n)'
         /\ n \in Nat
  <1>1. /\ up[t] \in Seq(Letter) /\ up'[t] = Append(up[t], m)
        /\ \A s \in Tabs \ {t} : up'[s] = up[s]
    BY DEF Typed, Posts
  <1>2. \A i \in Nat : i # n /\ i \in 1..Len(up'[t]) => i \in 1..Len(up[t]) /\ up'[t][i] = up[t][i]
    BY <1>1
  <1>3. up'[t][n] = m /\ n \in Nat
    BY <1>1
  <1>4. \A s \in Tabs, i \in Nat : ~(s = t /\ i = n) => From(c, s, "sent", i, s, "sent", i)
    BY <1>1, <1>2 DEF From, Token, Queued, Answered
  <1> QED BY <1>3, <1>4 DEF Token, Queued, Answered

\* The consumer or the page takes the first message of its queue.
LEMMA UpTaken ==
  ASSUME NEW c \in CallIds, Typed, NEW t \in Tabs, TakesUp(t)
  PROVE  /\ \A s \in Tabs \ {t}, i \in Nat : From(c, s, "sent", i, s, "sent", i)
         /\ \A i \in Nat : From(c, t, "sent", i + 1, t, "sent", i) /\ ~Token(c, t, "sent", 0)'
         /\ Head(up[t]) = up[t][1] /\ 1 \in 1..Len(up[t]) /\ up'[t] \in Seq(Letter) /\ Head(up[t]) \in Letter
  <1>1. /\ up[t] # <<>> /\ up[t] \in Seq(Letter) /\ up'[t] = Tail(up[t])
        /\ \A s \in Tabs \ {t} : up'[s] = up[s]
    BY DEF Typed, TakesUp
  <1>2. \A i \in Nat : i \in 1..Len(up'[t]) => i + 1 \in 1..Len(up[t]) /\ up'[t][i] = up[t][i + 1]
    <2>1. up[t] # <<>> /\ up[t] \in Seq(Letter)
      BY <1>1
    <2>2. \A i \in 1..Len(Tail(up[t])) : i + 1 \in 1..Len(up[t]) /\ Tail(up[t])[i] = up[t][i + 1]
      BY <2>1, SeqHead
    <2> QED BY <1>1, <2>2
  <1>3. \A i \in Nat : From(c, t, "sent", i + 1, t, "sent", i) /\ ~Token(c, t, "sent", 0)'
    BY <1>1, <1>2 DEF From, Token, Queued, Answered
  <1>4. Head(up[t]) = up[t][1] /\ 1 \in 1..Len(up[t]) /\ up'[t] \in Seq(Letter) /\ Head(up[t]) \in Letter
    <2>1. up[t] # <<>> /\ up[t] \in Seq(Letter)
      BY <1>1
    <2>2. /\ Len(up[t]) \in Nat /\ Len(up[t]) >= 1 /\ Head(up[t]) = up[t][1] /\ up[t][1] \in Letter
          /\ Tail(up[t]) \in Seq(Letter)
      BY <2>1, SeqHead
    <2>3. 1 \in 1..Len(up[t])
      BY <2>2
    <2> QED BY <1>1, <2>2, <2>3
  <1> QED BY <1>1, <1>3, <1>4 DEF From, Token, Queued, Answered

LEMMA DownTaken ==
  ASSUME NEW c \in CallIds, Typed, NEW t \in Tabs, TakesDown(t)
  PROVE  /\ \A s \in Tabs \ {t}, i \in Nat : From(c, s, "rings", i, s, "rings", i)
         /\ \A i \in Nat : From(c, t, "rings", i + 1, t, "rings", i) /\ ~Token(c, t, "rings", 0)'
         /\ Head(down[t]) = down[t][1] /\ 1 \in 1..Len(down[t]) /\ down'[t] \in Seq(Ping) /\ Head(down[t]) \in Ping
  <1>1. /\ down[t] # <<>> /\ down[t] \in Seq(Ping) /\ down'[t] = Tail(down[t])
        /\ \A s \in Tabs \ {t} : down'[s] = down[s]
    BY DEF Typed, TakesDown
  <1>2. \A i \in Nat : i \in 1..Len(down'[t]) => i + 1 \in 1..Len(down[t]) /\ down'[t][i] = down[t][i + 1]
    <2>1. down[t] # <<>> /\ down[t] \in Seq(Ping)
      BY <1>1
    <2>2. \A i \in 1..Len(Tail(down[t])) : i + 1 \in 1..Len(down[t]) /\ Tail(down[t])[i] = down[t][i + 1]
      BY <2>1, SeqHead
    <2> QED BY <1>1, <2>2
  <1>3. \A i \in Nat : From(c, t, "rings", i + 1, t, "rings", i) /\ ~Token(c, t, "rings", 0)'
    BY <1>1, <1>2 DEF From, Token, Queued, Answered
  <1>4. Head(down[t]) = down[t][1] /\ 1 \in 1..Len(down[t]) /\ down'[t] \in Seq(Ping) /\ Head(down[t]) \in Ping
    <2>1. down[t] # <<>> /\ down[t] \in Seq(Ping)
      BY <1>1
    <2>2. /\ Len(down[t]) \in Nat /\ Len(down[t]) >= 1 /\ Head(down[t]) = down[t][1] /\ down[t][1] \in Ping
          /\ Tail(down[t]) \in Seq(Ping)
      BY <2>1, SeqHead
    <2>3. 1 \in 1..Len(down[t])
      BY <2>2
    <2> QED BY <1>1, <2>2, <2>3
  <1> QED BY <1>1, <1>3, <1>4 DEF From, Token, Queued, Answered

-----------------------------------------------------------------------------
(* The page.                                                               *)
LEMMA PageTypes ==
  ASSUME Typed, NEW t \in Tabs
  PROVE  /\ client[t] \in PageState /\ Idle \in PageState /\ Away \in PageState /\ CleanedUp(t) \in PageState
         /\ up[t] \in Seq(Letter) /\ down[t] \in Seq(Ping)
         /\ UserOf[t] \in SomeUser
  BY DEF Typed, PageState, Mode, Id, SomeUser, Idle, Away, CleanedUp, NoCall

LEMMA SendTyped ==
  ASSUME Typed, NEW t \in Tabs, NEW m \in Letter, NEW state \in PageState, Send(t, m, state)
  PROVE  client' \in [Tabs -> PageState] /\ up' \in [Tabs -> Seq(Letter)]
  BY DEF Typed, Send

LEMMA PageOnly ==
  ASSUME Inv, UNCHANGED server, client' \in [Tabs -> PageState], up' \in [Tabs -> Seq(Letter)], down' \in [Tabs -> Seq(Ping)],
         \A c \in CallIds : Fate(c)'
  PROVE  Inv'
  BY DEF Inv, Typed, server

LEMMA RowKept ==
  ASSUME UNCHANGED row, NEW c \in CallIds
  PROVE  RowFine(c)
  BY DEF RowFine, Closed

LEMMA PageDrops ==
  ASSUME Inv, UNCHANGED server, client' \in [Tabs -> PageState], up' \in [Tabs -> Seq(Letter)], down' \in [Tabs -> Seq(Ping)],
         PagesFade, UpFades, DownFades
  PROVE  Inv'
  <1> SUFFICES ASSUME NEW c \in CallIds PROVE Fate(c)'
    BY PageOnly
  <1>1. TasksFade
    BY DEF TasksFade, server
  <1>2. FadesAt(c, "dial") /\ FadesAt(c, "held") /\ FadesAt(c, "task") /\ FadesAt(c, "sent") /\ FadesAt(c, "rings")
    BY <1>1, PagesFading, TasksFading, UpFading, DownFading DEF Inv
  <1>3. Fades(c) /\ RowFine(c)
    BY <1>2, AllFade, RowKept DEF Kinds, server
  <1> QED BY <1>3, Fewer DEF Inv

\* The page sends the number it was holding.
LEMMA PageSends ==
  ASSUME Inv, UNCHANGED <<down, server>>, NEW t \in Tabs, NEW m \in Letter, NEW state \in PageState, Send(t, m, state),
         NEW k \in {"dial", "held"},
         k = "dial" => m.id = client[t].dial /\ state = [client[t] EXCEPT !.dial = NoCall],
         k = "held" => /\ m.id = client[t].id /\ client[t].mode \in Shown
                       /\ state.dial = client[t].dial /\ (state.id = NoCall \/ state.mode \notin Shown),
         m.type \in {"offer", "answer", "reject"}
  PROVE  Inv'
  <1> SUFFICES ASSUME NEW c \in CallIds PROVE Fate(c)'
    BY PageOnly, SendTyped DEF Inv, Typed, server
  <1> DEFINE n == Len(up[t]) + 1
  <1>1. PagesFade /\ TasksFade /\ DownFades
    BY DEF PagesFade, TasksFade, DownFades, Send, Inv, Typed, server, PageState
  <1>2. FadesAt(c, "dial") /\ FadesAt(c, "held") /\ FadesAt(c, "task") /\ FadesAt(c, "rings")
    BY <1>1, PagesFading, TasksFading, DownFading DEF Inv
  <1>3. Posts(t, m)
    BY DEF Send, Posts
  <1>4. PICK j : j = n
    OBVIOUS
  <1>5. /\ \A s \in Tabs, i \in Nat : ~(s = t /\ i = j) => From(c, s, "sent", i, s, "sent", i)
        /\ Token(c, t, "sent", j)' => m.id = c
        /\ j \in Nat
    BY <1>3, <1>4, Posted DEF Inv
  <1>6. m.id = c => Token(c, t, k, 0) /\ ~Token(c, t, k, 0)' /\ ~Answered(t, k, 0)
    <2>1. client'[t] = state /\ c # NoCall
      BY DEF Send, Inv, Typed, NoCall
    <2> QED BY <2>1 DEF Token, Answered, Shown, Inv, Typed, PageState
  <1>7. From(c, t, k, 0, t, "sent", j)
    BY <1>5, <1>6 DEF From
  <1>8. CASE m.id = c
    <2>1. Goes(c, t, k, 0, t, "sent", j)
      <3> SUFFICES ASSUME NEW v \in Tabs, NEW x \in Kinds, NEW y \in Nat, ~(v = t /\ x = "sent" /\ y = j)
                   PROVE  From(c, v, x, y, v, x, y) /\ ~(v = t /\ x = k /\ y = 0 /\ Token(c, v, x, y)')
        BY <1>7 DEF Goes
      <3>1. From(c, v, x, y, v, x, y)
        <4>1. CASE x = "sent"
          BY <4>1, <1>5
        <4>2. CASE x = "nowhere"
          BY <4>2 DEF From, Token
        <4>3. CASE x \notin {"sent", "nowhere"}
          BY <4>3, <1>2 DEF FadesAt, Kinds
        <4> QED BY <4>1, <4>2, <4>3
      <3> QED BY <3>1, <1>6, <1>8
    <2>2. k \in Kinds /\ "sent" \in Kinds /\ 0 \in Nat
      BY DEF Kinds
    <2> QED BY <2>1, <2>2, <1>5, RowKept, Moved DEF Inv, server
  <1>9. CASE m.id # c
    <2>1. FadesAt(c, "sent")
      BY <1>5, <1>9 DEF FadesAt, From
    <2>2. Fades(c)
      BY <2>1, <1>2, AllFade DEF Kinds
    <2> QED BY <2>2, RowKept, Fewer DEF Inv, server
  <1> QED BY <1>8, <1>9

\* The page takes a message: the ring it was becomes the call shown, or the
\* refusal of a page that is in a call.
LEMMA ReceiveKeeps ==
  ASSUME Inv, NEW t \in Tabs, Receive(t)
  PROVE  Inv'
  <1> DEFINE s == Head(down[t])
  <1>1. TakesDown(t) /\ UNCHANGED server /\ OnSignal(t, s)
    BY DEF Receive, TakesDown
  <1>2. /\ s = down[t][1] /\ 1 \in 1..Len(down[t]) /\ s \in Ping
        /\ down' \in [Tabs -> Seq(Ping)]
    <2>1. down[t] # <<>> /\ down[t] \in Seq(Ping)
      BY <1>1 DEF TakesDown, Inv, Typed
    <2>2. s = down[t][1] /\ s \in Ping /\ Len(down[t]) \in Nat /\ Len(down[t]) >= 1 /\ Tail(down[t]) \in Seq(Ping)
      BY <2>1, SeqHead
    <2>3. down' \in [Tabs -> Seq(Ping)]
      BY <2>2, <1>1 DEF TakesDown, Inv, Typed
    <2> QED BY <2>2, <2>3
  <1>3. s.from \in SomeUser /\ s.id \in Id
    BY <1>2 DEF Ping
  <1>4. PICK j : j = Len(up[t]) + 1
    OBVIOUS
  <1>5. ASSUME NEW c \in CallIds, NEW l \in {"sent", "held", "nowhere"}, NEW i \in Nat,
               From(c, t, "rings", 1, t, l, i), FadesAt(c, "dial"),
               \A v \in Tabs, m \in {"held", "sent"}, n \in Nat :
                 ~(v = t /\ m = l /\ n = i) => From(c, v, m, n, v, m, n)
        PROVE  Fate(c)'
    <2>1. TasksFade
      BY <1>1 DEF TasksFade, server
    <2>2. FadesAt(c, "task")
      BY <2>1, TasksFading
    <2>3. /\ \A v \in Tabs \ {t}, n \in Nat : From(c, v, "rings", n, v, "rings", n)
          /\ \A n \in Nat : From(c, t, "rings", n + 1, t, "rings", n) /\ ~Token(c, t, "rings", 0)'
      BY <1>1, DownTaken DEF Inv
    <2>4. ASSUME NEW v \in Tabs, NEW m \in Kinds, NEW n \in Nat, ~(v = t /\ m = "rings"), ~(v = t /\ m = l /\ n = i)
          PROVE  From(c, v, m, n, v, m, n)
      <3>1. CASE m \in {"held", "sent"}
        BY <3>1, <2>4, <1>5
      <3>2. CASE m = "rings"
        BY <3>2, <2>4, <2>3
      <3>3. CASE m \in {"dial", "task"}
        BY <3>3, <2>2, <1>5 DEF FadesAt
      <3>4. CASE m = "nowhere"
        BY <3>4 DEF From, Token
      <3> QED BY <3>1, <3>2, <3>3, <3>4 DEF Kinds
    <2>5. Taken(c, t, "rings", l, i)
      BY <2>3, <2>4, <1>5 DEF Taken
    <2>6. RowFine(c)
      BY <1>1, RowKept DEF server
    <2>7. l \in Kinds /\ "rings" \in Kinds /\ l # "rings"
      BY DEF Kinds
    <2> QED BY <2>5, <2>6, <2>7, HeadTaken DEF Inv
  <1>6. CASE s.type = "incoming" /\ client[t].mode \in InCall
    <2> DEFINE r == Message("reject", s.from, s.id)
    <2>1. Send(t, r, client[t]) /\ r \in Letter
      BY <1>1, <1>3, <1>6 DEF OnSignal, Message, Letter
    <2>2. client' \in [Tabs -> PageState] /\ up' \in [Tabs -> Seq(Letter)]
      BY <2>1, SendTyped, PageTypes DEF Inv
    <2>3. client' = client /\ Posts(t, r)
      BY <2>1 DEF Send, Posts, Inv, Typed
    <2> SUFFICES ASSUME NEW c \in CallIds PROVE Fate(c)'
      BY <1>1, <1>2, <2>2, PageOnly
    <2>4. PagesFade
      BY <2>3 DEF PagesFade
    <2>5. /\ \A v \in Tabs, i \in Nat : ~(v = t /\ i = j) => From(c, v, "sent", i, v, "sent", i)
          /\ Token(c, t, "sent", j)' => r.id = c
          /\ j \in Nat
      BY <2>1, <2>3, <1>4, Posted DEF Inv
    <2>6. r.id = c => Token(c, t, "rings", 1) /\ ~Answered(t, "rings", 1)
      BY <1>2, <1>6 DEF Message, Token, Queued, Answered
    <2>7. From(c, t, "rings", 1, t, "sent", j)
      BY <2>5, <2>6 DEF From
    <2>8. FadesAt(c, "dial") /\ FadesAt(c, "held")
      BY <2>4, PagesFading
    <2> QED BY <1>5, <2>5, <2>7, <2>8 DEF FadesAt
  <1>7. ASSUME UNCHANGED up PROVE UpFades
    BY <1>7 DEF UpFades
  <1>8. CASE s.type = "incoming" /\ client[t].mode \notin InCall
    <2>1. /\ client' = [client EXCEPT ![t] = [@ EXCEPT !.mode = "incoming", !.with = s.from, !.id = s.id]]
          /\ UNCHANGED up
      BY <1>1, <1>8 DEF OnSignal
    <2>2. client' \in [Tabs -> PageState] /\ up' \in [Tabs -> Seq(Letter)]
      BY <2>1, <1>3 DEF Inv, Typed, PageState, Mode
    <2> SUFFICES ASSUME NEW c \in CallIds PROVE Fate(c)'
      BY <1>1, <1>2, <2>2, PageOnly
    <2>3. /\ client'[t].id = s.id /\ client'[t].dial = client[t].dial
          /\ \A v \in Tabs \ {t} : client'[v] = client[v]
      BY <2>1 DEF Inv, Typed, PageState
    <2>4. FadesAt(c, "sent")
      BY <2>1, <1>7, UpFading DEF Inv
    <2>5. FadesAt(c, "dial")
      BY <2>3 DEF FadesAt, From, Token, Answered
    <2>6. From(c, t, "rings", 1, t, "held", 0)
      BY <2>3, <1>2, <1>8 DEF From, Token, Queued, Answered
    <2>7. \A v \in Tabs, n \in Nat : ~(v = t /\ n = 0) => From(c, v, "held", n, v, "held", n)
      BY <2>3 DEF From, Token, Answered
    <2>8. 0 \in Nat
      OBVIOUS
    <2> QED BY <1>5, <2>4, <2>5, <2>6, <2>7, <2>8 DEF FadesAt
  <1>9. CASE s.type # "incoming"
    <2>1. /\ \/ client' = [client EXCEPT ![t] = CleanedUp(t)]
             \/ client' = [client EXCEPT ![t].mode = IF @ = "calling" THEN "ongoing" ELSE @]
          /\ UNCHANGED up
      BY <1>1, <1>9 DEF OnSignal
    <2>0. client \in [Tabs -> PageState] /\ client[t] \in PageState /\ CleanedUp(t) \in PageState /\ up \in [Tabs -> Seq(Letter)]
      BY PageTypes DEF Inv, Typed
    <2>a. ASSUME client' = [client EXCEPT ![t] = CleanedUp(t)]
          PROVE  client' \in [Tabs -> PageState] /\ PagesFade
      <3>1. client' \in [Tabs -> PageState]
        BY <2>a, <2>0
      <3>2. CleanedUp(t).id = NoCall /\ CleanedUp(t).dial = client[t].dial
        BY DEF CleanedUp, Idle
      <3>3. PagesFade
        BY <2>a, <2>0, <3>2 DEF PagesFade
      <3> QED BY <3>1, <3>3
    <2>b. ASSUME client' = [client EXCEPT ![t].mode = IF @ = "calling" THEN "ongoing" ELSE @]
          PROVE  client' \in [Tabs -> PageState] /\ PagesFade
      <3> DEFINE m == IF client[t].mode = "calling" THEN "ongoing" ELSE client[t].mode
      <3>1. client' = [client EXCEPT ![t] = [client[t] EXCEPT !.mode = m]]
        BY <2>b
      <3>2. m \in Mode /\ (m \in Shown => client[t].mode = m)
        BY <2>0 DEF PageState, Mode, Shown
      <3> HIDE DEF m
      <3>3. client' \in [Tabs -> PageState]
        BY <3>1, <3>2, <2>0 DEF PageState
      <3>4. PagesFade
        BY <3>1, <3>2, <2>0 DEF PagesFade, PageState
      <3> QED BY <3>3, <3>4
    <2>2. client' \in [Tabs -> PageState] /\ up' \in [Tabs -> Seq(Letter)] /\ PagesFade
      BY <2>1, <2>0, <2>a, <2>b
    <2> SUFFICES ASSUME NEW c \in CallIds PROVE Fate(c)'
      BY <1>1, <1>2, <2>2, PageOnly
    <2>4. FadesAt(c, "dial") /\ FadesAt(c, "held") /\ FadesAt(c, "sent")
      BY <2>1, <2>2, <1>7, PagesFading, UpFading DEF Inv
    <2>5. From(c, t, "rings", 1, t, "nowhere", 0)
      BY DEF From, Token
    <2> QED BY <1>5, <2>4, <2>5 DEF FadesAt
  <1> QED BY <1>6, <1>8, <1>9

LEMMA DropKeeps ==
  ASSUME Inv, NEW t \in Tabs, Close(t) \/ MediaDenied(t) \/ Accept(t) \/ FailToConnect(t) \/ Hangup(t)
  PROVE  Inv'
  <1>0. /\ client \in [Tabs -> PageState] /\ client[t] \in PageState
        /\ Idle \in PageState /\ Away \in PageState /\ CleanedUp(t) \in PageState
        /\ up \in [Tabs -> Seq(Letter)] /\ down \in [Tabs -> Seq(Ping)]
    BY PageTypes DEF Inv, Typed
  <1>1. Idle.id = NoCall /\ Idle.dial = NoCall /\ Away.id = NoCall /\ Away.dial = NoCall
        /\ CleanedUp(t).id = NoCall /\ CleanedUp(t).dial = client[t].dial
    BY DEF Idle, Away, CleanedUp
  <1>2. ASSUME NEW p \in PageState, client' = [client EXCEPT ![t] = p], p.dial \in {client[t].dial, NoCall},
               p.mode \in Shown => p.id = NoCall \/ (p.id = client[t].id /\ client[t].mode \in Shown)
        PROVE  client' \in [Tabs -> PageState] /\ PagesFade
    BY <1>0, <1>2 DEF PagesFade
  <1>3. ASSUME NEW m \in Letter, m.type \in {"end", "close"}, up' = [up EXCEPT ![t] = Append(@, m)]
        PROVE  up' \in [Tabs -> Seq(Letter)] /\ UpFades
    BY <1>0, <1>3 DEF UpFades
  <1>4. UNCHANGED up => up' \in [Tabs -> Seq(Letter)] /\ UpFades
    BY <1>0 DEF UpFades
  <1>5. UNCHANGED down => down' \in [Tabs -> Seq(Ping)] /\ DownFades
    BY <1>0 DEF DownFades
  <1>6. CASE Close(t)
    <2>1. Message("close", NoUser, NoCall) \in Letter /\ Message("close", NoUser, NoCall).type = "close"
      BY DEF Message, Letter, SomeUser, Id
    <2>2. client' \in [Tabs -> PageState] /\ PagesFade /\ up' \in [Tabs -> Seq(Letter)] /\ UpFades
      BY <1>6, <2>1, <1>0, <1>1, <1>2, <1>3 DEF Close, Send
    <2>3. down' \in [Tabs -> Seq(Ping)] /\ DownFades
      BY <1>6, <1>0 DEF Close, DownFades
    <2> QED BY <1>6, <2>2, <2>3, PageDrops DEF Close
  <1>7. CASE Hangup(t)
    <2>1. Message("end", client[t].with, client[t].id) \in Letter /\ Message("end", client[t].with, client[t].id).type = "end"
      BY <1>0 DEF Message, Letter, PageState
    <2>2. client' \in [Tabs -> PageState] /\ PagesFade /\ up' \in [Tabs -> Seq(Letter)] /\ UpFades
      BY <1>7, <2>1, <1>0, <1>1, <1>2, <1>3 DEF Hangup, Send
    <2> QED BY <1>7, <2>2, <1>5, PageDrops DEF Hangup
  <1>8. CASE MediaDenied(t)
    <2>1. client' \in [Tabs -> PageState] /\ PagesFade
      BY <1>8, <1>0, <1>1, <1>2 DEF MediaDenied
    <2> QED BY <1>8, <2>1, <1>4, <1>5, PageDrops DEF MediaDenied
  <1>9. CASE Accept(t)
    <2> DEFINE p == [client[t] EXCEPT !.mode = "connecting"]
    <2>1. client' = [client EXCEPT ![t] = p] /\ client[t].mode \in Shown
      BY <1>9 DEF Accept, Shown
    <2>2. p \in PageState /\ p.dial = client[t].dial /\ p.id = client[t].id
      BY <1>0 DEF PageState, Mode
    <2> HIDE DEF p
    <2>3. client' \in [Tabs -> PageState] /\ PagesFade
      BY <2>1, <2>2, <1>2
    <2> QED BY <1>9, <2>3, <1>4, <1>5, PageDrops DEF Accept
  <1>10. CASE FailToConnect(t)
    <2>1. client' \in [Tabs -> PageState] /\ PagesFade
      BY <1>10, <1>0, <1>1, <1>2 DEF FailToConnect
    <2> QED BY <1>10, <2>1, <1>4, <1>5, PageDrops DEF FailToConnect
  <1> QED BY <1>6, <1>7, <1>8, <1>9, <1>10

LEMMA OfferKeeps ==
  ASSUME Inv, NEW t \in Tabs, Offer(t)
  PROVE  Inv'
  <1> DEFINE c == client[t].dial
             m == Message("offer", row[c].receiver, c)
             p == [client[t] EXCEPT !.dial = NoCall]
  <1>1. client[t] \in PageState /\ c \in CallIds /\ row[c] \in Row
    BY DEF Offer, Inv, Typed, PageState, Id
  <1>2. m \in Letter /\ m.id = client[t].dial /\ m.type = "offer"
    BY <1>1 DEF Message, Letter, Row, Id
  <1>3. p \in PageState
    BY <1>1 DEF PageState, Id
  <1>4. Send(t, m, p) /\ UNCHANGED <<down, server>>
    BY DEF Offer
  <1> DEFINE q == p
  <1>5. q = [client[t] EXCEPT !.dial = NoCall]
    OBVIOUS
  <1> HIDE DEF m, q
  <1>6. Send(t, m, q) /\ q \in PageState
    BY <1>3, <1>4 DEF q
  <1> QED BY <1>2, <1>4, <1>5, <1>6, PageSends

LEMMA VerdictKeeps ==
  ASSUME Inv, NEW t \in Tabs, Answer(t) \/ Decline(t)
  PROVE  Inv'
  <1>1. client[t] \in PageState /\ client[t].mode \in Shown /\ CleanedUp(t) \in PageState
        /\ CleanedUp(t).id = NoCall /\ CleanedUp(t).dial = client[t].dial
    BY PageTypes DEF Answer, Decline, Shown, Inv, Typed, CleanedUp, Idle
  <1>2. CASE Answer(t)
    <2> DEFINE m == Message("answer", client[t].with, client[t].id)
               p == [client[t] EXCEPT !.mode = "ongoing"]
    <2>1. m \in Letter /\ m.id = client[t].id /\ m.type = "answer"
      BY <1>1 DEF Message, Letter, PageState
    <2>2. p \in PageState /\ p.dial = client[t].dial /\ p.mode \notin Shown
      BY <1>1 DEF PageState, Mode, Shown
    <2>3. Send(t, m, p) /\ UNCHANGED <<down, server>>
      BY <1>2 DEF Answer
    <2> HIDE DEF m, p
    <2> QED BY <2>1, <2>2, <2>3, <1>1, PageSends
  <1>3. CASE Decline(t)
    <2> DEFINE m == Message("reject", client[t].with, client[t].id)
    <2>1. m \in Letter /\ m.id = client[t].id /\ m.type = "reject"
      BY <1>1 DEF Message, Letter, PageState
    <2>2. Send(t, m, CleanedUp(t)) /\ UNCHANGED <<down, server>>
      BY <1>3 DEF Decline
    <2> HIDE DEF m
    <2> QED BY <2>1, <2>2, <1>1, PageSends
  <1> QED BY <1>2, <1>3

LEMMA OpenKeeps ==
  ASSUME Inv, NEW t \in Tabs, Open(t)
  PROVE  Inv'
  <1>1. /\ client' = [client EXCEPT ![t].mode = "opening"]
        /\ task' = [task EXCEPT ![t].plan = <<"join", "appear", "accept">>] /\ task[t] = NoTask
        /\ up' = up /\ down' = down /\ consumer' = consumer /\ row' = row
    BY DEF Open
  <1>2. client' \in [Tabs -> PageState] /\ PagesFade
    <2>1. client \in [Tabs -> PageState] /\ client[t] \in PageState /\ "opening" \in Mode
      BY DEF Inv, Typed, Mode
    <2>2. client' \in [Tabs -> PageState] /\ client'[t] = [client[t] EXCEPT !.mode = "opening"]
          /\ \A s \in Tabs \ {t} : client'[s] = client[s]
      BY <1>1, <2>1 DEF PageState
    <2> QED BY <2>1, <2>2 DEF PagesFade, Shown, PageState
  <1>3. <<"join", "appear", "accept">> \in Silent /\ <<"join", "appear", "accept">> \in Seq(Opening \cup Finishing)
    BY DEF Silent, Opening, Finishing
  <1>4. task' \in [Tabs -> Task] /\ TasksFade
    <2>1. task \in [Tabs -> Task] /\ task[t] \in Task
      BY DEF Inv, Typed
    <2>2. task' \in [Tabs -> Task]
          /\ \A s \in Tabs : task'[s].id = task[s].id /\ task'[s].tells = task[s].tells
      BY <1>1, <1>3, <2>1 DEF Task
    <2> QED BY <2>2 DEF TasksFade
  <1>5. ASSUME NEW s \in Tabs PROVE TaskOK(task'[s]) /\ ReadOK(task'[s])
    <2>1. CASE s # t
      BY <1>1, <2>1 DEF Inv, Typed
    <2>2. task'[t] = [NoTask EXCEPT !.plan = <<"join", "appear", "accept">>]
      BY <1>1 DEF Inv, Typed
    <2>3. TaskOK(task'[t]) /\ ReadOK(task'[t])
      BY <2>2, <1>3 DEF NoTask, NoRow, TaskOK, ReadOK
    <2> QED BY <2>1, <2>3
  <1>6. UpFades /\ DownFades
    BY <1>1 DEF UpFades, DownFades
  <1>7. ASSUME NEW c \in CallIds PROVE Fate(c)'
    <2>1. FadesAt(c, "dial") /\ FadesAt(c, "held") /\ FadesAt(c, "task") /\ FadesAt(c, "sent") /\ FadesAt(c, "rings")
      BY <1>2, <1>4, <1>6, PagesFading, TasksFading, UpFading, DownFading DEF Inv
    <2>2. Fades(c) /\ RowFine(c)
      BY <1>1, <2>1, AllFade, RowKept DEF Kinds
    <2> QED BY <2>2, Fewer DEF Inv
  <1> QED BY <1>1, <1>2, <1>4, <1>5, <1>7 DEF Inv, Typed

\* The number a page takes has no token yet: there is no row.
LEMMA StartKeeps ==
  ASSUME Inv, NEW t \in Tabs, NEW u \in Users, StartCall(t, u)
  PROVE  Inv'
  <1>1. PICK c \in CallIds :
          /\ row[c] = NoRow
          /\ row' = [row EXCEPT ![c].status = "dialled", ![c].receiver = u]
          /\ client' = [client EXCEPT ![t] = [mode |-> "calling", with |-> u, id |-> NoCall, dial |-> c]]
    BY DEF StartCall
  <1>2. UNCHANGED <<up, down, consumer, task, online, busy>>
    BY DEF StartCall
  <1>3. [mode |-> "calling", with |-> u, id |-> NoCall, dial |-> c] \in PageState
    BY DEF PageState, Mode, SomeUser, Id
  <1>4. /\ client' \in [Tabs -> PageState] /\ client'[t].dial = c /\ client'[t].mode = "calling"
        /\ \A s \in Tabs \ {t} : client'[s] = client[s]
    BY <1>1, <1>3 DEF Inv, Typed
  <1>5. row'[c] = [caller |-> NoUser, receiver |-> u, status |-> "dialled", started |-> FALSE]
        /\ \A d \in CallIds \ {c} : row'[d] = row[d]
    <2>1. row \in [CallIds -> Row]
      BY DEF Inv, Typed
    <2>2. row' = [row EXCEPT ![c] = [NoRow EXCEPT !.status = "dialled", !.receiver = u]]
      BY <1>1, <2>1
    <2> QED BY <2>1, <2>2 DEF NoRow
  <1>6. row' \in [CallIds -> Row]
    <2>1. row \in [CallIds -> Row] /\ row'[c] \in Row
      BY <1>5 DEF Inv, Typed, Row, SomeUser, CallStatus
    <2>2. \E v : row' = [row EXCEPT ![c] = v]
      BY <1>1, <2>1
    <2> QED BY <2>1, <2>2
  <1>7. ASSUME NEW d \in CallIds PROVE RowOK(row'[d])
    BY <1>5 DEF RowOK, Inv
  <1>8. ASSUME NEW d \in CallIds, NEW v \in Tabs, NEW k \in Kinds, NEW i \in Nat,
               ~(d = c /\ v = t /\ k = "dial" /\ i = 0), Token(d, v, k, i)'
        PROVE  Token(d, v, k, i) /\ (Answered(v, k, i) => Answered(v, k, i)')
    <2>1. CASE k \in {"dial", "held"}
      BY <1>4, <1>8, <2>1 DEF Token, Answered
    <2>2. CASE k \notin {"dial", "held"}
      BY <1>2, <1>8, <2>2 DEF Token, Answered, Queued
    <2> QED BY <2>1, <2>2
  <1>9. ASSUME NEW d \in CallIds PROVE Fate(d)'
    <2>1. CASE d # c
      <3>1. Fades(d)
        BY <2>1, <1>8 DEF Fades, From
      <3>2. RowFine(d)
        BY <2>1, <1>5 DEF RowFine
      <3> QED BY <3>1, <3>2, Fewer DEF Inv
    <2>2. CASE d = c
      <3>1. \A v \in Tabs, k \in Kinds, i \in Nat : ~Token(c, v, k, i)
        BY <1>1 DEF Inv, Fate, Known, NoRow
      <3>2. \A v \in Tabs, k \in Kinds, i \in Nat : Token(c, v, k, i)' => v = t /\ k = "dial" /\ i = 0
        BY <3>1, <1>8
      <3>3. Once(c)'
        BY <3>2 DEF Once
      <3>4. Known(c)' /\ Undecided(c)'
        BY <1>5 DEF Known, Undecided, Closed
      <3> QED BY <2>2, <3>3, <3>4 DEF Fate
    <2> QED BY <2>1, <2>2
  <1> QED BY <1>2, <1>4, <1>6, <1>7, <1>9 DEF Inv, Typed

LEMMA PageKeeps ==
  ASSUME Inv, NEW t \in Tabs, Page(t)
  PROVE  Inv'
  BY OpenKeeps, DropKeeps, StartKeeps, OfferKeeps, VerdictKeeps, ReceiveKeeps DEF Page

-----------------------------------------------------------------------------
(* The consumer.                                                           *)
Settling == Finishing \ {"read", "save"}
Rests == {<<"hold own", "hold peer", "tell">>, <<"tell">>, <<"drop own", "drop peer", "tell">>}

LEMMA FinalizeTyped ==
  ASSUME NEW id \in Id, NEW rest \in Rests
  PROVE  /\ Finalize(id) \o rest \in Seq(Finishing)
         /\ Finalize(id) \o rest \in Seq(Opening \cup Finishing)
         /\ id = NoCall => Finalize(id) \o rest \in Seq(Settling)
  <1>1. /\ <<"hold own", "hold peer", "tell">> \in Seq(Settling)
        /\ <<"tell">> \in Seq(Settling)
        /\ <<"drop own", "drop peer", "tell">> \in Seq(Settling)
    BY DEF Settling, Finishing
  <1>2. rest \in Seq(Settling)
    BY <1>1 DEF Rests
  <1>3. \A q \in Seq(Settling) : q \in Seq(Finishing)
    BY DEF Settling
  <1>4. \A q \in Seq(Finishing) : q \in Seq(Opening \cup Finishing)
    OBVIOUS
  <1>5. <<"read", "save">> \in Seq(Finishing)
    BY DEF Finishing
  <1>6. CASE id = NoCall
    <2>1. Finalize(id) \o rest \in Seq(Settling)
      BY <1>6, <1>2 DEF Finalize
    <2> QED BY <2>1, <1>3, <1>4
  <1>7. CASE id # NoCall
    <2>1. Finalize(id) \o rest = <<"read", "save">> \o rest /\ rest \in Seq(Finishing)
      BY <1>7, <1>2, <1>3 DEF Finalize
    <2>2. Finalize(id) \o rest \in Seq(Finishing)
      BY <2>1, <1>5
    <2> QED BY <1>7, <2>2, <1>4
  <1> QED BY <1>6, <1>7

LEMMA NoTaskFine == NoTask \in Task /\ TaskOK(NoTask) /\ ReadOK(NoTask)
  <1>1. <<>> \in Silent /\ <<>> \in Seq(Opening \cup Finishing)
    BY DEF Silent
  <1> QED BY <1>1 DEF NoTask, NoRow, Task, TaskOK, ReadOK, Row, SomeUser, Id, CallStatus

\* A handler that marks a row, before its first step.
Marking(plan, tells, to, id, status, answered) ==
  [plan |-> plan, tells |-> tells, to |-> to, id |-> id, status |-> status, answered |-> answered, read |-> NoRow]

Ready(k, tells, id) == k \in Task /\ TaskOK(k) /\ ReadOK(k) /\ k.tells = tells /\ k.id = id

LEMMA MarkingFine ==
  ASSUME NEW plan \in Seq(Finishing), plan \in Seq(Opening \cup Finishing),
         NEW to \in SomeUser, NEW id \in Id, id = NoCall => plan \in Seq(Settling),
         NEW tells, NEW status, <<tells, status>> \in Outcomes,
         NEW answered \in BOOLEAN, tells = "rejected" => ~answered
  PROVE  Ready(Marking(plan, tells, to, id, status, answered), tells, id)
  <1> DEFINE k == Marking(plan, tells, to, id, status, answered)
  <1>1. /\ k = [plan |-> plan, tells |-> tells, to |-> to, id |-> id, status |-> status, answered |-> answered,
                read |-> NoRow]
        /\ k.plan = plan /\ k.tells = tells /\ k.id = id /\ k.status = status /\ k.answered = answered
        /\ k.read = NoRow
    BY DEF Marking
  <1> HIDE DEF k
  <1>2. NoRow \in Row /\ ~NoRow.started
    BY DEF NoRow, Row, SomeUser, CallStatus
  <1>3. tells \in {"none", "answer", "rejected", "ended"} /\ status \in CallStatus
    BY DEF Outcomes, CallStatus
  <1>4. k \in Task
    BY <1>1, <1>2, <1>3 DEF Task
  <1>5. TaskOK(k)
    BY <1>1 DEF TaskOK, Settling
  <1>6. ReadOK(k)
    BY <1>1, <1>2 DEF ReadOK, Closed
  <1> QED BY <1>1, <1>4, <1>5, <1>6 DEF k, Ready

\* What a handler is left with of the message it has taken.
Follows(k, m) ==
  /\ k \in Task /\ TaskOK(k) /\ ReadOK(k)
  /\ k.tells # "ended" /\ k.id # NoCall => m.type \in {"offer", "answer", "reject"} /\ m.id = k.id
  /\ m.type = "answer" => k.tells = "answer"

LEMMA HandlerFine ==
  ASSUME Typed, NEW t \in Tabs, NEW m \in Letter
  PROVE  Follows(Handler(t, m), m)
  <1> DEFINE k == Handler(t, m)
             c == consumer[t]
  <1>0. m.id \in Id /\ m.to \in SomeUser /\ c.active \in Id /\ c.peer \in SomeUser
        /\ m.type \in {"offer", "answer", "reject", "end", "close"}
    BY DEF Letter, Typed, Consumer
  <1>1. \A rest \in Rests :
          /\ Finalize(m.id) \o rest \in Seq(Finishing) /\ Finalize(m.id) \o rest \in Seq(Opening \cup Finishing)
          /\ m.id = NoCall => Finalize(m.id) \o rest \in Seq(Settling)
    BY <1>0, FinalizeTyped
  <1>2. ASSUME NEW plan \in Silent, plan \in Seq(Opening \cup Finishing), NEW to \in SomeUser, NEW id \in Id,
               k = Marking(plan, "none", to, id, "none", FALSE),
               m.type # "answer", id # NoCall => m.type = "offer" /\ m.id = id
        PROVE  Follows(k, m)
    <2>1. /\ k = [plan |-> plan, tells |-> "none", to |-> to, id |-> id, status |-> "none", answered |-> FALSE,
                  read |-> NoRow]
          /\ k.plan = plan /\ k.tells = "none" /\ k.id = id /\ k.read = NoRow
      BY <1>2 DEF Marking
    <2>2. NoRow \in Row /\ ~NoRow.started
      BY DEF NoRow, Row, SomeUser, CallStatus
    <2> HIDE DEF k
    <2>3. k \in Task
      <3>1. plan \in Seq(Opening \cup Finishing)
        BY <1>2
      <3> QED BY <3>1, <2>1, <2>2 DEF Task, CallStatus
    <2>4. TaskOK(k) /\ ReadOK(k)
      BY <2>1, <2>2 DEF TaskOK, ReadOK, Closed
    <2> QED BY <2>1, <2>3, <2>4, <1>2 DEF Follows
  <1>3. CASE m.type = "offer"
    <2>1. <<"reach", "free", "ring">> \in Silent /\ <<"reach", "free", "ring">> \in Seq(Opening \cup Finishing)
      BY DEF Silent, Opening, Finishing
    <2>2. k = Marking(<<"reach", "free", "ring">>, "none", m.to, m.id, "none", FALSE)
      BY <1>3 DEF Handler, NoTask, Marking
    <2> QED BY <1>0, <1>2, <1>3, <2>1, <2>2
  <1>4. CASE m.type = "answer"
    <2> DEFINE plan == Finalize(m.id) \o <<"hold own", "hold peer", "tell">>
    <2>1. <<"hold own", "hold peer", "tell">> \in Rests
      BY DEF Rests
    <2>2. plan \in Seq(Finishing) /\ plan \in Seq(Opening \cup Finishing) /\ (m.id = NoCall => plan \in Seq(Settling))
      BY <2>1, <1>1
    <2>3. k = Marking(plan, "answer", m.to, m.id, "ongoing", TRUE)
      BY <1>4 DEF Handler, Marking, NoTask
    <2> HIDE DEF plan, k
    <2>4. <<"answer", "ongoing">> \in Outcomes /\ TRUE \in BOOLEAN
      BY DEF Outcomes
    <2>5. Ready(k, "answer", m.id)
      BY <1>0, <2>2, <2>3, <2>4, MarkingFine
    <2>6. Follows(k, m)
      BY <1>4, <2>5 DEF Follows, Ready
    <2> QED BY <2>6 DEF k
  <1>5. CASE m.type = "reject"
    <2> DEFINE plan == Finalize(m.id) \o <<"tell">>
    <2>1. <<"tell">> \in Rests
      BY DEF Rests
    <2>2. plan \in Seq(Finishing) /\ plan \in Seq(Opening \cup Finishing) /\ (m.id = NoCall => plan \in Seq(Settling))
      BY <2>1, <1>1
    <2>3. k = Marking(plan, "rejected", m.to, m.id, "rejected", FALSE)
      BY <1>5 DEF Handler, Marking, NoTask
    <2> HIDE DEF plan, k
    <2>4. <<"rejected", "rejected">> \in Outcomes /\ FALSE \in BOOLEAN
      BY DEF Outcomes
    <2>5. Ready(k, "rejected", m.id)
      BY <1>0, <2>2, <2>3, <2>4, MarkingFine
    <2>6. Follows(k, m)
      BY <1>5, <2>5 DEF Follows, Ready
    <2> QED BY <2>6 DEF k
  <1>6. CASE m.type = "end"
    <2> DEFINE plan == Finalize(m.id) \o <<"drop own", "drop peer", "tell">>
    <2>1. <<"drop own", "drop peer", "tell">> \in Rests
      BY DEF Rests
    <2>2. plan \in Seq(Finishing) /\ plan \in Seq(Opening \cup Finishing) /\ (m.id = NoCall => plan \in Seq(Settling))
      BY <2>1, <1>1
    <2>3. k = Marking(plan, "ended", m.to, m.id, "ended", FALSE)
      BY <1>6 DEF Handler, Marking, NoTask
    <2> HIDE DEF plan, k
    <2>4. <<"ended", "ended">> \in Outcomes /\ FALSE \in BOOLEAN
      BY DEF Outcomes
    <2>5. Ready(k, "ended", m.id)
      BY <1>0, <2>2, <2>3, <2>4, MarkingFine
    <2>6. Follows(k, m)
      BY <1>6, <2>5 DEF Follows, Ready
    <2> QED BY <2>6 DEF k
  <1>7. CASE m.type = "close" /\ c.active # NoCall /\ c.peer # NoUser
    <2> DEFINE plan == <<"read", "save", "tell", "drop own", "drop peer", "vanish", "leave">>
    <2>1. plan \in Seq(Finishing) /\ plan \in Seq(Opening \cup Finishing)
      BY DEF Opening, Finishing
    <2>2. k = Marking(plan, "ended", c.peer, c.active, "ended", TRUE)
      BY <1>7 DEF Handler, Marking, NoTask
    <2> HIDE DEF plan, k
    <2>3. <<"ended", "ended">> \in Outcomes /\ TRUE \in BOOLEAN
      BY DEF Outcomes
    <2>4. Ready(k, "ended", c.active)
      BY <1>0, <1>7, <2>1, <2>2, <2>3, MarkingFine
    <2>5. Follows(k, m)
      BY <1>7, <2>4 DEF Follows, Ready
    <2> QED BY <2>5 DEF k
  <1>8. CASE m.type = "close" /\ ~(c.active # NoCall /\ c.peer # NoUser)
    <2>1. <<"vanish", "leave">> \in Silent /\ <<"vanish", "leave">> \in Seq(Opening \cup Finishing)
      BY DEF Silent, Opening, Finishing
    <2>2. k = Marking(<<"vanish", "leave">>, "none", NoUser, NoCall, "none", FALSE)
      BY <1>8 DEF Handler, NoTask, Marking
    <2>3. NoUser \in SomeUser /\ NoCall \in Id
      BY DEF SomeUser, Id
    <2> QED BY <1>2, <1>8, <2>1, <2>2, <2>3
  <1> QED BY <1>0, <1>3, <1>4, <1>5, <1>6, <1>7, <1>8

LEMMA HandleKeeps ==
  ASSUME Inv, NEW t \in Tabs, Handle(t)
  PROVE  Inv'
  <1> DEFINE m == Head(up[t])
             k == Handler(t, m)
  <1>1. /\ TakesUp(t) /\ task[t] = NoTask /\ task' = [task EXCEPT ![t] = k]
        /\ consumer' = [consumer EXCEPT ![t] = Remember(t, m)]
        /\ client' = client /\ down' = down /\ row' = row
    BY DEF Handle, TakesUp
  <1>2. /\ m = up[t][1] /\ 1 \in 1..Len(up[t]) /\ m \in Letter
        /\ up' \in [Tabs -> Seq(Letter)]
    <2>1. up[t] # <<>> /\ up[t] \in Seq(Letter)
      BY <1>1 DEF TakesUp, Inv, Typed
    <2>2. m = up[t][1] /\ m \in Letter /\ Len(up[t]) \in Nat /\ Len(up[t]) >= 1 /\ Tail(up[t]) \in Seq(Letter)
      BY <2>1, SeqHead
    <2>3. up' \in [Tabs -> Seq(Letter)]
      BY <2>2, <1>1 DEF TakesUp, Inv, Typed
    <2> QED BY <2>2, <2>3
  <1> HIDE DEF m
  <1>3. /\ k \in Task /\ TaskOK(k) /\ ReadOK(k)
        /\ k.tells # "ended" /\ k.id # NoCall => m.type \in {"offer", "answer", "reject"} /\ m.id = k.id
        /\ m.type = "answer" => k.tells = "answer"
    BY <1>2, HandlerFine DEF Follows, Inv
  <1> HIDE DEF k
  <1>4. task' \in [Tabs -> Task] /\ task'[t] = k /\ \A s \in Tabs \ {t} : task'[s] = task[s]
    BY <1>1, <1>3 DEF Inv, Typed
  <1>5. consumer' \in [Tabs -> Consumer]
    <2>1. consumer[t] \in Consumer /\ m.id \in Id /\ m.to \in SomeUser
      BY <1>2 DEF Inv, Typed, Letter
    <2>2. Remember(t, m) \in Consumer
      <3>1. CASE m.type = "answer"
        BY <2>1, <3>1 DEF Remember, Consumer
      <3>2. CASE m.type \in {"reject", "end"}
        BY <2>1, <3>2 DEF Remember, Consumer, Id, SomeUser
      <3>3. CASE m.type \notin {"answer", "reject", "end"}
        BY <2>1, <3>3 DEF Remember
      <3> QED BY <3>1, <3>2, <3>3
    <2> QED BY <1>1, <2>2 DEF Inv, Typed
  <1>6. ASSUME NEW c \in CallIds PROVE Fate(c)'
    <2>1. PagesFade /\ DownFades
      BY <1>1 DEF PagesFade, DownFades
    <2>2. FadesAt(c, "dial") /\ FadesAt(c, "held") /\ FadesAt(c, "rings")
      BY <2>1, PagesFading, DownFading DEF Inv
    <2>3. /\ \A v \in Tabs \ {t}, i \in Nat : From(c, v, "sent", i, v, "sent", i)
          /\ \A i \in Nat : From(c, t, "sent", i + 1, t, "sent", i) /\ ~Token(c, t, "sent", 0)'
      BY <1>1, UpTaken DEF Inv
    <2>4. c # NoCall
      BY DEF NoCall
    <2>5. From(c, t, "sent", 1, t, "task", 0)
      <3> SUFFICES ASSUME Token(c, t, "task", 0)'
                   PROVE  Token(c, t, "sent", 1) /\ (Answered(t, "sent", 1) => Answered(t, "task", 0)')
        BY DEF From
      <3>1. k.id = c /\ k.tells # "ended"
        BY <1>4 DEF Token
      <3>2. m.type \in {"offer", "answer", "reject"} /\ m.id = c
        BY <3>1, <2>4, <1>3
      <3>3. Token(c, t, "sent", 1)
        BY <3>2, <1>2 DEF Token, Queued
      <3>4. up[t][1].type = "answer" => task'[t].tells = "answer"
        BY <1>2, <1>3, <1>4
      <3> QED BY <3>3, <3>4 DEF Answered
    <2>6. ASSUME NEW v \in Tabs, NEW x \in Kinds, NEW n \in Nat, ~(v = t /\ x = "sent"), ~(v = t /\ x = "task" /\ n = 0)
          PROVE  From(c, v, x, n, v, x, n)
      <3>1. CASE x \in {"dial", "held", "rings"}
        BY <3>1, <2>2 DEF FadesAt
      <3>2. CASE x = "sent"
        BY <3>2, <2>3, <2>6
      <3>3. CASE x = "task"
        BY <3>3, <2>6, <1>4 DEF From, Token, Answered
      <3>4. CASE x = "nowhere"
        BY <3>4 DEF From, Token
      <3> QED BY <3>1, <3>2, <3>3, <3>4 DEF Kinds
    <2>7. Taken(c, t, "sent", "task", 0)
      BY <2>3, <2>5, <2>6 DEF Taken
    <2>8. "sent" \in Kinds /\ "task" \in Kinds /\ 0 \in Nat /\ "sent" # "task"
      BY DEF Kinds
    <2> QED BY <1>1, <2>7, <2>8, RowKept, HeadTaken DEF Inv
  <1>7. ASSUME NEW s \in Tabs PROVE TaskOK(task'[s]) /\ ReadOK(task'[s])
    BY <1>3, <1>4 DEF Inv
  <1> QED BY <1>1, <1>2, <1>4, <1>5, <1>6, <1>7 DEF Inv, Typed

-----------------------------------------------------------------------------
(* The steps of a handler.                                                 *)
TasksFine ==
  /\ task' \in [Tabs -> Task] /\ TasksFade
  /\ \A s \in Tabs : TaskOK(task'[s]) /\ ReadOK(task'[s])

LEMMA SeqTail ==
  ASSUME NEW S, NEW q \in Seq(S), q # <<>>
  PROVE  Tail(q) \in Seq(S)
  OBVIOUS

LEMMA DoneFine ==
  ASSUME Inv, NEW t \in Tabs, Done(t)
  PROVE  TasksFine
  <1>1. task' = [task EXCEPT ![t] = NoTask]
    BY DEF Done
  <1>2. task' \in [Tabs -> Task]
    BY <1>1, NoTaskFine DEF Inv, Typed
  <1>3. task'[t] = NoTask /\ \A s \in Tabs \ {t} : task'[s] = task[s]
    BY <1>1 DEF Inv, Typed
  <1>4. TasksFade
    BY <1>3 DEF TasksFade, NoTask
  <1> QED BY <1>2, <1>3, <1>4, NoTaskFine DEF TasksFine, Inv

LEMMA AdvanceFine ==
  ASSUME Inv, NEW t \in Tabs, task[t].plan # <<>>,
         NEW local \in Task, TaskOK(local), ReadOK(local), local.id = task[t].id, local.tells = task[t].tells,
         local.plan = task[t].plan, Advance(t, local)
  PROVE  TasksFine
  <1>1. CASE Done(t)
    BY <1>1, DoneFine
  <1>2. CASE ~Done(t)
    <2> DEFINE k == [local EXCEPT !.plan = Tail(local.plan)]
    <2>1. task' = [task EXCEPT ![t] = k]
      BY <1>2 DEF Advance
    <2>2. \A S : local.plan \in Seq(S) => Tail(local.plan) \in Seq(S)
      BY SeqTail
    <2>3. /\ k.plan = Tail(local.plan) /\ k.tells = local.tells /\ k.id = local.id /\ k.status = local.status
          /\ k.answered = local.answered /\ k.read = local.read
      BY DEF Task
    <2>4. k \in Task
      <3>1. Tail(local.plan) \in Seq(Opening \cup Finishing)
        BY <2>2 DEF Task
      <3> QED BY <3>1 DEF Task
    <2> HIDE DEF k
    <2>5. TaskOK(k)
      <3>1. CASE local.tells = "none" /\ local.plan \in Silent
        BY <3>1, <2>2, <2>3 DEF TaskOK, Silent
      <3>2. CASE ~(local.tells = "none" /\ local.plan \in Silent)
        BY <3>2, <2>2, <2>3 DEF TaskOK
      <3> QED BY <3>1, <3>2
    <2>6. ReadOK(k)
      BY <2>3 DEF ReadOK
    <2>7. task' \in [Tabs -> Task] /\ task'[t] = k /\ \A s \in Tabs \ {t} : task'[s] = task[s]
      BY <2>1, <2>4 DEF Inv, Typed
    <2>8. TasksFade
      BY <2>3, <2>7 DEF TasksFade
    <2> QED BY <2>5, <2>6, <2>7, <2>8 DEF TasksFine, Inv
  <1> QED BY <1>1, <1>2

LEMMA StepKeeps ==
  ASSUME Inv, TasksFine, client' \in [Tabs -> PageState], PagesFade, UNCHANGED up,
         down' \in [Tabs -> Seq(Ping)], DownFades, consumer' \in [Tabs -> Consumer],
         row' \in [CallIds -> Row], \A c \in CallIds : RowOK(row'[c]) /\ RowFine(c)
  PROVE  Inv'
  <1>1. ASSUME NEW c \in CallIds PROVE Fate(c)'
    <2>1. UpFades
      BY DEF UpFades
    <2>2. FadesAt(c, "dial") /\ FadesAt(c, "held") /\ FadesAt(c, "task") /\ FadesAt(c, "sent") /\ FadesAt(c, "rings")
      BY <2>1, PagesFading, TasksFading, UpFading, DownFading DEF Inv, TasksFine
    <2>3. Fades(c)
      BY <2>2, AllFade DEF Kinds
    <2> QED BY <2>3, Fewer DEF Inv
  <1> QED BY <1>1 DEF Inv, Typed, TasksFine

LEMMA Same ==
  ASSUME Inv
  PROVE  /\ UNCHANGED client => client' \in [Tabs -> PageState] /\ PagesFade
         /\ UNCHANGED down => down' \in [Tabs -> Seq(Ping)] /\ DownFades
         /\ UNCHANGED consumer => consumer' \in [Tabs -> Consumer]
         /\ UNCHANGED task => TasksFine
         /\ UNCHANGED row => row' \in [CallIds -> Row] /\ \A c \in CallIds : RowOK(row'[c]) /\ RowFine(c)
  <1>1. UNCHANGED client => client' \in [Tabs -> PageState] /\ PagesFade
    BY DEF Inv, Typed, PagesFade
  <1>2. UNCHANGED down => down' \in [Tabs -> Seq(Ping)] /\ DownFades
    BY DEF Inv, Typed, DownFades
  <1>3. UNCHANGED task => TasksFine
    BY DEF Inv, Typed, TasksFine, TasksFade
  <1>4. UNCHANGED row => row' \in [CallIds -> Row] /\ \A c \in CallIds : RowOK(row'[c]) /\ RowFine(c)
    BY RowKept DEF Inv, Typed
  <1> QED BY <1>1, <1>2, <1>3, <1>4 DEF Inv, Typed

LEMMA AtTask ==
  ASSUME Inv, NEW t \in Tabs, NEW step, At(t, step)
  PROVE  /\ task[t] \in Task /\ TaskOK(task[t]) /\ ReadOK(task[t]) /\ task[t].plan # <<>>
         /\ Advance(t, task[t]) => TasksFine
  BY AdvanceFine DEF At, Inv, Typed

\* Steps that touch neither rows nor pages nor queues.
LEMMA PlainKeeps ==
  ASSUME Inv, NEW t \in Tabs, NEW step, At(t, step), Advance(t, task[t]), UNCHANGED <<client, up, down, row>>,
         consumer' \in [Tabs -> Consumer]
  PROVE  Inv'
  BY AtTask, Same, StepKeeps

LEMMA HeadIn ==
  ASSUME NEW t \in Tabs, NEW step, At(t, step), NEW S, task[t].plan \in Seq(S)
  PROVE  step \in S
  BY SeqHead DEF At

\* Which handler has which steps left.
LEMMA StepOf ==
  ASSUME NEW t \in Tabs, task[t] \in Task, TaskOK(task[t]), NEW step, At(t, step)
  PROVE  /\ step \in Opening => task[t].tells = "none"
         /\ step \in Finishing \ {"vanish", "leave"} => <<task[t].tells, task[t].status>> \in Outcomes
         /\ step \in {"read", "save"} => task[t].id \in CallIds
         /\ task[t].tells = "rejected" => ~task[t].answered
  <1>1. TaskOK(task[t]) /\ task[t].id \in Id
    BY DEF Task
  <1>2. CASE task[t].tells = "none" /\ task[t].plan \in Silent
    <2>1. step \in Opening \cup {"vanish", "leave"}
      BY <1>2, HeadIn DEF Silent
    <2> QED BY <2>1, <1>2 DEF Opening, Finishing
  <1>3. CASE ~(task[t].tells = "none" /\ task[t].plan \in Silent)
    <2>1. /\ <<task[t].tells, task[t].status>> \in Outcomes /\ task[t].plan \in Seq(Finishing)
          /\ task[t].id = NoCall => task[t].plan \in Seq(Finishing \ {"read", "save"})
          /\ task[t].tells = "rejected" => ~task[t].answered
      BY <1>1, <1>3 DEF TaskOK
    <2>2. step \in Finishing /\ (task[t].id = NoCall => step \in Finishing \ {"read", "save"})
      BY <2>1, HeadIn
    <2> QED BY <1>1, <2>1, <2>2 DEF Opening, Finishing, Id
  <1> QED BY <1>2, <1>3

LEMMA WhoseStep ==
  ASSUME Inv, NEW t \in Tabs, NEW step, At(t, step)
  PROVE  /\ step \in Opening => task[t].tells = "none"
         /\ step \in Finishing \ {"vanish", "leave"} => <<task[t].tells, task[t].status>> \in Outcomes
         /\ step \in {"read", "save"} => task[t].id \in CallIds
         /\ task[t].tells = "rejected" => ~task[t].answered
  <1>1. task[t] \in Task /\ TaskOK(task[t])
    BY DEF Inv, Typed
  <1> QED BY <1>1, StepOf

LEMMA RowSet ==
  ASSUME Inv, NEW id, NEW r \in Row, row' = [row EXCEPT ![id] = r]
  PROVE  /\ row' \in [CallIds -> Row]
         /\ id \in CallIds => row'[id] = r
         /\ \A c \in CallIds : c # id => row'[c] = row[c]
  BY DEF Inv, Typed

\* The row of a call nobody answered is written.
LEMMA RowWritten ==
  ASSUME Inv, NEW id, NEW r \in Row, row' = [row EXCEPT ![id] = r], ~r.started, r.status # "none"
  PROVE  row' \in [CallIds -> Row] /\ \A c \in CallIds : RowOK(row'[c]) /\ RowFine(c)
  <1>1. /\ row' \in [CallIds -> Row]
        /\ id \in CallIds => row'[id] = r
        /\ \A c \in CallIds : c # id => row'[c] = row[c]
    BY RowSet
  <1> QED BY <1>1 DEF RowOK, RowFine, Closed, Inv

LEMMA RefuseKeeps ==
  ASSUME Inv, NEW t \in Tabs, NEW step, At(t, step), UNCHANGED <<client, up, consumer>>,
         NEW status \in {"missed", "busy"}, NEW signal \in {"unavailable", "busy"}, Refuse(t, status, signal)
  PROVE  Inv'
  <1> DEFINE r == [caller |-> UserOf[t], receiver |-> task[t].to, status |-> status, started |-> FALSE]
             s == Signal(signal, task[t].to, NoCall)
  <1>1. row' = [row EXCEPT ![task[t].id] = r]
    BY DEF Refuse
  <1>2. r \in Row /\ ~r.started /\ r.status # "none" /\ task[t].to \in SomeUser
    BY DEF Row, SomeUser, CallStatus, Inv, Typed, Task
  <1> HIDE DEF r
  <1>3. row' \in [CallIds -> Row] /\ \A c \in CallIds : RowOK(row'[c]) /\ RowFine(c)
    BY <1>1, <1>2, RowWritten
  <1>4. down' \in [Tabs -> Seq(Ping)] /\ DownFades
    <2>1. s \in Ping /\ s.type # "incoming" /\ down \in [Tabs -> Seq(Ping)]
      BY <1>2 DEF Signal, Ping, Id, Inv, Typed
    <2>2. down' = down \/ down' = [down EXCEPT ![t] = Append(@, s)]
      BY DEF Refuse
    <2> HIDE DEF s
    <2>3. down' \in [Tabs -> Seq(Ping)]
      <3>1. Append(down[t], s) \in Seq(Ping)
        BY <2>1
      <3> QED BY <2>1, <2>2, <3>1
    <2>4. ASSUME NEW v \in Tabs PROVE down'[v] = down[v] \/ down'[v] = Append(down[v], s)
      BY <2>1, <2>2
    <2> QED BY <2>1, <2>3, <2>4 DEF DownFades
  <1>5. TasksFine
    BY DoneFine DEF Refuse
  <1> QED BY <1>3, <1>4, <1>5, Same, StepKeeps

LEMMA LookupKeeps ==
  ASSUME Inv, NEW t \in Tabs, Reach(t) \/ CheckFree(t)
  PROVE  Inv'
  <1>1. CASE Reach(t)
    <2>1. At(t, "reach") /\ UNCHANGED <<client, up, consumer>>
          /\ \/ Advance(t, task[t]) /\ UNCHANGED <<row, down>>
             \/ Refuse(t, "missed", "unavailable")
      BY <1>1 DEF Reach
    <2> QED BY <2>1, RefuseKeeps, PlainKeeps, Same
  <1>2. CASE CheckFree(t)
    <2>1. At(t, "free") /\ UNCHANGED <<client, up, consumer>>
          /\ \/ Advance(t, task[t]) /\ UNCHANGED <<row, down>>
             \/ Refuse(t, "busy", "busy")
      BY <1>2 DEF CheckFree
    <2> QED BY <2>1, RefuseKeeps, PlainKeeps, Same
  <1> QED BY <1>1, <1>2

LEMMA ReadKeeps ==
  ASSUME Inv, NEW t \in Tabs, ReadCall(t)
  PROVE  Inv'
  <1> DEFINE k == task[t]
             local == [k EXCEPT !.read = row[k.id]]
  <1>1. At(t, "read") /\ Advance(t, local) /\ UNCHANGED <<client, up, down, consumer, row>>
    BY DEF ReadCall
  <1>2. k \in Task /\ TaskOK(k) /\ k.plan # <<>> /\ k.id \in CallIds
    BY <1>1, AtTask, WhoseStep
  <1>3. row[k.id] \in Row /\ RowOK(row[k.id]) /\ Fate(k.id)
    BY <1>2 DEF Inv, Typed
  <1>4. k.tells = "rejected" => Closed(row[k.id])
    <2>1. k.tells = "rejected" => Token(k.id, t, "task", 0) /\ ~Answered(t, "task", 0)
      BY DEF Token, Answered
    <2> QED BY <1>3, <2>1 DEF Fate, Undecided, Kinds
  <1>5. /\ local.plan = k.plan /\ local.tells = k.tells /\ local.id = k.id /\ local.status = k.status
        /\ local.answered = k.answered /\ local.read = row[k.id] /\ local \in Task
    BY <1>2, <1>3 DEF Task
  <1> HIDE DEF k, local
  <1>6. TaskOK(local)
    BY <1>2, <1>5 DEF TaskOK
  <1>7. ReadOK(local)
    BY <1>3, <1>4, <1>5 DEF ReadOK, RowOK
  <1>8. TasksFine
    BY <1>1, <1>2, <1>5, <1>6, <1>7, AdvanceFine DEF k
  <1> QED BY <1>1, <1>8, Same, StepKeeps

LEMMA RelayTyped ==
  ASSUME Typed, NEW u, NEW s \in Ping, Relay(u, s)
  PROVE  /\ down' \in [Tabs -> Seq(Ping)]
         /\ \A v \in Tabs : \/ down'[v] = down[v]
                            \/ down'[v] = Append(down[v], s) /\ UserOf[v] = u
  <1>1. down \in [Tabs -> Seq(Ping)] /\ \A v \in Tabs : Append(down[v], s) \in Seq(Ping)
    BY DEF Typed
  <1>2. down' = [v \in Tabs |-> IF UserOf[v] = u /\ consumer[v].joined /\ client[v].mode # "closed"
                                 THEN Append(down[v], s) ELSE down[v]]
    BY DEF Relay
  <1>3. ASSUME NEW v \in Tabs
        PROVE  /\ down'[v] \in Seq(Ping)
               /\ \/ down'[v] = down[v]
                  \/ down'[v] = Append(down[v], s) /\ UserOf[v] = u
    <2>1. down'[v] = IF UserOf[v] = u /\ consumer[v].joined /\ client[v].mode # "closed"
                       THEN Append(down[v], s) ELSE down[v]
      BY <1>2
    <2>2. CASE UserOf[v] = u /\ consumer[v].joined /\ client[v].mode # "closed"
      BY <1>1, <2>1, <2>2
    <2>3. CASE ~(UserOf[v] = u /\ consumer[v].joined /\ client[v].mode # "closed")
      BY <1>1, <2>1, <2>3
    <2> QED BY <2>2, <2>3
  <1>4. down' \in [Tabs -> Seq(Ping)]
    <2>1. down' = [v \in Tabs |-> down'[v]]
      BY <1>2
    <2> QED BY <2>1, <1>3
  <1> QED BY <1>3, <1>4

LEMMA TellKeeps ==
  ASSUME Inv, NEW t \in Tabs, Tell(t)
  PROVE  Inv'
  <1> DEFINE s == Signal(task[t].tells, UserOf[t], task[t].id)
  <1>1. At(t, "tell") /\ Relay(task[t].to, s) /\ Advance(t, task[t]) /\ UNCHANGED <<client, up, consumer, row>>
    BY DEF Tell
  <1>2. <<task[t].tells, task[t].status>> \in Outcomes
    <2>1. "tell" \in Finishing \ {"vanish", "leave"}
      BY DEF Finishing
    <2> QED BY <1>1, <2>1, WhoseStep
  <1>3. s \in Ping /\ s.type # "incoming"
    BY <1>2 DEF Outcomes, Signal, Ping, SomeUser, Inv, Typed, Task
  <1> HIDE DEF s
  <1>4. down' \in [Tabs -> Seq(Ping)] /\ DownFades
    BY <1>1, <1>3, RelayTyped DEF DownFades, Inv
  <1> QED BY <1>1, <1>4, AtTask, Same, StepKeeps

\* The number of the handler becomes the ring on its way to the only tab of
\* the user called.
LEMMA RingKeeps ==
  ASSUME Inv, OneTabEach, NEW t \in Tabs, Ring(t)
  PROVE  Inv'
  <1> DEFINE to == task[t].to
             id == task[t].id
             r == [caller |-> UserOf[t], receiver |-> to, status |-> "ringing", started |-> FALSE]
             s == Signal("incoming", UserOf[t], id)
  <1>1. /\ At(t, "ring") /\ row' = [row EXCEPT ![id] = r]
        /\ consumer' = [consumer EXCEPT ![t].active = id, ![t].peer = to]
        /\ Relay(to, s) /\ Done(t) /\ client' = client /\ up' = up
    BY DEF Ring
  <1>2. to \in SomeUser /\ id \in Id /\ UserOf[t] \in SomeUser
    BY DEF Inv, Typed, Task, SomeUser
  <1>3. r \in Row /\ ~r.started /\ r.status # "none"
    BY <1>2 DEF Row, CallStatus
  <1>4. row' \in [CallIds -> Row] /\ \A c \in CallIds : RowOK(row'[c]) /\ RowFine(c)
    <2> HIDE DEF r
    <2> QED BY <1>1, <1>3, RowWritten
  <1>5. consumer' \in [Tabs -> Consumer]
    BY <1>1, <1>2 DEF Inv, Typed, Consumer
  <1>6. TasksFine
    BY <1>1, DoneFine
  <1>7. s \in Ping /\ s.id = id
    BY <1>2 DEF Signal, Ping
  <1> HIDE DEF r, s
  <1>8. /\ down' \in [Tabs -> Seq(Ping)]
        /\ \A v \in Tabs : \/ down'[v] = down[v]
                           \/ down'[v] = Append(down[v], s) /\ UserOf[v] = to
    BY <1>1, <1>7, RelayTyped DEF Inv
  <1>9. ASSUME NEW c \in CallIds PROVE Fate(c)'
    <2>1. PagesFade /\ UpFades /\ TasksFade
      BY <1>1, <1>6 DEF PagesFade, UpFades, TasksFine
    <2>2. FadesAt(c, "dial") /\ FadesAt(c, "held") /\ FadesAt(c, "sent") /\ FadesAt(c, "task")
      BY <2>1, PagesFading, UpFading, TasksFading DEF Inv
    <2>3. ASSUME NEW v \in Tabs, NEW n \in Nat, Token(c, v, "rings", n)', ~Token(c, v, "rings", n)
          PROVE  n = Len(down[v]) + 1 /\ c = id /\ UserOf[v] = to /\ down'[v] = Append(down[v], s)
      <3>1. down[v] \in Seq(Ping)
        BY DEF Inv, Typed
      <3>2. Queued(down'[v], n, c, {"incoming"}) /\ ~Queued(down[v], n, c, {"incoming"})
        BY <2>3 DEF Token
      <3>3. down'[v] = Append(down[v], s) /\ UserOf[v] = to
        BY <3>2, <1>8
      <3> QED BY <3>1, <3>2, <3>3, <1>7 DEF Queued
    <2>4. CASE \E v \in Tabs, n \in Nat : Token(c, v, "rings", n)' /\ ~Token(c, v, "rings", n)
      <3>1. PICK v \in Tabs, n \in Nat : Token(c, v, "rings", n)' /\ ~Token(c, v, "rings", n)
        BY <2>4
      <3>2. c = id /\ n = Len(down[v]) + 1 /\ UserOf[v] = to
        BY <3>1, <2>3
      <3>3. Token(c, t, "task", 0) /\ ~Answered(t, "task", 0) /\ ~Token(c, t, "task", 0)'
        <4>1. task[t].tells = "none"
          BY <1>1, WhoseStep DEF Opening
        <4>2. task'[t] = NoTask /\ c # NoCall
          BY <1>1 DEF Done, Inv, Typed, NoCall
        <4> QED BY <3>2, <4>1, <4>2 DEF Token, Answered, NoTask
      <3>4. From(c, t, "task", 0, v, "rings", n)
        BY <3>3 DEF From
      <3>5. ASSUME NEW w \in Tabs, NEW k \in Kinds, NEW i \in Nat, ~(w = v /\ k = "rings" /\ i = n)
            PROVE  From(c, w, k, i, w, k, i) /\ ~(w = t /\ k = "task" /\ i = 0 /\ Token(c, w, k, i)')
        <4>1. CASE k = "rings"
          <5>1. ASSUME Token(c, w, "rings", i)', ~Token(c, w, "rings", i) PROVE FALSE
            <6>1. i = Len(down[w]) + 1 /\ UserOf[w] = to
              BY <5>1, <2>3
            <6>2. w = v
              BY <6>1, <3>2 DEF OneTabEach
            <6> QED BY <6>1, <6>2, <3>2, <3>5, <4>1
          <5> QED BY <4>1, <5>1 DEF From, Answered
        <4>2. CASE k = "nowhere"
          BY <4>2 DEF From, Token
        <4>3. CASE k \notin {"rings", "nowhere"}
          BY <4>3, <2>2, <3>3 DEF FadesAt, Kinds
        <4> QED BY <4>1, <4>2, <4>3
      <3>6. Goes(c, t, "task", 0, v, "rings", n)
        BY <3>4, <3>5 DEF Goes
      <3>7. "task" \in Kinds /\ "rings" \in Kinds /\ 0 \in Nat
        BY DEF Kinds
      <3> QED BY <1>4, <3>6, <3>7, Moved DEF Inv
    <2>5. CASE ~\E v \in Tabs, n \in Nat : Token(c, v, "rings", n)' /\ ~Token(c, v, "rings", n)
      <3>1. FadesAt(c, "rings")
        BY <2>5 DEF FadesAt, From, Answered
      <3>2. Fades(c)
        BY <2>2, <3>1, AllFade DEF Kinds
      <3> QED BY <1>4, <3>2, Fewer DEF Inv
    <2> QED BY <2>4, <2>5
  <1> QED BY <1>1, <1>4, <1>5, <1>6, <1>8, <1>9, Same DEF Inv, Typed, TasksFine

\* Only a handler that holds the number of the call can mark it answered.
LEMMA SaveKeeps ==
  ASSUME Inv, NEW t \in Tabs, SaveCall(t)
  PROVE  Inv'
  <1> DEFINE k == task[t]
             r == Marked(t)
  <1>0. PICK c \in CallIds : c = k.id
    BY WhoseStep DEF SaveCall
  <1>1. /\ At(t, "save") /\ row' = [row EXCEPT ![c] = r] /\ Advance(t, k)
        /\ UNCHANGED <<client, up, down, consumer>>
    BY <1>0 DEF SaveCall
  <1>2. /\ k \in Task /\ ReadOK(k) /\ c \in CallIds /\ TasksFine /\ (k.tells = "rejected" => ~k.answered)
        /\ k.answered \in BOOLEAN /\ k.read \in Row
    BY <1>0, <1>1, AtTask, WhoseStep DEF Task
  <1>3. <<k.tells, k.status>> \in Outcomes
    <2>1. "save" \in Finishing \ {"vanish", "leave"}
      BY DEF Finishing
    <2> QED BY <1>1, <2>1, WhoseStep
  <1>4. CASE k.read.status \in Over
    <2>1. r = row[c]
      BY <1>0, <1>4 DEF Marked, Over
    <2>2. row' = row
      BY <1>1, <2>1 DEF Inv, Typed
    <2> QED BY <1>1, <1>2, <2>2, Same, StepKeeps
  <1>5. CASE k.read.status \notin Over
    <2> DEFINE ringOut == k.status = "ended" /\ k.read.status = "ringing" /\ ~k.answered
    <2>1. r = [k.read EXCEPT !.status = IF ringOut THEN "missed" ELSE k.status, !.started = @ \/ k.answered]
      BY <1>5 DEF Marked, Over
    <2>2. /\ r.status = IF ringOut THEN "missed" ELSE k.status
          /\ r.started = (k.read.started \/ k.answered)
          /\ r.caller = k.read.caller /\ r.receiver = k.read.receiver
          /\ r = [caller |-> r.caller, receiver |-> r.receiver, status |-> r.status, started |-> r.started]
      BY <2>1, <1>2 DEF Row
    <2>3. r.status \in {"missed", "ongoing", "rejected", "ended"} /\ (k.status # "ended" => r.status = k.status)
      BY <2>2, <1>3 DEF Outcomes
    <2>4. r.started \in BOOLEAN
      BY <2>2, <1>2 DEF Row
    <2>5. r \in Row
      <3>1. r.status \in CallStatus
        BY <2>3 DEF CallStatus
      <3> QED BY <2>2, <2>4, <3>1, <1>2 DEF Row
    <2>6. k.tells = "rejected" => ~r.started /\ r.status = "rejected"
      BY <1>2, <1>3, <1>5, <2>2, <2>3 DEF ReadOK, Closed, Outcomes
    <2>7. k.tells = "ended" => r.status \in {"missed", "ended"} /\ Closed(r)
      BY <1>2, <1>3, <2>2 DEF ReadOK, Closed, Outcomes, Over
    <2>8. k.tells = "answer" => r.status = "ongoing"
      BY <1>3, <2>3 DEF Outcomes
    <2>9. k.tells \in {"answer", "rejected", "ended"}
      BY <1>3 DEF Outcomes
    <2> HIDE DEF r
    <2>10. /\ row' \in [CallIds -> Row] /\ row'[c] = r
           /\ \A d \in CallIds : d # c => row'[d] = row[d]
      BY <1>1, <1>2, <2>5, RowSet
    <2>11. \A d \in CallIds : RowOK(row'[d])
      BY <2>6, <2>7, <2>8, <2>9, <2>10 DEF RowOK, Inv
    <2>12. \A d \in CallIds : d # c => RowFine(d)
      BY <2>10 DEF RowFine
    <2>13. CASE k.tells # "answer"
      <3>1. RowFine(c)
        BY <2>13, <2>6, <2>7, <2>9, <2>10 DEF RowFine, Closed
      <3>2. \A d \in CallIds : RowOK(row'[d]) /\ RowFine(d)
        BY <2>11, <2>12, <3>1
      <3> QED BY <1>1, <1>2, <2>10, <3>2, Same, StepKeeps
    <2>14. CASE k.tells = "answer"
      <3>1. ASSUME NEW d \in CallIds PROVE Fades(d)
        <4>1. UpFades /\ DownFades /\ PagesFade /\ TasksFade
          BY <1>1, <1>2 DEF UpFades, DownFades, PagesFade, TasksFine
        <4>2. FadesAt(d, "dial") /\ FadesAt(d, "held") /\ FadesAt(d, "task") /\ FadesAt(d, "sent") /\ FadesAt(d, "rings")
          BY <4>1, PagesFading, TasksFading, UpFading, DownFading DEF Inv
        <4> QED BY <4>2, AllFade DEF Kinds
      <3>2. Fate(c)'
        <4>1. Token(c, t, "task", 0) /\ Answered(t, "task", 0) /\ "task" \in Kinds /\ 0 \in Nat
          BY <1>0, <2>14 DEF Token, Answered, Kinds
        <4>2. ASSUME NEW v \in Tabs, NEW x \in Kinds, NEW n \in Nat, Token(c, v, x, n)'
              PROVE  Answered(v, x, n)' /\ Token(c, v, x, n)
          <5>1. Token(c, v, x, n) /\ (Answered(v, x, n) => Answered(v, x, n)')
            BY <3>1, <1>2, <4>2 DEF Fades, From
          <5>2. v = t /\ x = "task" /\ n = 0
            BY <5>1, <4>1, <1>2 DEF Inv, Fate, Once
          <5> QED BY <5>1, <5>2, <4>1
        <4>3. Once(c)'
          <5>1. Once(c)
            BY <1>2 DEF Inv, Fate
          <5> QED BY <5>1, <4>2 DEF Once
        <4>4. Known(c)'
          BY <2>8, <2>10, <2>14 DEF Known
        <4>5. Undecided(c)'
          BY <4>2 DEF Undecided
        <4> QED BY <4>3, <4>4, <4>5 DEF Fate
      <3>3. ASSUME NEW d \in CallIds PROVE Fate(d)'
        BY <3>1, <3>2, <2>12, Fewer DEF Inv
      <3> QED BY <1>1, <1>2, <2>10, <2>11, <3>3, Same DEF Inv, Typed, TasksFine
    <2> QED BY <2>13, <2>14
  <1> QED BY <1>4, <1>5

LEMMA OtherKeeps ==
  ASSUME Inv, NEW t \in Tabs,
         \/ HoldOwn(t) \/ HoldPeer(t) \/ DropOwn(t) \/ DropPeer(t)
         \/ Join(t) \/ Appear(t) \/ AcceptSocket(t) \/ Vanish(t) \/ Leave(t)
  PROVE  Inv'
  <1>1. ASSUME NEW step, NEW u, NEW c, SetBusy(t, step, u, c) PROVE Inv'
    BY <1>1, PlainKeeps, Same DEF SetBusy
  <1>2. ASSUME NEW step, NEW value, SetOnline(t, step, value) PROVE Inv'
    BY <1>2, PlainKeeps, Same DEF SetOnline
  <1>3. CASE Join(t)
    <2>1. consumer' \in [Tabs -> Consumer]
      BY <1>3 DEF Join, Inv, Typed, Consumer
    <2> QED BY <1>3, <2>1, PlainKeeps DEF Join
  <1>4. CASE Leave(t)
    <2>1. consumer' \in [Tabs -> Consumer]
      BY <1>4 DEF Leave, Inv, Typed, Consumer, NoConsumer, Id, SomeUser
    <2> QED BY <1>4, <2>1, PlainKeeps DEF Leave
  <1>5. CASE AcceptSocket(t)
    <2>1. client' = [client EXCEPT ![t] = [client[t] EXCEPT !.mode = "idle"]] /\ client \in [Tabs -> PageState]
      BY <1>5 DEF AcceptSocket, Inv, Typed
    <2>2. client' \in [Tabs -> PageState]
      BY <2>1 DEF PageState, Mode
    <2>3. PagesFade
      BY <2>1 DEF PagesFade, Shown, PageState
    <2> QED BY <1>5, <2>2, <2>3, AtTask, Same, StepKeeps DEF AcceptSocket
  <1> QED BY <1>1, <1>2, <1>3, <1>4, <1>5 DEF HoldOwn, HoldPeer, DropOwn, DropPeer, Appear, Vanish

LEMMA ServeKeeps ==
  ASSUME Inv, OneTabEach, NEW t \in Tabs, Serve(t)
  PROVE  Inv'
  BY HandleKeeps, LookupKeeps, RingKeeps, ReadKeeps, SaveKeeps, TellKeeps, OtherKeeps DEF Serve

LEMMA ExpiryKeeps ==
  ASSUME Inv, NEW u \in Users, OnlineExpires(u) \/ BusyExpires(u)
  PROVE  Inv'
  BY Same, StepKeeps DEF OnlineExpires, BusyExpires

LEMMA InitInv ==
  ASSUME Init
  PROVE  Inv
  <1>1. Idle \in PageState /\ [NoConsumer EXCEPT !.joined = TRUE] \in Consumer /\ NoRow \in Row
    BY DEF Idle, PageState, Mode, NoConsumer, Consumer, NoRow, Row, SomeUser, Id, CallStatus
  <1>2. Typed
    BY <1>1, NoTaskFine DEF Init, Typed
  <1>3. \A t \in Tabs : TaskOK(task[t]) /\ ReadOK(task[t])
    BY NoTaskFine DEF Init
  <1>4. ASSUME NEW c \in CallIds PROVE RowOK(row[c]) /\ Fate(c)
    <2>1. \A t \in Tabs, k \in Kinds, i \in Nat : ~Token(c, t, k, i)
      BY DEF Init, Token, Queued, Idle, NoTask, NoCall
    <2>2. RowOK(row[c])
      BY DEF Init, RowOK, NoRow
    <2> QED BY <2>1, <2>2 DEF Fate, Once, Known, Undecided
  <1> QED BY <1>2, <1>3, <1>4 DEF Inv

-----------------------------------------------------------------------------
\* A call its receiver declined never shows as one that took place: of any
\* number of users with one tab each, whatever calls they dial, tabs they
\* close and keys of theirs expire.
THEOREM DeclinedNeverStartedHolds == OneTabEach => (Spec => []DeclinedNeverStarted)
  <1> SUFFICES ASSUME OneTabEach PROVE Spec => []DeclinedNeverStarted
    OBVIOUS
  <1>1. Init => Inv
    BY InitInv
  <1>2. Inv /\ [Next]_vars => Inv'
    <2>1. ASSUME Inv, UNCHANGED vars PROVE Inv'
      BY <2>1, Same, StepKeeps DEF vars, server
    <2>2. ASSUME Inv, Next PROVE Inv'
      BY <2>2, PageKeeps, ServeKeeps, ExpiryKeeps DEF Next
    <2> QED BY <2>1, <2>2
  <1>3. Inv => DeclinedNeverStarted
    BY DEF Inv, RowOK, DeclinedNeverStarted
  <1> QED BY <1>1, <1>2, <1>3, PTL DEF Spec
-----------------------------------------------------------------------------
(* Who the parties of a call are.  A number that is still with its caller  *)
(* (in startCall, in the offer or in its handler) has a row without a      *)
(* caller and stands in one place only; any other mention of a call agrees *)
(* with its row.  This needs no assumption on tabs.                        *)
Base == Typed /\ \A t \in Tabs : TaskOK(task[t])

Called(u, v, c) == c \in CallIds /\ row[c].receiver = u /\ row[c].caller = v /\ u \in Users /\ v \in Users
Parties(u, v, c) == Called(u, v, c) \/ Called(v, u, c)
Unplaced(u, c) == c \in CallIds /\ row[c].receiver = u /\ row[c].caller = NoUser /\ u \in Users

LetterFits(t, m) ==
  \/ m.type = "offer" /\ Unplaced(m.to, m.id)
  \/ m.type \in {"answer", "reject"} /\ Called(UserOf[t], m.to, m.id)
  \/ m.type = "end" /\ m.to \in Users /\ (m.id # NoCall => Called(UserOf[t], m.to, m.id))
  \/ m.type = "close" /\ m.to = NoUser /\ m.id = NoCall
PingFits(t, s) == s.from \in Users /\ (s.type = "incoming" => Called(UserOf[t], s.from, s.id))
PageFits(t, p) ==
  /\ p.mode \in InCall => p.with \in Users
  /\ p.mode \in Shown => p.id # NoCall
  /\ p.id # NoCall => Called(UserOf[t], p.with, p.id)
  /\ p.dial # NoCall => \E u \in Users : Unplaced(u, p.dial)
ConsumerFits(t, k) == k.active # NoCall => Parties(UserOf[t], k.peer, k.active)

\* A handler of the receiver's own letter; the handler of a closed tab may be
\* of either party.
Own(k) == k.tells \in {"answer", "rejected"} \/ (k.tells = "ended" /\ ~k.answered)
Connecting == {"join", "appear", "accept", "vanish", "leave"}
NotHolding == (Opening \cup Finishing) \ {"hold own", "hold peer"}
\* A row is read first and saved next.
Ordered(q) ==
  \A i \in 1..Len(q) : (q[i] = "read" => i = 1) /\ (q[i] = "save" => i = 1 \/ (i = 2 /\ q[1] = "read"))
AtSave(k) == k.plan # <<>> /\ Head(k.plan) = "save"
TaskFits(t, k) ==
  /\ Ordered(k.plan)
  /\ k.tells = "none" => k.plan \in Seq(Connecting) \/ Unplaced(k.to, k.id)
  /\ k.tells = "none" /\ k.id # NoCall => Unplaced(k.to, k.id)
  /\ k.tells # "none" /\ k.id # NoCall => Parties(UserOf[t], k.to, k.id)
  /\ Own(k) /\ k.id # NoCall => Called(UserOf[t], k.to, k.id)
  /\ k.tells # "answer" => k.plan \in Seq(NotHolding)
  /\ k.tells = "answer" => k.answered /\ k.id # NoCall
  /\ AtSave(k) => k.read.caller = row[k.id].caller /\ k.read.receiver = row[k.id].receiver

UpFits(t) == \A i \in 1..Len(up[t]) : LetterFits(t, up[t][i])
DownFits(t) == \A i \in 1..Len(down[t]) : PingFits(t, down[t][i])
Fits(t) ==
  /\ UpFits(t) /\ DownFits(t)
  /\ PageFits(t, client[t]) /\ ConsumerFits(t, consumer[t]) /\ TaskFits(t, task[t])

\* Where the number of a call waits for its row.
OfferAt(c, t, k, i) ==
  \/ k = "dial" /\ i = 0 /\ client[t].dial = c
  \/ k = "sent" /\ Queued(up[t], i, c, {"offer"})
  \/ k = "task" /\ i = 0 /\ task[t].tells = "none" /\ task[t].id = c
Waits == {"dial", "sent", "task"}
OneOffer(c) ==
  \A s, t \in Tabs, k, l \in Waits, i, j \in Nat :
    OfferAt(c, s, k, i) /\ OfferAt(c, t, l, j) => s = t /\ k = l /\ i = j

Placing == Base /\ (\A t \in Tabs : Fits(t)) /\ \A c \in CallIds : OneOffer(c)

-----------------------------------------------------------------------------
(* What a step leaves of it.                                               *)
Stable == \A u, v \in Users, c \in CallIds : Called(u, v, c) => Called(u, v, c)'
StillFree(c) == \A u \in Users : Unplaced(u, c) => Unplaced(u, c)'
SameParties(c) == row'[c].caller = row[c].caller /\ row'[c].receiver = row[c].receiver

LEMMA PartiesStay ==
  ASSUME \A c \in CallIds : SameParties(c)
  PROVE  Stable /\ \A c \in CallIds : StillFree(c)
  BY DEF SameParties, Stable, StillFree, Called, Unplaced

LEMMA CalledStays ==
  ASSUME Stable, NEW u, NEW v, NEW c, Called(u, v, c)
  PROVE  Called(u, v, c)'
  <1>1. u \in Users /\ v \in Users /\ c \in CallIds
    BY DEF Called
  <1> QED BY <1>1 DEF Stable

LEMMA FreeStays ==
  ASSUME NEW u, NEW c, StillFree(c), Unplaced(u, c)
  PROVE  Unplaced(u, c)'
  <1>1. u \in Users
    BY DEF Unplaced
  <1> QED BY <1>1 DEF StillFree

LEMMA LetterStays ==
  ASSUME Stable, NEW t, NEW m, LetterFits(t, m), m.type = "offer" => StillFree(m.id)
  PROVE  LetterFits(t, m)'
  <1>1. CASE m.type = "offer"
    BY <1>1, FreeStays DEF LetterFits
  <1>2. CASE m.type # "offer"
    BY <1>2, CalledStays DEF LetterFits
  <1> QED BY <1>1, <1>2

LEMMA PingStays ==
  ASSUME Stable, NEW t, NEW s, PingFits(t, s)
  PROVE  PingFits(t, s)'
  BY CalledStays DEF PingFits

LEMMA PageStays ==
  ASSUME Stable, NEW t, NEW p, PageFits(t, p), p.dial # NoCall => StillFree(p.dial)
  PROVE  PageFits(t, p)'
  <1>1. p.id # NoCall => Called(UserOf[t], p.with, p.id)'
    BY CalledStays DEF PageFits
  <1>2. ASSUME p.dial # NoCall PROVE (\E u \in Users : Unplaced(u, p.dial))'
    <2>1. PICK u \in Users : Unplaced(u, p.dial)
      BY <1>2 DEF PageFits
    <2>2. Unplaced(u, p.dial)'
      BY <1>2, <2>1, FreeStays
    <2> QED BY <2>2
  <1> QED BY <1>1, <1>2 DEF PageFits

LEMMA PartiesKnown ==
  ASSUME Stable, NEW u, NEW v, NEW c, Parties(u, v, c)
  PROVE  Parties(u, v, c)'
  BY CalledStays DEF Parties

LEMMA ConsumerStays ==
  ASSUME Stable, NEW t, NEW k, ConsumerFits(t, k)
  PROVE  ConsumerFits(t, k)'
  BY PartiesKnown DEF ConsumerFits

LEMMA TaskStays ==
  ASSUME Stable, NEW t, NEW k \in Task, TaskOK(k), TaskFits(t, k),
         k.tells = "none" => StillFree(k.id)
  PROVE  TaskFits(t, k)'
  <1>1. k.tells = "none" => k.plan \in Seq(Connecting) \/ Unplaced(k.to, k.id)'
    BY FreeStays DEF TaskFits
  <1>2. k.tells = "none" /\ k.id # NoCall => Unplaced(k.to, k.id)'
    BY FreeStays DEF TaskFits
  <1>3. k.tells # "none" /\ k.id # NoCall => Parties(UserOf[t], k.to, k.id)'
    BY PartiesKnown DEF TaskFits
  <1>4. Own(k) /\ k.id # NoCall => Called(UserOf[t], k.to, k.id)'
    BY CalledStays DEF TaskFits
  <1>5. ASSUME AtSave(k) PROVE k.read.caller = row'[k.id].caller /\ k.read.receiver = row'[k.id].receiver
    <2>1. k.tells # "none" /\ k.id # NoCall
      <3>1. \A S : k.plan \in Seq(S) => "save" \in S
        BY <1>5, SeqHead DEF AtSave
      <3>2. ~(k.tells = "none" /\ k.plan \in Silent)
        BY <3>1 DEF Silent, Opening
      <3>3. <<k.tells, k.status>> \in Outcomes /\ (k.id = NoCall => k.plan \in Seq(Finishing \ {"read", "save"}))
        BY <3>2 DEF TaskOK
      <3> QED BY <3>1, <3>3 DEF Outcomes
    <2>2. Parties(UserOf[t], k.to, k.id) /\ Parties(UserOf[t], k.to, k.id)'
      BY <2>1, <1>3 DEF TaskFits
    <2>3. k.read.caller = row[k.id].caller /\ k.read.receiver = row[k.id].receiver
      BY <1>5 DEF TaskFits
    <2>4. CASE Called(UserOf[t], k.to, k.id)
      BY <2>3, <2>4, CalledStays DEF Called
    <2>5. CASE Called(k.to, UserOf[t], k.id)
      BY <2>3, <2>5, CalledStays DEF Called
    <2> QED BY <2>2, <2>4, <2>5 DEF Parties
  <1> QED BY <1>1, <1>2, <1>3, <1>4, <1>5 DEF TaskFits

\* The same, said of what a tab has after the step.
LEMMA UpStill ==
  ASSUME Stable, NEW t \in Tabs, UpFits(t), up'[t] = up[t],
         \A i \in 1..Len(up[t]) : up[t][i].type = "offer" => StillFree(up[t][i].id)
  PROVE  UpFits(t)'
  <1>1. PICK q : q = up[t]
    OBVIOUS
  <1>2. ASSUME NEW i \in 1..Len(q) PROVE LetterFits(t, q[i])'
    <2>1. PICK m : m = q[i]
      OBVIOUS
    <2>2. LetterFits(t, m)'
      BY <1>1, <2>1, LetterStays DEF UpFits
    <2> QED BY <2>1, <2>2
  <1>3. up'[t] = q
    BY <1>1
  <1>4. \A i \in 1..Len(up'[t]) : LetterFits(t, q[i])'
    BY <1>2, <1>3
  <1> QED BY <1>3, <1>4 DEF UpFits, LetterFits, Called, Unplaced

LEMMA UpPosted ==
  ASSUME Stable, NEW t \in Tabs, UpFits(t), up[t] \in Seq(Letter), NEW m \in Letter, LetterFits(t, m)',
         up'[t] = Append(up[t], m),
         \A i \in 1..Len(up[t]) : up[t][i].type = "offer" => StillFree(up[t][i].id)
  PROVE  UpFits(t)'
  <1>1. PICK q : q = up[t]
    OBVIOUS
  <1>2. PICK r : r = Append(q, m)
    OBVIOUS
  <1>3. up'[t] = r /\ r \in Seq(Letter) /\ Len(r) = Len(q) + 1 /\ r[Len(r)] = m
        /\ \A i \in 1..Len(q) : r[i] = q[i]
    BY <1>1, <1>2
  <1>4. ASSUME NEW i \in 1..Len(r) PROVE LetterFits(t, r[i])'
    <2>1. PICK n : n = r[i]
      OBVIOUS
    <2>2. CASE i = Len(r)
      BY <1>3, <2>2
    <2>3. CASE i # Len(r)
      <3>1. i \in 1..Len(q) /\ n = up[t][i]
        BY <1>1, <1>3, <2>1, <2>3
      <3>2. LetterFits(t, n)'
        BY <1>1, <3>1, LetterStays DEF UpFits
      <3> QED BY <2>1, <3>2
    <2> QED BY <2>2, <2>3
  <1> QED BY <1>3, <1>4 DEF UpFits, LetterFits, Called, Unplaced

LEMMA UpShifted ==
  ASSUME Stable, NEW t \in Tabs, UpFits(t), up[t] \in Seq(Letter), up[t] # <<>>, up'[t] = Tail(up[t]),
         \A i \in 1..Len(up[t]) : up[t][i].type = "offer" => StillFree(up[t][i].id)
  PROVE  UpFits(t)'
  <1>1. PICK q : q = up[t]
    OBVIOUS
  <1>2. PICK r : r = Tail(q)
    OBVIOUS
  <1>3. \A i \in 1..Len(r) : i + 1 \in 1..Len(q) /\ r[i] = q[i + 1]
    BY <1>1, <1>2, SeqHead
  <1>4. ASSUME NEW i \in 1..Len(r) PROVE LetterFits(t, r[i])'
    <2>1. PICK m : m = r[i]
      OBVIOUS
    <2>2. i + 1 \in 1..Len(up[t]) /\ m = up[t][i + 1]
      BY <1>1, <1>3, <2>1
    <2>3. LetterFits(t, m)'
      BY <2>2, LetterStays DEF UpFits
    <2> QED BY <2>1, <2>3
  <1>5. up'[t] = r
    BY <1>1, <1>2
  <1> QED BY <1>4, <1>5 DEF UpFits, LetterFits, Called, Unplaced

LEMMA DownStill ==
  ASSUME Stable, NEW t \in Tabs, DownFits(t), down'[t] \in {down[t], <<>>}
  PROVE  DownFits(t)'
  <1>1. PICK q : q = down'[t]
    OBVIOUS
  <1>2. ASSUME NEW i \in 1..Len(q) PROVE PingFits(t, q[i])'
    <2>1. PICK s : s = q[i]
      OBVIOUS
    <2>2. q = down[t]
      BY <1>1
    <2>3. PingFits(t, s)'
      BY <2>1, <2>2, PingStays DEF DownFits
    <2> QED BY <2>1, <2>3
  <1> QED BY <1>1, <1>2 DEF DownFits, PingFits, Called

LEMMA DownPosted ==
  ASSUME Stable, NEW t \in Tabs, DownFits(t), down[t] \in Seq(Ping), NEW s \in Ping, PingFits(t, s)',
         down'[t] = Append(down[t], s)
  PROVE  DownFits(t)'
  <1>1. PICK q : q = down[t]
    OBVIOUS
  <1>2. PICK r : r = Append(q, s)
    OBVIOUS
  <1>3. down'[t] = r /\ r \in Seq(Ping) /\ Len(r) = Len(q) + 1 /\ r[Len(r)] = s
        /\ \A i \in 1..Len(q) : r[i] = q[i]
    BY <1>1, <1>2
  <1>4. ASSUME NEW i \in 1..Len(r) PROVE PingFits(t, r[i])'
    <2>1. PICK n : n = r[i]
      OBVIOUS
    <2>2. CASE i = Len(r)
      BY <1>3, <2>2
    <2>3. CASE i # Len(r)
      <3>1. i \in 1..Len(q) /\ n = down[t][i]
        BY <1>1, <1>3, <2>1, <2>3
      <3>2. PingFits(t, n)'
        BY <1>1, <3>1, PingStays DEF DownFits
      <3> QED BY <2>1, <3>2
    <2> QED BY <2>2, <2>3
  <1> QED BY <1>3, <1>4 DEF DownFits, PingFits, Called

LEMMA DownShifted ==
  ASSUME Stable, NEW t \in Tabs, DownFits(t), down[t] \in Seq(Ping), down[t] # <<>>, down'[t] = Tail(down[t])
  PROVE  DownFits(t)'
  <1>1. PICK q : q = down[t]
    OBVIOUS
  <1>2. PICK r : r = Tail(q)
    OBVIOUS
  <1>3. \A i \in 1..Len(r) : i + 1 \in 1..Len(q) /\ r[i] = q[i + 1]
    BY <1>1, <1>2, SeqHead
  <1>4. ASSUME NEW i \in 1..Len(r) PROVE PingFits(t, r[i])'
    <2>1. PICK s : s = r[i]
      OBVIOUS
    <2>2. i + 1 \in 1..Len(down[t]) /\ s = down[t][i + 1]
      BY <1>1, <1>3, <2>1
    <2>3. PingFits(t, s)'
      BY <2>2, PingStays DEF DownFits
    <2> QED BY <2>1, <2>3
  <1>5. down'[t] = r
    BY <1>1, <1>2
  <1> QED BY <1>4, <1>5 DEF DownFits, PingFits, Called

LEMMA PageIs ==
  ASSUME NEW t \in Tabs, NEW p, client'[t] = p, PageFits(t, p)'
  PROVE  PageFits(t, client[t])'
  BY DEF PageFits, Called, Unplaced

LEMMA PageStill ==
  ASSUME Stable, NEW t \in Tabs, PageFits(t, client[t]), client'[t] = client[t],
         client[t].dial # NoCall => StillFree(client[t].dial)
  PROVE  PageFits(t, client[t])'
  <1>1. PICK p : p = client[t]
    OBVIOUS
  <1>2. PageFits(t, p)'
    BY <1>1, PageStays
  <1> QED BY <1>1, <1>2, PageIs

LEMMA ConsumerIs ==
  ASSUME NEW t \in Tabs, NEW k, consumer'[t] = k, ConsumerFits(t, k)'
  PROVE  ConsumerFits(t, consumer[t])'
  BY DEF ConsumerFits, Parties, Called

LEMMA ConsumerStill ==
  ASSUME Stable, NEW t \in Tabs, ConsumerFits(t, consumer[t]), consumer'[t] = consumer[t]
  PROVE  ConsumerFits(t, consumer[t])'
  <1>1. PICK k : k = consumer[t]
    OBVIOUS
  <1>2. ConsumerFits(t, k)'
    BY <1>1, ConsumerStays
  <1> QED BY <1>1, <1>2, ConsumerIs

LEMMA TaskIs ==
  ASSUME NEW t \in Tabs, NEW k, task'[t] = k, TaskFits(t, k)'
  PROVE  TaskFits(t, task[t])'
  BY DEF TaskFits, Parties, Called, Unplaced, Own, AtSave, Ordered

LEMMA TaskStill ==
  ASSUME Stable, NEW t \in Tabs, task[t] \in Task, TaskOK(task[t]), TaskFits(t, task[t]), task'[t] = task[t],
         task[t].tells = "none" => StillFree(task[t].id)
  PROVE  TaskFits(t, task[t])'
  <1>1. PICK k \in Task : k = task[t]
    OBVIOUS
  <1>2. TaskFits(t, k)'
    BY <1>1, TaskStays
  <1> QED BY <1>1, <1>2, TaskIs

LEMMA NoTaskFits == ASSUME NEW t PROVE TaskFits(t, NoTask) /\ TaskFits(t, NoTask)'
  <1>1. <<>> \in Seq(Connecting) /\ <<>> \in Seq(NotHolding)
    OBVIOUS
  <1> QED BY <1>1 DEF TaskFits, NoTask, Own, AtSave, Ordered

-----------------------------------------------------------------------------
LEMMA OffersStay ==
  ASSUME Typed, NEW c \in CallIds, OneOffer(c),
         \A t \in Tabs : client'[t].dial \in {client[t].dial, NoCall},
         \A t \in Tabs : \/ up'[t] = up[t]
                         \/ \E m \in Letter : m.type # "offer" /\ up'[t] = Append(up[t], m),
         \A t \in Tabs : task'[t].tells = "none" =>
                           task'[t].id = NoCall \/ (task[t].tells = "none" /\ task'[t].id = task[t].id)
  PROVE  OneOffer(c)'
  <1>1. ASSUME NEW t \in Tabs, NEW k \in Waits, NEW i \in Nat, OfferAt(c, t, k, i)'
        PROVE  OfferAt(c, t, k, i)
    <2>0. c # NoCall /\ up[t] \in Seq(Letter)
      BY DEF NoCall, Typed
    <2>1. CASE k = "dial"
      BY <1>1, <2>0, <2>1 DEF OfferAt
    <2>2. CASE k = "task"
      BY <1>1, <2>0, <2>2 DEF OfferAt
    <2>3. CASE k = "sent"
      <3>1. Queued(up'[t], i, c, {"offer"})
        BY <1>1, <2>3 DEF OfferAt
      <3>2. CASE up'[t] = up[t]
        BY <3>1, <3>2, <2>3 DEF OfferAt
      <3>3. ASSUME NEW m \in Letter, m.type # "offer", up'[t] = Append(up[t], m)
            PROVE  Queued(up[t], i, c, {"offer"})
        BY <2>0, <3>1, <3>3 DEF Queued
      <3> QED BY <2>3, <3>2, <3>3 DEF OfferAt
    <2> QED BY <2>1, <2>2, <2>3 DEF Waits
  <1> QED BY <1>1 DEF OneOffer

LEMMA PlacingNext ==
  ASSUME Typed', \A t \in Tabs : TaskOK(task'[t]),
         \A t \in Tabs : UpFits(t)' /\ DownFits(t)' /\ PageFits(t, client[t])'
                         /\ ConsumerFits(t, consumer[t])' /\ TaskFits(t, task[t])',
         \A c \in CallIds : OneOffer(c)'
  PROVE  Placing'
  BY DEF Placing, Base, Fits

LEMMA PlacingAt ==
  ASSUME Placing, NEW t \in Tabs
  PROVE  /\ UpFits(t) /\ DownFits(t) /\ PageFits(t, client[t]) /\ ConsumerFits(t, consumer[t]) /\ TaskFits(t, task[t])
         /\ client[t] \in PageState /\ up[t] \in Seq(Letter) /\ down[t] \in Seq(Ping)
         /\ consumer[t] \in Consumer /\ task[t] \in Task /\ TaskOK(task[t])
  BY DEF Placing, Base, Fits, Typed

\* A page that sends or takes at most one message: no row changes.
LEMMA PageStep ==
  ASSUME Placing, NEW t \in Tabs, UNCHANGED server,
         NEW p \in PageState, client' = [client EXCEPT ![t] = p], PageFits(t, p), p.dial \in {client[t].dial, NoCall},
         \/ up' = up
         \/ \E m \in Letter : /\ LetterFits(t, m) /\ Posts(t, m)
                              /\ m.type = "offer" => m.id = client[t].dial /\ p.dial = NoCall,
         \/ down' = down \/ down' = [down EXCEPT ![t] = <<>>] \/ TakesDown(t)
  PROVE  Placing'
  <1>0. /\ client \in [Tabs -> PageState] /\ up \in [Tabs -> Seq(Letter)] /\ down \in [Tabs -> Seq(Ping)]
        /\ consumer' = consumer /\ task' = task /\ row' = row
    BY DEF Placing, Base, Typed, server
  <1>1. Stable /\ \A c : StillFree(c)
    BY <1>0 DEF Stable, StillFree, Called, Unplaced
  <1>2. client' \in [Tabs -> PageState] /\ client'[t] = p /\ \A s \in Tabs \ {t} : client'[s] = client[s]
    BY <1>0
  <1>3. up' \in [Tabs -> Seq(Letter)] /\ \A s \in Tabs \ {t} : up'[s] = up[s]
    <2>1. CASE up' = up
      BY <1>0, <2>1
    <2>2. ASSUME NEW m \in Letter, Posts(t, m) PROVE up' \in [Tabs -> Seq(Letter)] /\ \A s \in Tabs \ {t} : up'[s] = up[s]
      <3>0. up[t] \in Seq(Letter)
        BY PlacingAt
      <3>a. Append(up[t], m) \in Seq(Letter)
        BY <3>0
      <3>1. PICK q \in Seq(Letter) : q = Append(up[t], m)
        BY <3>a
      <3>2. up' = [up EXCEPT ![t] = q]
        BY <1>0, <2>2, <3>1 DEF Posts
      <3> QED BY <1>0, <3>2
    <2> QED BY <2>1, <2>2
  <1>4. /\ down' \in [Tabs -> Seq(Ping)] /\ \A s \in Tabs \ {t} : down'[s] = down[s]
        /\ \/ down'[t] \in {down[t], <<>>}
           \/ down[t] # <<>> /\ down'[t] = Tail(down[t])
    <2>1. CASE TakesDown(t)
      <3>1. down[t] # <<>> /\ down' = [down EXCEPT ![t] = Tail(@)]
        BY <2>1 DEF TakesDown
      <3>2. Tail(down[t]) \in Seq(Ping)
        BY <1>0, <3>1, SeqTail
      <3> QED BY <1>0, <3>1, <3>2
    <2>2. CASE down' = down
      BY <1>0, <2>2
    <2>3. CASE down' = [down EXCEPT ![t] = <<>>]
      <3>1. <<>> \in Seq(Ping)
        OBVIOUS
      <3> QED BY <1>0, <2>3, <3>1
    <2> QED BY <2>1, <2>2, <2>3
  <1>5. ASSUME NEW s \in Tabs
        PROVE  UpFits(s)' /\ DownFits(s)' /\ PageFits(s, client[s])'
               /\ ConsumerFits(s, consumer[s])' /\ TaskFits(s, task[s])'
    <2>1. /\ UpFits(s) /\ DownFits(s) /\ PageFits(s, client[s]) /\ ConsumerFits(s, consumer[s]) /\ TaskFits(s, task[s])
          /\ up[s] \in Seq(Letter) /\ down[s] \in Seq(Ping) /\ task[s] \in Task /\ TaskOK(task[s])
      BY PlacingAt
    <2>2. ConsumerFits(s, consumer[s])' /\ TaskFits(s, task[s])'
      BY <1>0, <1>1, <2>1, ConsumerStill, TaskStill
    <2>3. PageFits(s, client[s])'
      <3>1. CASE s = t
        BY <1>1, <1>2, <3>1, PageStays, PageIs
      <3>2. CASE s # t
        BY <1>1, <1>2, <2>1, <3>2, PageStill
      <3> QED BY <3>1, <3>2
    <2>4. UpFits(s)'
      <3>1. CASE up'[s] = up[s]
        BY <1>1, <2>1, <3>1, UpStill
      <3>2. ASSUME NEW m \in Letter, LetterFits(t, m), Posts(t, m), s = t PROVE UpFits(s)'
        <4>1. up'[t] = Append(up[t], m)
          BY <1>0, <3>2 DEF Posts
        <4>2. LetterFits(t, m)'
          BY <1>1, <3>2, LetterStays
        <4> QED BY <1>1, <2>1, <3>2, <4>1, <4>2, UpPosted
      <3> QED BY <1>3, <3>1, <3>2
    <2>5. DownFits(s)'
      <3>1. CASE down'[s] \in {down[s], <<>>}
        BY <1>1, <2>1, <3>1, DownStill
      <3>2. CASE down[s] # <<>> /\ down'[s] = Tail(down[s])
        BY <1>1, <2>1, <3>2, DownShifted
      <3> QED BY <1>4, <3>1, <3>2
    <2> QED BY <2>2, <2>3, <2>4, <2>5
  <1>6. ASSUME NEW c \in CallIds PROVE OneOffer(c)'
    <2>0. OneOffer(c) /\ Typed
      BY DEF Placing, Base
    <2>1. /\ \A s \in Tabs : client'[s].dial \in {client[s].dial, NoCall}
          /\ \A s \in Tabs : task'[s].tells = "none" =>
                               task'[s].id = NoCall \/ (task[s].tells = "none" /\ task'[s].id = task[s].id)
      BY <1>0, <1>2
    <2>2. CASE up' = up
      BY <2>0, <2>1, <2>2, OffersStay
    <2>3. ASSUME NEW m \in Letter, Posts(t, m), m.type # "offer" PROVE OneOffer(c)'
      <3>1. \A s \in Tabs : up'[s] = up[s] \/ \E l \in Letter : l.type # "offer" /\ up'[s] = Append(up[s], l)
        BY <1>0, <2>3 DEF Posts
      <3> QED BY <2>0, <2>1, <3>1, OffersStay
    <2>4. ASSUME NEW m \in Letter, Posts(t, m), m.type = "offer", m.id = client[t].dial, p.dial = NoCall
          PROVE  OneOffer(c)'
      <3>1. PICK n \in Nat : n = Len(up[t]) + 1
        BY <1>0
      <3>2. PICK r : r = Append(up[t], m)
        OBVIOUS
      <3>3. /\ up'[t] = r /\ Len(r) = n /\ r[n] = m
            /\ \A i \in Nat : i \in 1..Len(r) /\ i # n => i \in 1..Len(up[t]) /\ r[i] = up[t][i]
        BY <1>0, <2>4, <3>1, <3>2 DEF Posts
      <3>4. c # NoCall
        BY DEF NoCall
      <3>5. ASSUME NEW s \in Tabs, NEW k \in Waits, NEW i \in Nat, OfferAt(c, s, k, i)', ~(s = t /\ k = "sent" /\ i = n)
            PROVE  OfferAt(c, s, k, i) /\ ~(s = t /\ k = "dial" /\ i = 0)
        <4>1. CASE k = "dial"
          BY <1>2, <2>4, <3>4, <3>5, <4>1 DEF OfferAt
        <4>2. CASE k = "task"
          BY <1>0, <3>5, <4>2 DEF OfferAt
        <4>3. CASE k = "sent"
          BY <1>3, <3>3, <3>5, <4>3 DEF OfferAt, Queued
        <4> QED BY <4>1, <4>2, <4>3 DEF Waits
      <3>6. OfferAt(c, t, "sent", n)' => OfferAt(c, t, "dial", 0)
        BY <2>4, <3>3 DEF OfferAt, Queued
      <3>7. "dial" \in Waits /\ "sent" \in Waits /\ 0 \in Nat
        BY DEF Waits
      <3> QED BY <2>0, <3>5, <3>6, <3>7 DEF OneOffer
    <2> QED BY <2>2, <2>3, <2>4
  <1>7. Typed'
    BY <1>0, <1>2, <1>3, <1>4 DEF Placing, Base, Typed
  <1>8. \A s \in Tabs : TaskOK(task'[s])
    BY <1>0, PlacingAt
  <1> QED BY <1>5, <1>6, <1>7, <1>8, PlacingNext

LEMMA CleanedUpFits ==
  ASSUME Placing, NEW t \in Tabs
  PROVE  /\ CleanedUp(t) \in PageState /\ CleanedUp(t).dial = client[t].dial /\ CleanedUp(t).id = NoCall
         /\ CleanedUp(t).mode = "idle" /\ PageFits(t, CleanedUp(t))
         /\ Idle \in PageState /\ Idle.dial = NoCall /\ PageFits(t, Idle)
         /\ Away \in PageState /\ Away.dial = NoCall /\ PageFits(t, Away)
  <1>1. CleanedUp(t) \in PageState /\ Idle \in PageState /\ Away \in PageState /\ PageFits(t, client[t])
    BY PageTypes, PlacingAt DEF Placing, Base
  <1>2. /\ CleanedUp(t).dial = client[t].dial /\ CleanedUp(t).id = NoCall /\ CleanedUp(t).mode = "idle"
        /\ Idle.dial = NoCall /\ Idle.id = NoCall /\ Idle.mode = "idle"
        /\ Away.dial = NoCall /\ Away.id = NoCall /\ Away.mode = "closed"
    BY DEF CleanedUp, Idle, Away
  <1> QED BY <1>1, <1>2 DEF PageFits, InCall, Shown

LEMMA ShownFits ==
  ASSUME Placing, NEW t \in Tabs, client[t].mode \in Shown
  PROVE  /\ Called(UserOf[t], client[t].with, client[t].id) /\ client[t].with \in Users /\ client[t].id \in CallIds
  BY PlacingAt DEF PageFits, Called

\* The page's own steps, but for opening and dialling.
LEMMA TalkPlaces ==
  ASSUME Placing, NEW t \in Tabs,
         \/ Close(t) \/ Offer(t) \/ MediaDenied(t) \/ Accept(t) \/ Answer(t) \/ Decline(t)
         \/ FailToConnect(t) \/ Hangup(t)
  PROVE  Placing'
  <1>0. client[t] \in PageState /\ PageFits(t, client[t]) /\ client \in [Tabs -> PageState]
    BY PlacingAt DEF Placing, Base, Typed
  <1>1. CASE Close(t)
    <2>1. PICK m : m = Message("close", NoUser, NoCall)
      OBVIOUS
    <2>2. m \in Letter /\ m.type = "close" /\ LetterFits(t, m)
      BY <2>1 DEF Message, Letter, SomeUser, Id, LetterFits
    <2>3. Posts(t, m) /\ client' = [client EXCEPT ![t] = Away] /\ UNCHANGED server /\ down' = [down EXCEPT ![t] = <<>>]
      BY <1>1, <2>1 DEF Close, Send, Posts
    <2> QED BY <2>2, <2>3, CleanedUpFits, PageStep
  <1>2. CASE MediaDenied(t)
    BY <1>2, CleanedUpFits, PageStep DEF MediaDenied
  <1>3. CASE FailToConnect(t)
    BY <1>3, CleanedUpFits, PageStep DEF FailToConnect
  <1>4. CASE Accept(t)
    <2>1. PICK p : p = [client[t] EXCEPT !.mode = "connecting"]
      OBVIOUS
    <2>2. client' = [client EXCEPT ![t] = p] /\ UNCHANGED <<up, down, server>> /\ client[t].mode = "incoming"
      BY <1>4, <2>1 DEF Accept
    <2>3. /\ p \in PageState /\ p.dial = client[t].dial /\ p.id = client[t].id /\ p.with = client[t].with
          /\ p.mode = "connecting"
      BY <1>0, <2>1 DEF PageState, Mode
    <2>4. PageFits(t, p)
      BY <1>0, <2>2, <2>3, ShownFits DEF PageFits, Shown
    <2> QED BY <2>2, <2>3, <2>4, PageStep
  <1>5. CASE Hangup(t)
    <2>1. PICK m : m = Message("end", client[t].with, client[t].id)
      OBVIOUS
    <2>2. m \in Letter /\ m.type = "end" /\ LetterFits(t, m)
      BY <1>0, <1>5, <2>1 DEF Message, Letter, PageState, LetterFits, PageFits, Hangup
    <2>3. Posts(t, m) /\ client' = [client EXCEPT ![t] = CleanedUp(t)] /\ UNCHANGED <<down, server>>
      BY <1>5, <2>1 DEF Hangup, Send, Posts
    <2> QED BY <2>2, <2>3, CleanedUpFits, PageStep
  <1>6. CASE Decline(t)
    <2>1. PICK m : m = Message("reject", client[t].with, client[t].id)
      OBVIOUS
    <2>2. m \in Letter /\ m.type = "reject" /\ LetterFits(t, m)
      BY <1>0, <1>6, <2>1, ShownFits DEF Message, Letter, PageState, LetterFits, Decline, Shown
    <2>3. Posts(t, m) /\ client' = [client EXCEPT ![t] = CleanedUp(t)] /\ UNCHANGED <<down, server>>
      BY <1>6, <2>1 DEF Decline, Send, Posts
    <2> QED BY <2>2, <2>3, CleanedUpFits, PageStep
  <1>7. CASE Answer(t)
    <2>1. PICK m : m = Message("answer", client[t].with, client[t].id)
      OBVIOUS
    <2>2. m \in Letter /\ m.type = "answer" /\ LetterFits(t, m)
      BY <1>0, <1>7, <2>1, ShownFits DEF Message, Letter, PageState, LetterFits, Answer, Shown
    <2>3. PICK p : p = [client[t] EXCEPT !.mode = "ongoing"]
      OBVIOUS
    <2>4. /\ p \in PageState /\ p.dial = client[t].dial /\ p.id = client[t].id /\ p.with = client[t].with
          /\ p.mode = "ongoing"
      BY <1>0, <2>3 DEF PageState, Mode
    <2>5. PageFits(t, p)
      BY <1>0, <1>7, <2>4, ShownFits DEF PageFits, Shown, Answer
    <2>6. Posts(t, m) /\ client' = [client EXCEPT ![t] = p] /\ UNCHANGED <<down, server>>
      BY <1>7, <2>1, <2>3 DEF Answer, Send, Posts
    <2> QED BY <2>2, <2>4, <2>5, <2>6, PageStep
  <1>8. CASE Offer(t)
    <2>1. PICK c : c = client[t].dial
      OBVIOUS
    <2>2. PICK m : m = Message("offer", row[c].receiver, c)
      OBVIOUS
    <2>3. PICK p : p = [client[t] EXCEPT !.dial = NoCall]
      OBVIOUS
    <2>4. /\ p \in PageState /\ p.dial = NoCall /\ p.id = client[t].id /\ p.with = client[t].with
          /\ p.mode = client[t].mode
      BY <1>0, <2>3 DEF PageState, Id
    <2>5. PageFits(t, p)
      BY <1>0, <2>4 DEF PageFits
    <2>6. Posts(t, m) /\ client' = [client EXCEPT ![t] = p] /\ UNCHANGED <<down, server>> /\ c # NoCall
      BY <1>8, <2>1, <2>2, <2>3 DEF Offer, Send, Posts
    <2>7. PICK u \in Users : Unplaced(u, c)
      BY <1>0, <2>1, <2>6 DEF PageFits
    <2>8. m \in Letter /\ m.type = "offer" /\ m.id = c /\ LetterFits(t, m)
      BY <2>2, <2>7 DEF Message, Letter, LetterFits, Unplaced, SomeUser, Id
    <2> QED BY <2>1, <2>4, <2>5, <2>6, <2>8, PageStep
  <1> QED BY <1>1, <1>2, <1>3, <1>4, <1>5, <1>6, <1>7, <1>8

LEMMA ReceivePlaces ==
  ASSUME Placing, NEW t \in Tabs, Receive(t)
  PROVE  Placing'
  <1>0. /\ client[t] \in PageState /\ PageFits(t, client[t]) /\ client \in [Tabs -> PageState]
        /\ down[t] \in Seq(Ping) /\ DownFits(t)
    BY PlacingAt DEF Placing, Base, Typed
  <1>1. PICK s : s = Head(down[t])
    OBVIOUS
  <1>2. TakesDown(t) /\ UNCHANGED server /\ OnSignal(t, s)
    BY <1>1 DEF Receive, TakesDown
  <1>3. s \in Ping /\ PingFits(t, s)
    <2>1. down[t] # <<>>
      BY <1>2 DEF TakesDown
    <2>2. s = down[t][1] /\ s \in Ping /\ 1 \in 1..Len(down[t])
      BY <1>0, <1>1, <2>1, SeqHead
    <2> QED BY <1>0, <2>2 DEF DownFits
  <1>4. CASE s.type = "incoming" /\ client[t].mode \in InCall
    <2>1. PICK m : m = Message("reject", s.from, s.id)
      OBVIOUS
    <2>2. m \in Letter /\ m.type = "reject" /\ LetterFits(t, m)
      BY <1>3, <1>4, <2>1 DEF Message, Letter, Ping, LetterFits, PingFits
    <2>3. Posts(t, m) /\ client' = [client EXCEPT ![t] = client[t]]
      BY <1>2, <1>4, <2>1 DEF OnSignal, Send, Posts
    <2> QED BY <1>0, <1>2, <2>2, <2>3, PageStep
  <1>5. CASE s.type = "incoming" /\ client[t].mode \notin InCall
    <2>1. PICK p : p = [client[t] EXCEPT !.mode = "incoming", !.with = s.from, !.id = s.id]
      OBVIOUS
    <2>2. client' = [client EXCEPT ![t] = p] /\ up' = up
      BY <1>2, <1>5, <2>1 DEF OnSignal
    <2>3. p \in PageState /\ p.dial = client[t].dial /\ p.id = s.id /\ p.with = s.from /\ p.mode = "incoming"
      BY <1>0, <1>3, <2>1 DEF PageState, Mode, Ping
    <2>4. Called(UserOf[t], s.from, s.id) /\ s.id # NoCall
      BY <1>3, <1>5 DEF PingFits, Called, NoCall
    <2>5. PageFits(t, p)
      BY <1>0, <2>3, <2>4 DEF PageFits, InCall
    <2> QED BY <1>2, <2>2, <2>3, <2>5, PageStep
  <1>6. CASE s.type = "answer"
    <2>1. PICK m : m = IF client[t].mode = "calling" THEN "ongoing" ELSE client[t].mode
      OBVIOUS
    <2>2. PICK p : p = [client[t] EXCEPT !.mode = m]
      OBVIOUS
    <2>3. client' = [client EXCEPT ![t] = p] /\ up' = up
      BY <1>2, <1>6, <2>1, <2>2 DEF OnSignal
    <2>4. m \in Mode /\ (m \in InCall => client[t].mode \in InCall) /\ (m \in Shown => client[t].mode \in Shown)
      BY <1>0, <2>1 DEF PageState, Mode, InCall, Shown
    <2>5. p \in PageState /\ p.dial = client[t].dial /\ p.id = client[t].id /\ p.with = client[t].with /\ p.mode = m
      BY <1>0, <2>2, <2>4 DEF PageState
    <2>6. PageFits(t, p)
      BY <1>0, <2>4, <2>5 DEF PageFits
    <2> QED BY <1>2, <2>3, <2>5, <2>6, PageStep
  <1>7. CASE s.type \notin {"incoming", "answer"}
    <2>1. client' = [client EXCEPT ![t] = CleanedUp(t)] /\ up' = up
      BY <1>2, <1>7 DEF OnSignal
    <2> QED BY <1>2, <2>1, CleanedUpFits, PageStep
  <1> QED BY <1>4, <1>5, <1>6, <1>7

LEMMA OpenPlaces ==
  ASSUME Placing, NEW t \in Tabs, Open(t)
  PROVE  Placing'
  <1>0. /\ client[t] \in PageState /\ PageFits(t, client[t]) /\ client \in [Tabs -> PageState]
        /\ task \in [Tabs -> Task]
    BY PlacingAt DEF Placing, Base, Typed
  <1>1. PICK p : p = [client[t] EXCEPT !.mode = "opening"]
    OBVIOUS
  <1>2. PICK k : k = [NoTask EXCEPT !.plan = <<"join", "appear", "accept">>]
    OBVIOUS
  <1>3. /\ client' = [client EXCEPT ![t] = p] /\ task' = [task EXCEPT ![t] = k]
        /\ UNCHANGED <<up, down, consumer, row>>
    BY <1>0, <1>1, <1>2 DEF Open
  <1>4. p \in PageState /\ p.dial = client[t].dial /\ p.id = client[t].id /\ p.with = client[t].with /\ p.mode = "opening"
    BY <1>0, <1>1 DEF PageState, Mode
  <1>5. PageFits(t, p)
    BY <1>0, <1>4 DEF PageFits, InCall, Shown
  <1>6. /\ k = [plan |-> <<"join", "appear", "accept">>, tells |-> "none", to |-> NoUser, id |-> NoCall,
                status |-> "none", answered |-> FALSE, read |-> NoRow]
        /\ k.plan = <<"join", "appear", "accept">> /\ k.tells = "none" /\ k.id = NoCall
    BY <1>2 DEF NoTask
  <1>7. /\ <<"join", "appear", "accept">> \in Seq(Opening \cup Finishing) /\ <<"join", "appear", "accept">> \in Silent
        /\ <<"join", "appear", "accept">> \in Seq(Connecting) /\ <<"join", "appear", "accept">> \in Seq(NotHolding)
        /\ <<"join", "appear", "accept">> # <<>> /\ Head(<<"join", "appear", "accept">>) = "join"
    BY DEF Opening, Finishing, Silent, Connecting, NotHolding
  <1>8. k \in Task /\ TaskOK(k) /\ TaskFits(t, k)
    <2>1. NoRow \in Row
      BY DEF NoRow, Row, SomeUser, CallStatus
    <2>2. k \in Task
      BY <1>6, <1>7, <2>1 DEF Task, SomeUser, Id, CallStatus
    <2>3. TaskOK(k)
      BY <1>6, <1>7 DEF TaskOK
    <2>4. TaskFits(t, k)
      <3>1. Ordered(<<"join", "appear", "accept">>)
        BY DEF Ordered
      <3> QED BY <1>6, <1>7, <3>1 DEF TaskFits, Own, AtSave
    <2> QED BY <2>2, <2>3, <2>4
  <1>9. Stable /\ \A c : StillFree(c)
    BY <1>3 DEF Stable, StillFree, Called, Unplaced
  <1>10. /\ client' \in [Tabs -> PageState] /\ client'[t] = p /\ \A s \in Tabs \ {t} : client'[s] = client[s]
         /\ task' \in [Tabs -> Task] /\ task'[t] = k /\ \A s \in Tabs \ {t} : task'[s] = task[s]
    BY <1>0, <1>3, <1>4, <1>8
  <1>11. ASSUME NEW s \in Tabs
         PROVE  UpFits(s)' /\ DownFits(s)' /\ PageFits(s, client[s])'
                /\ ConsumerFits(s, consumer[s])' /\ TaskFits(s, task[s])' /\ TaskOK(task'[s])
    <2>1. UpFits(s)' /\ DownFits(s)' /\ ConsumerFits(s, consumer[s])'
      BY <1>3, <1>9, PlacingAt, UpStill, DownStill, ConsumerStill
    <2>2. CASE s = t
      <3>1. PageFits(t, client[t])'
        BY <1>5, <1>9, <1>10, PageStays, PageIs
      <3>2. TaskFits(t, k)'
        BY <1>8, <1>9, TaskStays
      <3>3. TaskFits(t, task[t])'
        BY <1>10, <3>2, TaskIs
      <3> QED BY <1>8, <1>10, <2>1, <2>2, <3>1, <3>3
    <2>3. CASE s # t
      <3>1. client'[s] = client[s] /\ task'[s] = task[s]
        BY <1>10, <2>3
      <3>2. PageFits(s, client[s])' /\ TaskFits(s, task[s])'
        BY <1>9, <3>1, PlacingAt, PageStill, TaskStill
      <3> QED BY <2>1, <3>1, <3>2, PlacingAt
    <2> QED BY <2>2, <2>3
  <1>12. ASSUME NEW c \in CallIds PROVE OneOffer(c)'
    <2>0. OneOffer(c) /\ Typed
      BY DEF Placing, Base
    <2>1. \A s \in Tabs : client'[s].dial \in {client[s].dial, NoCall}
      BY <1>4, <1>10
    <2>2. \A s \in Tabs : task'[s].tells = "none" =>
                            task'[s].id = NoCall \/ (task[s].tells = "none" /\ task'[s].id = task[s].id)
      BY <1>6, <1>10
    <2> QED BY <1>3, <2>0, <2>1, <2>2, OffersStay
  <1>13. Typed'
    BY <1>3, <1>10 DEF Placing, Base, Typed
  <1> QED BY <1>11, <1>12, <1>13, PlacingNext

LEMMA OffersFree ==
  ASSUME Placing, NEW c \in CallIds, NEW t \in Tabs, NEW k \in Waits, NEW i \in Nat, OfferAt(c, t, k, i)
  PROVE  \E u \in Users : Unplaced(u, c)
  <1>1. c # NoCall
    BY DEF NoCall
  <1>2. CASE k = "dial"
    BY <1>1, <1>2, PlacingAt DEF OfferAt, PageFits
  <1>3. CASE k = "sent"
    <2>1. i \in 1..Len(up[t]) /\ up[t][i].type = "offer" /\ up[t][i].id = c /\ UpFits(t)
      BY <1>3, PlacingAt DEF OfferAt, Queued
    <2>2. Unplaced(up[t][i].to, c)
      BY <2>1 DEF UpFits, LetterFits
    <2> QED BY <2>2 DEF Unplaced
  <1>4. CASE k = "task"
    <2>1. Unplaced(task[t].to, c)
      BY <1>1, <1>4, PlacingAt DEF OfferAt, TaskFits
    <2> QED BY <2>1 DEF Unplaced
  <1> QED BY <1>2, <1>3, <1>4 DEF Waits

LEMMA StartPlaces ==
  ASSUME Placing, NEW t \in Tabs, NEW u \in Users, StartCall(t, u)
  PROVE  Placing'
  <1>0. client \in [Tabs -> PageState] /\ row \in [CallIds -> Row]
    BY DEF Placing, Base, Typed
  <1>1. PICK c \in CallIds :
          /\ row[c] = NoRow
          /\ row' = [row EXCEPT ![c].status = "dialled", ![c].receiver = u]
          /\ client' = [client EXCEPT ![t] = [mode |-> "calling", with |-> u, id |-> NoCall, dial |-> c]]
    BY DEF StartCall
  <1>2. UNCHANGED <<up, down, consumer, task>>
    BY DEF StartCall
  <1>3. PICK p : p = [mode |-> "calling", with |-> u, id |-> NoCall, dial |-> c]
    OBVIOUS
  <1>4. PICK r : r = [NoRow EXCEPT !.status = "dialled", !.receiver = u]
    OBVIOUS
  <1>5. r \in Row /\ r.caller = NoUser /\ r.receiver = u
    BY <1>4 DEF NoRow, Row, SomeUser, CallStatus
  <1>6. row' \in [CallIds -> Row] /\ row'[c] = r /\ \A d \in CallIds \ {c} : row'[d] = row[d]
    <2>1. row' = [row EXCEPT ![c] = r]
      BY <1>0, <1>1, <1>4
    <2> QED BY <1>0, <1>5, <2>1
  <1>7. /\ p \in PageState /\ client' \in [Tabs -> PageState] /\ client'[t] = p
        /\ \A s \in Tabs \ {t} : client'[s] = client[s]
    <2>1. p \in PageState
      BY <1>3 DEF PageState, Mode, SomeUser, Id
    <2> QED BY <1>0, <1>1, <1>3, <2>1
  <1>8. row[c].caller = NoUser /\ row[c].receiver = NoUser /\ NoUser \notin Users
    BY <1>1 DEF NoRow
  <1>9. Stable
    BY <1>6, <1>8 DEF Stable, Called
  <1>10. ASSUME NEW d PROVE StillFree(d)
    BY <1>6, <1>8 DEF StillFree, Unplaced
  <1>11. PageFits(t, p)'
    <2>1. Unplaced(u, c)'
      BY <1>5, <1>6 DEF Unplaced
    <2>2. p.mode = "calling" /\ p.with = u /\ p.id = NoCall /\ p.dial = c
      BY <1>3
    <2> QED BY <2>1, <2>2 DEF PageFits, InCall, Shown
  <1>12. ASSUME NEW s \in Tabs
         PROVE  UpFits(s)' /\ DownFits(s)' /\ PageFits(s, client[s])'
                /\ ConsumerFits(s, consumer[s])' /\ TaskFits(s, task[s])'
    <2>1. UpFits(s)' /\ DownFits(s)' /\ ConsumerFits(s, consumer[s])' /\ TaskFits(s, task[s])'
      BY <1>2, <1>9, <1>10, PlacingAt, UpStill, DownStill, ConsumerStill, TaskStill
    <2>2. PageFits(s, client[s])'
      <3>1. CASE s = t
        BY <1>7, <1>11, <3>1, PageIs
      <3>2. CASE s # t
        <4>1. client'[s] = client[s]
          BY <1>7, <3>2
        <4> QED BY <1>9, <1>10, <4>1, PlacingAt, PageStill
      <3> QED BY <3>1, <3>2
    <2> QED BY <2>1, <2>2
  <1>13. ASSUME NEW d \in CallIds PROVE OneOffer(d)'
    <2>0. OneOffer(d) /\ d # NoCall
      BY DEF Placing, NoCall
    <2>1. ASSUME NEW s \in Tabs, NEW k \in Waits, NEW i \in Nat, OfferAt(d, s, k, i)', ~(d = c /\ s = t /\ k = "dial" /\ i = 0)
          PROVE  OfferAt(d, s, k, i)
      <3>1. CASE k = "dial"
        BY <1>3, <1>7, <2>1, <3>1 DEF OfferAt
      <3>2. CASE k # "dial"
        BY <1>2, <2>1, <3>2 DEF OfferAt
      <3> QED BY <3>1, <3>2
    <2>2. CASE d # c
      BY <2>0, <2>1, <2>2 DEF OneOffer
    <2>3. CASE d = c
      <3>1. \A s \in Tabs, k \in Waits, i \in Nat : ~OfferAt(c, s, k, i)
        BY <1>8, OffersFree DEF Unplaced
      <3> QED BY <2>1, <2>3, <3>1 DEF OneOffer
    <2> QED BY <2>2, <2>3
  <1>14. Typed'
    BY <1>2, <1>6, <1>7 DEF Placing, Base, Typed
  <1>15. \A s \in Tabs : TaskOK(task'[s])
    BY <1>2, PlacingAt
  <1> QED BY <1>12, <1>13, <1>14, <1>15, PlacingNext

-----------------------------------------------------------------------------
(* The consumer takes a letter.                                            *)
Unholding == {<<"tell">>, <<"drop own", "drop peer", "tell">>}

LEMMA RestsSettle ==
  ASSUME NEW rest \in Rests
  PROVE  rest \in Seq(Settling) /\ rest # <<>> /\ (rest \in Unholding => rest \in Seq(NotHolding))
  <1>1. /\ <<"hold own", "hold peer", "tell">> \in Seq(Settling)
        /\ <<"tell">> \in Seq(Settling)
        /\ <<"drop own", "drop peer", "tell">> \in Seq(Settling)
    BY DEF Settling, Finishing
  <1>2. <<"tell">> \in Seq(NotHolding)
    BY DEF NotHolding, Finishing
  <1>3. <<"drop own", "drop peer", "tell">> \in Seq(NotHolding)
    BY DEF NotHolding, Finishing
  <1>4. rest \in Seq(Settling)
    BY <1>1 DEF Rests
  <1>5. rest \in Unholding => rest \in Seq(NotHolding)
    BY <1>2, <1>3 DEF Unholding
  <1>6. <<"hold own", "hold peer", "tell">> # <<>> /\ <<"tell">> # <<>> /\ <<"drop own", "drop peer", "tell">> # <<>>
    OBVIOUS
  <1>7. rest # <<>>
    BY <1>6 DEF Rests
  <1> QED BY <1>4, <1>5, <1>7

LEMMA FinalizeShape ==
  ASSUME NEW id, NEW rest \in Rests
  PROVE  /\ Finalize(id) \o rest # <<>> /\ Head(Finalize(id) \o rest) # "save" /\ Ordered(Finalize(id) \o rest)
         /\ rest \in Unholding => Finalize(id) \o rest \in Seq(NotHolding)
  <1>1. rest \in Seq(Settling) /\ rest # <<>> /\ (rest \in Unholding => rest \in Seq(NotHolding))
    BY RestsSettle
  <1>2. \A i \in 1..Len(rest) : rest[i] \in Settling /\ rest[i] \notin {"read", "save"}
    BY <1>1 DEF Settling
  <1>3. CASE id = NoCall
    <2>1. Finalize(id) \o rest = rest
      BY <1>1, <1>3 DEF Finalize
    <2>2. Head(rest) # "save" /\ Ordered(rest)
      BY <1>1, <1>2, SeqHead DEF Ordered
    <2> QED BY <1>1, <2>1, <2>2
  <1>4. CASE id # NoCall
    <2>1. PICK q : q = <<"read", "save">> \o rest
      OBVIOUS
    <2>2. Finalize(id) \o rest = q
      BY <1>4, <2>1 DEF Finalize
    <2>3. /\ q \in Seq(Settling \cup {"read", "save"}) /\ Len(q) = Len(rest) + 2 /\ q[1] = "read" /\ q[2] = "save"
          /\ \A i \in 3..Len(q) : q[i] = rest[i - 2]
      BY <1>1, <2>1
    <2>4. q # <<>> /\ Head(q) = "read"
      BY <2>3
    <2>5. Ordered(q)
      <3>1. \A i \in 3..Len(q) : q[i] \notin {"read", "save"}
        BY <1>1, <1>2, <2>3
      <3> QED BY <1>1, <2>3, <3>1 DEF Ordered
    <2>6. rest \in Unholding => q \in Seq(NotHolding)
      <3>1. <<"read", "save">> \in Seq(NotHolding)
        BY DEF NotHolding, Finishing
      <3> QED BY <1>1, <2>1, <3>1
    <2> QED BY <2>2, <2>4, <2>5, <2>6
  <1> QED BY <1>3, <1>4

LEMMA HandlerFits ==
  ASSUME Placing, NEW t \in Tabs, NEW m \in Letter, LetterFits(t, m)
  PROVE  TaskFits(t, Handler(t, m)) /\ (Handler(t, m).tells = "none" => m.type \in {"offer", "close"})
         /\ (Handler(t, m).tells = "none" /\ m.type = "offer" => Handler(t, m).id = m.id)
         /\ (Handler(t, m).tells = "none" /\ m.type = "close" => Handler(t, m).id = NoCall)
  <1>1. PICK k : k = Handler(t, m)
    OBVIOUS
  <1>2. PICK c : c = consumer[t]
    OBVIOUS
  <1>3. ConsumerFits(t, c)
    BY <1>2, PlacingAt
  <1>4. CASE m.type = "offer"
    <2>0. PICK plan : plan = <<"reach", "free", "ring">>
      OBVIOUS
    <2>1. k = Marking(plan, "none", m.to, m.id, "none", FALSE)
      BY <1>1, <1>4, <2>0 DEF Handler, NoTask, Marking
    <2>2. k.plan = plan /\ k.tells = "none" /\ k.to = m.to /\ k.id = m.id
      BY <2>1 DEF Marking
    <2>3. Ordered(plan) /\ plan \in Seq(NotHolding) /\ plan # <<>> /\ Head(plan) = "reach"
      <3>1. Ordered(<<"reach", "free", "ring">>)
        BY DEF Ordered
      <3>2. <<"reach", "free", "ring">> \in Seq(NotHolding)
        BY DEF NotHolding, Opening
      <3> QED BY <2>0, <3>1, <3>2
    <2>4. Unplaced(m.to, m.id)
      BY <1>4 DEF LetterFits
    <2>5. TaskFits(t, k)
      BY <2>2, <2>3, <2>4 DEF TaskFits, Own, AtSave
    <2> QED BY <1>1, <1>4, <2>2, <2>5
  <1>5. ASSUME NEW rest \in Rests, NEW tells \in {"answer", "rejected", "ended"}, NEW status, NEW answered \in BOOLEAN,
               k = Marking(Finalize(m.id) \o rest, tells, m.to, m.id, status, answered),
               m.id # NoCall => Called(UserOf[t], m.to, m.id),
               tells = "answer" => answered /\ m.id # NoCall,
               tells # "answer" => rest \in Unholding
        PROVE  TaskFits(t, k) /\ k.tells # "none"
    <2>1. PICK plan : plan = Finalize(m.id) \o rest
      OBVIOUS
    <2>2. plan # <<>> /\ Head(plan) # "save" /\ Ordered(plan) /\ (rest \in Unholding => plan \in Seq(NotHolding))
      BY <2>1, FinalizeShape
    <2>3. k.plan = plan /\ k.tells = tells /\ k.to = m.to /\ k.id = m.id /\ k.answered = answered
      BY <1>5, <2>1 DEF Marking
    <2> QED BY <1>5, <2>2, <2>3 DEF TaskFits, AtSave, Parties
  <1>6. CASE m.type = "answer"
    <2>1. k = Marking(Finalize(m.id) \o <<"hold own", "hold peer", "tell">>, "answer", m.to, m.id, "ongoing", TRUE)
      BY <1>1, <1>6 DEF Handler, Marking, NoTask
    <2>2. Called(UserOf[t], m.to, m.id) /\ m.id # NoCall
      BY <1>6 DEF LetterFits, Called, NoCall
    <2>3. <<"hold own", "hold peer", "tell">> \in Rests
      BY DEF Rests
    <2> QED BY <1>1, <1>5, <2>1, <2>2, <2>3
  <1>7. CASE m.type = "reject"
    <2>1. k = Marking(Finalize(m.id) \o <<"tell">>, "rejected", m.to, m.id, "rejected", FALSE)
      BY <1>1, <1>7 DEF Handler, Marking, NoTask
    <2>2. Called(UserOf[t], m.to, m.id)
      BY <1>7 DEF LetterFits
    <2>3. <<"tell">> \in Rests /\ <<"tell">> \in Unholding
      BY DEF Rests, Unholding
    <2> QED BY <1>1, <1>5, <2>1, <2>2, <2>3
  <1>8. CASE m.type = "end"
    <2>1. k = Marking(Finalize(m.id) \o <<"drop own", "drop peer", "tell">>, "ended", m.to, m.id, "ended", FALSE)
      BY <1>1, <1>8 DEF Handler, Marking, NoTask
    <2>2. m.id # NoCall => Called(UserOf[t], m.to, m.id)
      BY <1>8 DEF LetterFits
    <2>3. <<"drop own", "drop peer", "tell">> \in Rests /\ <<"drop own", "drop peer", "tell">> \in Unholding
      BY DEF Rests, Unholding
    <2> QED BY <1>1, <1>5, <2>1, <2>2, <2>3
  <1>9. CASE m.type = "close" /\ c.active # NoCall /\ c.peer # NoUser
    <2>1. PICK plan : plan = <<"read", "save", "tell", "drop own", "drop peer", "vanish", "leave">>
      OBVIOUS
    <2>2. k = Marking(plan, "ended", c.peer, c.active, "ended", TRUE)
      BY <1>1, <1>2, <1>9, <2>1 DEF Handler, Marking, NoTask
    <2>3. k.plan = plan /\ k.tells = "ended" /\ k.to = c.peer /\ k.id = c.active /\ k.answered = TRUE
      BY <2>2 DEF Marking
    <2>4. Ordered(plan) /\ plan \in Seq(NotHolding) /\ plan # <<>> /\ Head(plan) = "read"
      <3>1. /\ Len(plan) = 7 /\ plan[1] = "read" /\ plan[2] = "save" /\ plan[3] = "tell"
            /\ plan[4] = "drop own" /\ plan[5] = "drop peer" /\ plan[6] = "vanish" /\ plan[7] = "leave"
        BY <2>1
      <3>2. Ordered(plan)
        <4>1. ASSUME NEW i \in 1..Len(plan)
              PROVE  (plan[i] = "read" => i = 1) /\ (plan[i] = "save" => i = 1 \/ (i = 2 /\ plan[1] = "read"))
          <5>0. i \in 1..7
            BY <3>1
          <5>1. i = 1 \/ i = 2 \/ i = 3 \/ i = 4 \/ i = 5 \/ i = 6 \/ i = 7
            BY <5>0
          <5> QED BY <3>1, <5>1
        <4> QED BY <4>1 DEF Ordered
      <3>3. <<"read", "save", "tell", "drop own", "drop peer", "vanish", "leave">> \in Seq(NotHolding)
        BY DEF NotHolding, Finishing
      <3>4. plan \in Seq(NotHolding) /\ plan # <<>>
        BY <2>1, <3>1, <3>3
      <3>5. Head(plan) = plan[1]
        BY <3>4, SeqHead
      <3> QED BY <3>1, <3>2, <3>4, <3>5
    <2>5. Parties(UserOf[t], c.peer, c.active)
      BY <1>3, <1>9 DEF ConsumerFits
    <2>6. TaskFits(t, k)
      BY <2>3, <2>4, <2>5 DEF TaskFits, Own, AtSave
    <2> QED BY <1>1, <2>3, <2>6
  <1>10. CASE m.type = "close" /\ ~(c.active # NoCall /\ c.peer # NoUser)
    <2>0. PICK plan : plan = <<"vanish", "leave">>
      OBVIOUS
    <2>1. k = Marking(plan, "none", NoUser, NoCall, "none", FALSE)
      BY <1>1, <1>2, <1>10, <2>0 DEF Handler, NoTask, Marking
    <2>2. k.plan = plan /\ k.tells = "none" /\ k.id = NoCall
      BY <2>1 DEF Marking
    <2>3. /\ Ordered(plan) /\ plan \in Seq(NotHolding) /\ plan \in Seq(Connecting) /\ Head(plan) = "vanish"
      <3>1. Ordered(plan)
        BY <2>0 DEF Ordered
      <3>2. plan \in Seq(NotHolding)
        BY <2>0 DEF NotHolding, Finishing
      <3>3. plan \in Seq(Connecting)
        BY <2>0 DEF Connecting
      <3> QED BY <2>0, <3>1, <3>2, <3>3
    <2>4. TaskFits(t, k)
      BY <2>2, <2>3 DEF TaskFits, Own, AtSave
    <2> QED BY <1>1, <1>10, <2>2, <2>4
  <1> QED BY <1>4, <1>6, <1>7, <1>8, <1>9, <1>10 DEF Letter

LEMMA RememberFits ==
  ASSUME Placing, NEW t \in Tabs, NEW m \in Letter, LetterFits(t, m)
  PROVE  Remember(t, m) \in Consumer /\ ConsumerFits(t, Remember(t, m))
  <1>0. consumer[t] \in Consumer /\ ConsumerFits(t, consumer[t]) /\ m.id \in Id /\ m.to \in SomeUser
    BY PlacingAt DEF Letter
  <1>1. PICK k : k = Remember(t, m)
    OBVIOUS
  <1>2. CASE m.type = "answer"
    <2>1. k = [consumer[t] EXCEPT !.active = m.id, !.peer = m.to]
      BY <1>1, <1>2 DEF Remember
    <2>2. k \in Consumer /\ k.active = m.id /\ k.peer = m.to
      BY <1>0, <2>1 DEF Consumer
    <2>3. Called(UserOf[t], m.to, m.id)
      BY <1>2 DEF LetterFits
    <2> QED BY <1>1, <2>2, <2>3 DEF ConsumerFits, Parties
  <1>3. CASE m.type \in {"reject", "end"}
    <2>1. k = [consumer[t] EXCEPT !.active = NoCall, !.peer = NoUser]
      BY <1>1, <1>3 DEF Remember
    <2>2. k \in Consumer /\ k.active = NoCall
      BY <1>0, <2>1 DEF Consumer, Id, SomeUser
    <2> QED BY <1>1, <2>2 DEF ConsumerFits
  <1>4. CASE m.type \notin {"answer", "reject", "end"}
    BY <1>0, <1>4 DEF Remember
  <1> QED BY <1>2, <1>3, <1>4

LEMMA HandlePlaces ==
  ASSUME Placing, NEW t \in Tabs, Handle(t)
  PROVE  Placing'
  <1>0. /\ up \in [Tabs -> Seq(Letter)] /\ task \in [Tabs -> Task] /\ consumer \in [Tabs -> Consumer]
        /\ up[t] \in Seq(Letter) /\ UpFits(t) /\ Typed
    BY PlacingAt DEF Placing, Base, Typed
  <1>1. PICK m : m = Head(up[t])
    OBVIOUS
  <1>2. PICK k : k = Handler(t, m)
    OBVIOUS
  <1>3. PICK q : q = Remember(t, m)
    OBVIOUS
  <1>4. /\ up[t] # <<>> /\ task[t] = NoTask /\ task' = [task EXCEPT ![t] = k] /\ consumer' = [consumer EXCEPT ![t] = q]
        /\ up' = [up EXCEPT ![t] = Tail(@)] /\ UNCHANGED <<client, down, row>>
    BY <1>1, <1>2, <1>3 DEF Handle
  <1>5. /\ m = up[t][1] /\ m \in Letter /\ Tail(up[t]) \in Seq(Letter) /\ 1 \in 1..Len(up[t])
        /\ Len(Tail(up[t])) = Len(up[t]) - 1
        /\ \A i \in 1..Len(Tail(up[t])) : i + 1 \in 1..Len(up[t]) /\ Tail(up[t])[i] = up[t][i + 1]
    BY <1>0, <1>1, <1>4, SeqHead
  <1>6. LetterFits(t, m)
    BY <1>0, <1>5 DEF UpFits
  <1>7. k \in Task /\ TaskOK(k) /\ TaskFits(t, k)
    BY <1>0, <1>2, <1>5, <1>6, HandlerFine, HandlerFits DEF Follows
  <1>8. k.tells = "none" => k.id = NoCall \/ (m.type = "offer" /\ m.id = k.id)
    BY <1>2, <1>5, <1>6, HandlerFits
  <1>9. q \in Consumer /\ ConsumerFits(t, q)
    BY <1>3, <1>5, <1>6, RememberFits
  <1>10. /\ up' \in [Tabs -> Seq(Letter)] /\ up'[t] = Tail(up[t]) /\ \A s \in Tabs \ {t} : up'[s] = up[s]
         /\ task' \in [Tabs -> Task] /\ task'[t] = k /\ \A s \in Tabs \ {t} : task'[s] = task[s]
         /\ consumer' \in [Tabs -> Consumer] /\ consumer'[t] = q /\ \A s \in Tabs \ {t} : consumer'[s] = consumer[s]
    BY <1>0, <1>4, <1>5, <1>7, <1>9
  <1>11. Stable /\ \A c : StillFree(c)
    BY <1>4 DEF Stable, StillFree, Called, Unplaced
  <1>12. ASSUME NEW s \in Tabs
         PROVE  UpFits(s)' /\ DownFits(s)' /\ PageFits(s, client[s])'
                /\ ConsumerFits(s, consumer[s])' /\ TaskFits(s, task[s])' /\ TaskOK(task'[s])
    <2>1. DownFits(s)' /\ PageFits(s, client[s])'
      BY <1>4, <1>11, PlacingAt, DownStill, PageStill
    <2>2. CASE s = t
      <3>1. UpFits(t)'
        BY <1>0, <1>4, <1>10, <1>11, UpShifted
      <3>2. TaskFits(t, k)' /\ ConsumerFits(t, q)'
        BY <1>7, <1>9, <1>11, TaskStays, ConsumerStays
      <3>3. TaskFits(t, task[t])' /\ ConsumerFits(t, consumer[t])'
        BY <1>10, <3>2, TaskIs, ConsumerIs
      <3> QED BY <1>7, <1>10, <2>1, <2>2, <3>1, <3>3
    <2>3. CASE s # t
      <3>1. up'[s] = up[s] /\ task'[s] = task[s] /\ consumer'[s] = consumer[s]
        BY <1>10, <2>3
      <3>2. UpFits(s)' /\ TaskFits(s, task[s])' /\ ConsumerFits(s, consumer[s])'
        BY <1>11, <3>1, PlacingAt, UpStill, TaskStill, ConsumerStill
      <3> QED BY <2>1, <3>1, <3>2, PlacingAt
    <2> QED BY <2>2, <2>3
  <1>13. ASSUME NEW c \in CallIds PROVE OneOffer(c)'
    <2>0. OneOffer(c) /\ c # NoCall
      BY DEF Placing, NoCall
    <2> DEFINE Was(s, x, n) == IF s = t /\ x = "sent" THEN <<"sent", n + 1>>
                               ELSE IF s = t /\ x = "task" THEN <<"sent", 1>> ELSE <<x, n>>
    <2>1. ASSUME NEW s \in Tabs, NEW x \in Waits, NEW n \in Nat, OfferAt(c, s, x, n)'
          PROVE  /\ \E y \in Waits, j \in Nat : <<y, j>> = Was(s, x, n) /\ OfferAt(c, s, y, j)
                 /\ s = t /\ x = "sent" => n # 0
                 /\ x = "task" => n = 0
      <3>1. CASE x = "dial"
        BY <1>4, <2>1, <3>1 DEF OfferAt, Waits
      <3>2. CASE s # t
        BY <1>4, <1>10, <2>1, <3>2 DEF OfferAt
      <3>3. CASE s = t /\ x = "sent"
        <4>1. n \in 1..Len(Tail(up[t])) /\ Tail(up[t])[n].id = c /\ Tail(up[t])[n].type = "offer"
          BY <1>10, <2>1, <3>3 DEF OfferAt, Queued
        <4>2. OfferAt(c, t, "sent", n + 1)
          BY <1>5, <4>1 DEF OfferAt, Queued
        <4> QED BY <3>3, <4>1, <4>2
      <3>4. CASE s = t /\ x = "task"
        <4>1. n = 0 /\ k.tells = "none" /\ k.id = c
          BY <1>10, <2>1, <3>4 DEF OfferAt
        <4>2. OfferAt(c, t, "sent", 1)
          BY <1>5, <1>8, <2>0, <4>1 DEF OfferAt, Queued
        <4> QED BY <3>4, <4>1, <4>2 DEF Waits
      <3> QED BY <3>1, <3>2, <3>3, <3>4 DEF Waits
    <2>2. ASSUME NEW s \in Tabs, NEW x \in Waits, NEW n \in Nat, OfferAt(c, s, x, n)',
                 NEW u \in Tabs, NEW y \in Waits, NEW j \in Nat, OfferAt(c, u, y, j)'
          PROVE  s = u /\ x = y /\ n = j
      <3> HIDE DEF Was
      <3>1. PICK x0 \in Waits, n0 \in Nat : <<x0, n0>> = Was(s, x, n) /\ OfferAt(c, s, x0, n0)
        BY <2>1, <2>2
      <3>2. PICK y0 \in Waits, j0 \in Nat : <<y0, j0>> = Was(u, y, j) /\ OfferAt(c, u, y0, j0)
        BY <2>1, <2>2
      <3>3. s = u /\ x0 = y0 /\ n0 = j0
        BY <2>0, <3>1, <3>2 DEF OneOffer
      <3>4. /\ s = t /\ x = "sent" => n # 0
            /\ u = t /\ y = "sent" => j # 0
            /\ x = "task" => n = 0
            /\ y = "task" => j = 0
        BY <2>1, <2>2
      <3>5. ~(s = t /\ x0 = "task")
        <4>1. ~OfferAt(c, t, "task", 0) /\ \A i \in Nat : ~OfferAt(c, t, "task", i)
          BY <1>4, <2>0 DEF OfferAt, NoTask
        <4> QED BY <3>1, <4>1
      <3> QED BY <3>1, <3>2, <3>3, <3>4, <3>5 DEF Was, Waits
    <2> QED BY <2>2 DEF OneOffer
  <1>14. Typed'
    BY <1>4, <1>10 DEF Placing, Base, Typed
  <1> QED BY <1>12, <1>13, <1>14, PlacingNext

-----------------------------------------------------------------------------
(* The steps of a handler.                                                 *)
LEMMA OrderedTail ==
  ASSUME NEW S, NEW q \in Seq(S), q # <<>>, Ordered(q)
  PROVE  Ordered(Tail(q)) /\ (Tail(q) # <<>> /\ Head(Tail(q)) = "save" => Head(q) = "read")
  <1>1. /\ Len(q) \in Nat /\ Len(q) >= 1 /\ Head(q) = q[1] /\ Tail(q) \in Seq(S) /\ Len(Tail(q)) = Len(q) - 1
        /\ \A i \in 1..Len(Tail(q)) : i + 1 \in 1..Len(q) /\ Tail(q)[i] = q[i + 1]
    BY SeqHead
  <1>2. Ordered(Tail(q))
    BY <1>1 DEF Ordered
  <1>3. ASSUME Tail(q) # <<>>, Head(Tail(q)) = "save" PROVE Head(q) = "read"
    <2>1. Head(Tail(q)) = Tail(q)[1] /\ 1 \in 1..Len(Tail(q))
      BY <1>1, <1>3, SeqHead
    <2>2. 2 \in 1..Len(q) /\ q[2] = "save"
      BY <1>1, <1>3, <2>1
    <2> QED BY <1>1, <2>2 DEF Ordered
  <1> QED BY <1>2, <1>3

Heir(k, l, r) ==
  /\ k.plan = Tail(l.plan) /\ k.tells = l.tells /\ k.to = l.to /\ k.id = l.id /\ k.status = l.status
  /\ k.answered = l.answered /\ k.read = r

LEMMA TaskNext ==
  ASSUME Placing, NEW t \in Tabs, NEW step, At(t, step), NEW r \in Row, step = "read" => r = row[task[t].id],
         Advance(t, [task[t] EXCEPT !.read = r])
  PROVE  \E k \in Task : /\ task' = [task EXCEPT ![t] = k] /\ TaskOK(k) /\ TaskFits(t, k)
                         /\ k = NoTask \/ Heir(k, task[t], r)
  <1>0. task[t] \in Task /\ TaskOK(task[t]) /\ TaskFits(t, task[t]) /\ task[t].plan # <<>> /\ Head(task[t].plan) = step
    BY PlacingAt DEF At
  <1>1. CASE Done(t)
    BY <1>1, NoTaskFine, NoTaskFits DEF Done
  <1>2. CASE ~Done(t)
    <2>0. PICK l : l = task[t]
      OBVIOUS
    <2>1. PICK k : k = [l EXCEPT !.plan = Tail(l.plan), !.read = r]
      OBVIOUS
    <2>2. task' = [task EXCEPT ![t] = k]
      <3>1. [[l EXCEPT !.read = r] EXCEPT !.plan = Tail(l.plan)] = k
        BY <1>0, <2>0, <2>1 DEF Task
      <3>2. [l EXCEPT !.read = r].plan = l.plan
        BY <1>0, <2>0 DEF Task
      <3> QED BY <1>2, <2>0, <3>1, <3>2 DEF Advance
    <2>3. \A S : l.plan \in Seq(S) => Tail(l.plan) \in Seq(S)
      BY <1>0, <2>0, SeqTail
    <2>4. Heir(k, l, r)
      BY <1>0, <2>0, <2>1 DEF Heir, Task
    <2>5. k \in Task
      <3>1. Tail(l.plan) \in Seq(Opening \cup Finishing)
        BY <1>0, <2>0, <2>3 DEF Task
      <3> QED BY <1>0, <2>0, <2>1, <3>1 DEF Task
    <2>6. TaskOK(k)
      <3>1. CASE l.tells = "none" /\ l.plan \in Silent
        BY <3>1, <2>3, <2>4 DEF TaskOK, Silent, Heir
      <3>2. CASE ~(l.tells = "none" /\ l.plan \in Silent)
        BY <1>0, <2>0, <3>2, <2>3, <2>4 DEF TaskOK, Heir
      <3> QED BY <3>1, <3>2
    <2>7. Ordered(k.plan) /\ (AtSave(k) => step = "read")
      <3>1. l.plan \in Seq(Opening \cup Finishing) /\ Ordered(l.plan) /\ l.plan # <<>>
        BY <1>0, <2>0 DEF Task, TaskFits
      <3>2. Ordered(Tail(l.plan)) /\ (Tail(l.plan) # <<>> /\ Head(Tail(l.plan)) = "save" => Head(l.plan) = "read")
        BY <3>1, OrderedTail
      <3> QED BY <1>0, <2>0, <2>4, <3>2 DEF AtSave, Heir
    <2>8. AtSave(k) => k.read.caller = row[k.id].caller /\ k.read.receiver = row[k.id].receiver
      BY <2>0, <2>4, <2>7 DEF Heir
    <2>9. Own(k) <=> Own(l)
      BY <2>4 DEF Own, Heir
    <2>10. TaskFits(t, k)
      BY <1>0, <2>0, <2>3, <2>4, <2>7, <2>8, <2>9 DEF TaskFits, Heir
    <2> QED BY <2>0, <2>2, <2>4, <2>5, <2>6, <2>10
  <1> QED BY <1>1, <1>2

\* A step that keeps the parties of every call.
LEMMA ServeStep ==
  ASSUME Placing, NEW t \in Tabs, NEW step, At(t, step), NEW r \in Row, step = "read" => r = row[task[t].id],
         Advance(t, [task[t] EXCEPT !.read = r]), up' = up,
         row' \in [CallIds -> Row], \A c \in CallIds : SameParties(c),
         client' \in [Tabs -> PageState],
         \A s \in Tabs : client'[s] = client[s] \/ client'[s] = [client[s] EXCEPT !.mode = "idle"],
         consumer' \in [Tabs -> Consumer],
         \A s \in Tabs : \/ consumer'[s].active = NoCall
                         \/ consumer'[s].active = consumer[s].active /\ consumer'[s].peer = consumer[s].peer,
         down' \in [Tabs -> Seq(Ping)],
         \A s \in Tabs : \/ down'[s] = down[s]
                         \/ \E x \in Ping : x.from \in Users /\ x.type # "incoming" /\ down'[s] = Append(down[s], x)
  PROVE  Placing'
  <1>0. task \in [Tabs -> Task] /\ Typed
    BY DEF Placing, Base, Typed
  <1>1. PICK k \in Task : /\ task' = [task EXCEPT ![t] = k] /\ TaskOK(k) /\ TaskFits(t, k)
                          /\ k = NoTask \/ Heir(k, task[t], r)
    BY TaskNext
  <1>2. Stable /\ \A c \in CallIds : StillFree(c)
    BY PartiesStay
  <1>3. \A c : StillFree(c)
    BY <1>2 DEF StillFree, Unplaced
  <1>4. task' \in [Tabs -> Task] /\ task'[t] = k /\ \A s \in Tabs \ {t} : task'[s] = task[s]
    BY <1>0, <1>1
  <1>5. ASSUME NEW s \in Tabs PROVE TaskFits(s, task[s])' /\ TaskOK(task'[s])
    <2>1. CASE s = t
      <3>1. TaskFits(t, k)'
        BY <1>1, <1>2, <1>3, TaskStays
      <3> QED BY <1>1, <1>4, <2>1, <3>1, TaskIs
    <2>2. CASE s # t
      BY <1>2, <1>3, <1>4, <2>2, PlacingAt, TaskStill
    <2> QED BY <2>1, <2>2
  <1>6. ASSUME NEW s \in Tabs PROVE PageFits(s, client[s])'
    <2>1. CASE client'[s] = client[s]
      BY <1>2, <1>3, <2>1, PlacingAt, PageStill
    <2>2. CASE client'[s] = [client[s] EXCEPT !.mode = "idle"]
      <3>1. PICK p : p = [client[s] EXCEPT !.mode = "idle"]
        OBVIOUS
      <3>2. client[s] \in PageState /\ PageFits(s, client[s])
        BY PlacingAt
      <3>3. p.mode = "idle" /\ p.id = client[s].id /\ p.with = client[s].with /\ p.dial = client[s].dial
        BY <3>1, <3>2 DEF PageState
      <3>4. PageFits(s, p)
        BY <3>2, <3>3 DEF PageFits, InCall, Shown
      <3>5. PageFits(s, p)'
        BY <1>2, <1>3, <3>4, PageStays
      <3> QED BY <2>2, <3>1, <3>5, PageIs
    <2> QED BY <2>1, <2>2
  <1>7. ASSUME NEW s \in Tabs PROVE ConsumerFits(s, consumer[s])'
    <2>1. PICK q : q = consumer'[s]
      OBVIOUS
    <2>2. ConsumerFits(s, q)
      BY <2>1, PlacingAt DEF ConsumerFits
    <2>3. ConsumerFits(s, q)'
      BY <1>2, <2>2, ConsumerStays
    <2> QED BY <2>1, <2>3, ConsumerIs
  <1>8. ASSUME NEW s \in Tabs PROVE DownFits(s)'
    <2>1. CASE down'[s] = down[s]
      BY <1>2, <2>1, PlacingAt, DownStill
    <2>2. ASSUME NEW x \in Ping, x.from \in Users, x.type # "incoming", down'[s] = Append(down[s], x)
          PROVE  DownFits(s)'
      <3>1. PingFits(s, x)'
        BY <2>2 DEF PingFits
      <3> QED BY <1>2, <2>2, <3>1, PlacingAt, DownPosted
    <2> QED BY <2>1, <2>2
  <1>9. \A s \in Tabs : UpFits(s)'
    BY <1>2, <1>3, PlacingAt, UpStill
  <1>10. ASSUME NEW c \in CallIds PROVE OneOffer(c)'
    <2>1. OneOffer(c)
      BY DEF Placing
    <2>2. \A s \in Tabs : client'[s].dial \in {client[s].dial, NoCall}
      BY PlacingAt DEF PageState
    <2>3. \A s \in Tabs : task'[s].tells = "none" =>
                            task'[s].id = NoCall \/ (task[s].tells = "none" /\ task'[s].id = task[s].id)
      <3>1. k.tells = "none" => k.id = NoCall \/ (task[t].tells = "none" /\ k.id = task[t].id)
        BY <1>1 DEF Heir, NoTask
      <3> QED BY <1>4, <3>1
    <2> QED BY <1>0, <2>1, <2>2, <2>3, OffersStay
  <1>11. Typed'
    BY <1>0, <1>4 DEF Typed
  <1> QED BY <1>5, <1>6, <1>7, <1>8, <1>9, <1>10, <1>11, PlacingNext

LEMMA SameTask ==
  ASSUME Placing, NEW t \in Tabs
  PROVE  task[t].read \in Row /\ task[t] = [task[t] EXCEPT !.read = task[t].read]
  <1>1. task[t] \in Task
    BY PlacingAt
  <1> QED BY <1>1 DEF Task

\* Steps that leave rows, pages and queues alone.
LEMMA QuietStep ==
  ASSUME Placing, NEW t \in Tabs, NEW step, At(t, step), step # "read", Advance(t, task[t]),
         UNCHANGED <<client, up, down, row>>, consumer' \in [Tabs -> Consumer],
         \A s \in Tabs : \/ consumer'[s].active = NoCall
                         \/ consumer'[s].active = consumer[s].active /\ consumer'[s].peer = consumer[s].peer
  PROVE  Placing'
  <1>1. task[t].read \in Row /\ task[t] = [task[t] EXCEPT !.read = task[t].read]
    BY SameTask
  <1>2. PICK r \in Row : r = task[t].read
    BY <1>1
  <1>3. Advance(t, [task[t] EXCEPT !.read = r])
    BY <1>1, <1>2
  <1>4. /\ client' \in [Tabs -> PageState] /\ down' \in [Tabs -> Seq(Ping)] /\ row' \in [CallIds -> Row]
        /\ \A c \in CallIds : SameParties(c)
    BY DEF Placing, Base, Typed, SameParties
  <1> QED BY <1>3, <1>4, ServeStep

\* The row of the call an offer handler holds gets its caller.
LEMMA CallPlaced ==
  ASSUME Placing, NEW t \in Tabs, NEW step \in {"reach", "free", "ring"}, At(t, step), Done(t),
         NEW r \in Row, r.caller = UserOf[t], r.receiver = task[t].to, row' = [row EXCEPT ![task[t].id] = r],
         up' = up, client' = client, consumer' \in [Tabs -> Consumer],
         \A s \in Tabs : \/ consumer'[s] = consumer[s]
                         \/ s = t /\ consumer'[s].active = task[t].id /\ consumer'[s].peer = task[t].to,
         down' \in [Tabs -> Seq(Ping)],
         \A s \in Tabs : \/ down'[s] = down[s]
                         \/ \E x \in Ping : /\ x.from \in Users /\ down'[s] = Append(down[s], x)
                                            /\ x.type = "incoming" =>
                                                 x.from = UserOf[t] /\ x.id = task[t].id /\ UserOf[s] = task[t].to
  PROVE  Placing'
  <1>0. /\ task[t] \in Task /\ TaskOK(task[t]) /\ TaskFits(t, task[t]) /\ Typed
        /\ row \in [CallIds -> Row] /\ task \in [Tabs -> Task]
    BY PlacingAt DEF Placing, Base, Typed
  <1>1. task[t].tells = "none" /\ ~(task[t].plan \in Seq(Connecting))
    <2>1. step \in Opening /\ step \notin Connecting
      BY DEF Opening, Connecting
    <2> QED BY <1>0, <2>1, StepOf, HeadIn
  <1>2. PICK c \in CallIds : c = task[t].id
    BY <1>0, <1>1 DEF TaskFits, Unplaced
  <1>3. PICK u \in Users : u = task[t].to
    BY <1>0, <1>1 DEF TaskFits, Unplaced
  <1>4. row[c].receiver = u /\ row[c].caller = NoUser
    BY <1>0, <1>1, <1>2, <1>3 DEF TaskFits, Unplaced
  <1>5. row' \in [CallIds -> Row] /\ row'[c] = r /\ \A d \in CallIds \ {c} : row'[d] = row[d]
    BY <1>0, <1>2
  <1>6. Called(u, UserOf[t], c)'
    BY <1>3, <1>5 DEF Called
  <1>7. Stable
    BY <1>4, <1>5 DEF Stable, Called
  <1>8. ASSUME NEW d, d # c PROVE StillFree(d)
    BY <1>5, <1>8 DEF StillFree, Unplaced
  <1>9. ASSUME NEW s \in Tabs, NEW k \in Waits, NEW i \in Nat, OfferAt(c, s, k, i)
        PROVE  s = t /\ k = "task"
    <2>1. OfferAt(c, t, "task", 0) /\ OneOffer(c) /\ "task" \in Waits /\ 0 \in Nat
      BY <1>1, <1>2 DEF OfferAt, Placing, Waits
    <2> QED BY <1>9, <2>1 DEF OneOffer
  <1>10. task' \in [Tabs -> Task] /\ task'[t] = NoTask /\ \A s \in Tabs \ {t} : task'[s] = task[s]
    BY <1>0, NoTaskFine DEF Done
  <1>11. ASSUME NEW s \in Tabs PROVE UpFits(s)'
    <2>1. ASSUME NEW i \in 1..Len(up[s]), up[s][i].type = "offer" PROVE up[s][i].id # c
      <3>1. up[s] \in Seq(Letter)
        BY PlacingAt
      <3>2. i \in Nat
        BY <3>1
      <3>3. up[s][i].id = c => OfferAt(c, s, "sent", i)
        BY <2>1 DEF OfferAt, Queued
      <3>4. "sent" \in Waits /\ "sent" # "task"
        BY DEF Waits
      <3> QED BY <1>9, <3>2, <3>3, <3>4
    <2>2. \A i \in 1..Len(up[s]) : up[s][i].type = "offer" => StillFree(up[s][i].id)
      BY <1>8, <2>1
    <2> QED BY <1>7, <2>2, PlacingAt, UpStill
  <1>12. ASSUME NEW s \in Tabs PROVE PageFits(s, client[s])'
    <2>1. client[s].dial # c
      <3>1. client[s].dial = c => OfferAt(c, s, "dial", 0)
        BY DEF OfferAt
      <3>2. "dial" \in Waits /\ 0 \in Nat /\ "dial" # "task"
        BY DEF Waits
      <3> QED BY <1>9, <3>1, <3>2
    <2> QED BY <1>7, <1>8, <2>1, PlacingAt, PageStill
  <1>13. ASSUME NEW s \in Tabs PROVE TaskFits(s, task[s])' /\ TaskOK(task'[s])
    <2>1. CASE s = t
      BY <1>10, <2>1, NoTaskFine, NoTaskFits, TaskIs
    <2>2. CASE s # t
      <3>1. task[s].tells = "none" => task[s].id # c
        <4>1. task[s].tells = "none" /\ task[s].id = c => OfferAt(c, s, "task", 0)
          BY DEF OfferAt
        <4>2. "task" \in Waits /\ 0 \in Nat
          BY DEF Waits
        <4> QED BY <1>9, <2>2, <4>1, <4>2
      <3> QED BY <1>7, <1>8, <1>10, <2>2, <3>1, PlacingAt, TaskStill
    <2> QED BY <2>1, <2>2
  <1>14. ASSUME NEW s \in Tabs PROVE ConsumerFits(s, consumer[s])'
    <2>1. CASE consumer'[s] = consumer[s]
      BY <1>7, <2>1, PlacingAt, ConsumerStill
    <2>2. CASE s = t /\ consumer'[s].active = task[t].id /\ consumer'[s].peer = task[t].to
      <3>1. PICK q : q = consumer'[s]
        OBVIOUS
      <3>2. q.active = c /\ q.peer = u
        BY <1>2, <1>3, <2>2, <3>1
      <3>3. Parties(UserOf[t], u, c)'
        BY <1>6 DEF Parties
      <3>4. ConsumerFits(s, q)'
        BY <2>2, <3>2, <3>3 DEF ConsumerFits
      <3> QED BY <3>1, <3>4, ConsumerIs
    <2> QED BY <2>1, <2>2
  <1>15. ASSUME NEW s \in Tabs PROVE DownFits(s)'
    <2>1. CASE down'[s] = down[s]
      BY <1>7, <2>1, PlacingAt, DownStill
    <2>2. ASSUME NEW x \in Ping, x.from \in Users, down'[s] = Append(down[s], x),
                 x.type = "incoming" => x.from = UserOf[t] /\ x.id = task[t].id /\ UserOf[s] = task[t].to
          PROVE  DownFits(s)'
      <3>1. PingFits(s, x)'
        BY <1>2, <1>3, <1>6, <2>2 DEF PingFits
      <3> QED BY <1>7, <2>2, <3>1, PlacingAt, DownPosted
    <2> QED BY <2>1, <2>2
  <1>16. ASSUME NEW d \in CallIds PROVE OneOffer(d)'
    <2>1. OneOffer(d)
      BY DEF Placing
    <2>2. \A s \in Tabs : task'[s].tells = "none" =>
                            task'[s].id = NoCall \/ (task[s].tells = "none" /\ task'[s].id = task[s].id)
      <3>1. NoTask.id = NoCall
        BY DEF NoTask
      <3> QED BY <1>10, <3>1
    <2> QED BY <1>0, <2>1, <2>2, OffersStay
  <1>17. Typed'
    BY <1>0, <1>5, <1>10 DEF Typed
  <1> QED BY <1>11, <1>12, <1>13, <1>14, <1>15, <1>16, <1>17, PlacingNext

LEMMA RefusePlaces ==
  ASSUME Placing, NEW t \in Tabs, NEW step \in {"reach", "free"}, At(t, step), UNCHANGED <<client, up, consumer>>,
         NEW status \in {"missed", "busy"}, NEW signal \in {"unavailable", "busy"}, Refuse(t, status, signal)
  PROVE  Placing'
  <1>0. task[t] \in Task /\ TaskOK(task[t]) /\ TaskFits(t, task[t]) /\ down \in [Tabs -> Seq(Ping)]
        /\ consumer \in [Tabs -> Consumer]
    BY PlacingAt DEF Placing, Base, Typed
  <1>1. task[t].to \in Users
    <2>1. step \in Opening /\ step \notin Connecting
      BY DEF Opening, Connecting
    <2>2. task[t].tells = "none" /\ ~(task[t].plan \in Seq(Connecting))
      BY <1>0, <2>1, StepOf, HeadIn
    <2> QED BY <1>0, <2>2 DEF TaskFits, Unplaced
  <1>2. PICK r : r = [caller |-> UserOf[t], receiver |-> task[t].to, status |-> status, started |-> FALSE]
    OBVIOUS
  <1>3. r \in Row /\ r.caller = UserOf[t] /\ r.receiver = task[t].to
    BY <1>1, <1>2 DEF Row, SomeUser, CallStatus
  <1>4. PICK s : s = Signal(signal, task[t].to, NoCall)
    OBVIOUS
  <1>5. s \in Ping /\ s.from \in Users /\ s.type # "incoming"
    BY <1>1, <1>4 DEF Signal, Ping, SomeUser, Id
  <1>6. down' = down \/ down' = [down EXCEPT ![t] = Append(@, s)]
    BY <1>4 DEF Refuse
  <1>7. /\ down' \in [Tabs -> Seq(Ping)]
        /\ \A v \in Tabs : down'[v] = down[v] \/ down'[v] = Append(down[v], s)
    <2>1. Append(down[t], s) \in Seq(Ping)
      BY <1>0, <1>5
    <2> QED BY <1>0, <1>6, <2>1
  <1>8. row' = [row EXCEPT ![task[t].id] = r] /\ Done(t)
    BY <1>2 DEF Refuse
  <1> QED BY <1>0, <1>3, <1>5, <1>7, <1>8, CallPlaced

LEMMA LookupPlaces ==
  ASSUME Placing, NEW t \in Tabs, Reach(t) \/ CheckFree(t)
  PROVE  Placing'
  <1>0. consumer \in [Tabs -> Consumer]
    BY DEF Placing, Base, Typed
  <1>1. CASE Reach(t)
    <2>1. At(t, "reach") /\ UNCHANGED <<client, up, consumer>>
          /\ \/ Advance(t, task[t]) /\ UNCHANGED <<row, down>>
             \/ Refuse(t, "missed", "unavailable")
      BY <1>1 DEF Reach
    <2> QED BY <1>0, <2>1, RefusePlaces, QuietStep
  <1>2. CASE CheckFree(t)
    <2>1. At(t, "free") /\ UNCHANGED <<client, up, consumer>>
          /\ \/ Advance(t, task[t]) /\ UNCHANGED <<row, down>>
             \/ Refuse(t, "busy", "busy")
      BY <1>2 DEF CheckFree
    <2> QED BY <1>0, <2>1, RefusePlaces, QuietStep
  <1> QED BY <1>1, <1>2

LEMMA RingPlaces ==
  ASSUME Placing, NEW t \in Tabs, Ring(t)
  PROVE  Placing'
  <1>0. /\ task[t] \in Task /\ consumer \in [Tabs -> Consumer] /\ Typed
        /\ task[t].to \in SomeUser /\ task[t].id \in Id /\ UserOf[t] \in Users
    BY PlacingAt DEF Placing, Base, Typed, Task
  <1>1. PICK r : r = [caller |-> UserOf[t], receiver |-> task[t].to, status |-> "ringing", started |-> FALSE]
    OBVIOUS
  <1>2. PICK s : s = Signal("incoming", UserOf[t], task[t].id)
    OBVIOUS
  <1>3. /\ At(t, "ring") /\ row' = [row EXCEPT ![task[t].id] = r]
        /\ consumer' = [consumer EXCEPT ![t].active = task[t].id, ![t].peer = task[t].to]
        /\ Relay(task[t].to, s) /\ Done(t) /\ client' = client /\ up' = up
    BY <1>1, <1>2 DEF Ring
  <1>4. r \in Row /\ r.caller = UserOf[t] /\ r.receiver = task[t].to
    BY <1>0, <1>1 DEF Row, SomeUser, CallStatus
  <1>5. s \in Ping /\ s.from = UserOf[t] /\ s.id = task[t].id
    BY <1>0, <1>2 DEF Signal, Ping, SomeUser
  <1>6. /\ down' \in [Tabs -> Seq(Ping)]
        /\ \A v \in Tabs : \/ down'[v] = down[v]
                           \/ down'[v] = Append(down[v], s) /\ UserOf[v] = task[t].to
    BY <1>0, <1>3, <1>5, RelayTyped
  <1>7. /\ consumer' \in [Tabs -> Consumer]
        /\ \A v \in Tabs : \/ consumer'[v] = consumer[v]
                           \/ v = t /\ consumer'[v].active = task[t].id /\ consumer'[v].peer = task[t].to
    BY <1>0, <1>3 DEF Consumer
  <1>8. \A v \in Tabs : \/ down'[v] = down[v]
                       \/ \E x \in Ping : /\ x.from \in Users /\ down'[v] = Append(down[v], x)
                                          /\ x.type = "incoming" =>
                                               x.from = UserOf[t] /\ x.id = task[t].id /\ UserOf[v] = task[t].to
    BY <1>0, <1>5, <1>6
  <1>9. "ring" \in {"reach", "free", "ring"}
    OBVIOUS
  <1>10. down' \in [Tabs -> Seq(Ping)] /\ up' = up /\ client' = client /\ Done(t) /\ At(t, "ring")
    BY <1>3, <1>6
  <1> HIDE DEF Done, At
  <1> QED BY <1>3, <1>4, <1>7, <1>8, <1>9, <1>10, CallPlaced

LEMMA ReadPlaces ==
  ASSUME Placing, NEW t \in Tabs, ReadCall(t)
  PROVE  Placing'
  <1>0. task[t] \in Task /\ TaskOK(task[t]) /\ At(t, "read")
    BY PlacingAt DEF ReadCall
  <1>1. task[t].id \in CallIds
    BY <1>0, StepOf
  <1>2. /\ client \in [Tabs -> PageState] /\ down \in [Tabs -> Seq(Ping)] /\ row \in [CallIds -> Row]
        /\ consumer \in [Tabs -> Consumer]
    BY DEF Placing, Base, Typed
  <1>3. PICK r \in Row : r = row[task[t].id]
    BY <1>1, <1>2
  <1>4. Advance(t, [task[t] EXCEPT !.read = r]) /\ UNCHANGED <<client, up, down, consumer, row>>
    BY <1>3 DEF ReadCall
  <1>5. \A c \in CallIds : SameParties(c)
    BY <1>4 DEF SameParties
  <1> QED BY <1>0, <1>2, <1>3, <1>4, <1>5, ServeStep

\* What a handler writes keeps the parties of the row.
LEMMA MarkedIs ==
  ASSUME Placing, NEW t \in Tabs, At(t, "save")
  PROVE  LET c == task[t].id
             k == task[t]
             r == Marked(t)
         IN /\ c \in CallIds /\ r \in Row
            /\ r.caller = row[c].caller /\ r.receiver = row[c].receiver
            /\ k.read.status \in Over => r = row[c]
            /\ k.read.status \notin Over =>
                 /\ r.started <=> k.read.started \/ k.answered
                 /\ r.status # "ringing" /\ (k.status # "ended" => r.status = k.status)
  <1>0. task[t] \in Task /\ TaskOK(task[t]) /\ TaskFits(t, task[t]) /\ row \in [CallIds -> Row]
    BY PlacingAt DEF Placing, Base, Typed
  <1>1. PICK c \in CallIds : c = task[t].id
    BY <1>0, StepOf
  <1>2. PICK k \in Task : k = task[t]
    BY <1>0
  <1>3. PICK r : r = Marked(t)
    OBVIOUS
  <1>4. <<k.tells, k.status>> \in Outcomes
    <2>1. "save" \in Finishing \ {"vanish", "leave"}
      BY DEF Finishing
    <2> QED BY <1>0, <1>2, <2>1, StepOf
  <1>5. AtSave(k) /\ k.read.caller = row[c].caller /\ k.read.receiver = row[c].receiver
    <2>1. AtSave(k)
      BY <1>2 DEF At, AtSave
    <2> QED BY <1>0, <1>1, <1>2, <2>1 DEF TaskFits
  <1>6. CASE k.read.status \in Over
    <2>1. r = row[c]
      BY <1>1, <1>2, <1>3, <1>6 DEF Marked, Over
    <2> QED BY <1>0, <1>1, <1>2, <1>3, <1>6, <2>1
  <1>7. CASE k.read.status \notin Over
    <2> DEFINE ringOut == k.status = "ended" /\ k.read.status = "ringing" /\ ~k.answered
    <2>1. r = [k.read EXCEPT !.status = IF ringOut THEN "missed" ELSE k.status, !.started = @ \/ k.answered]
      BY <1>2, <1>3, <1>7 DEF Marked, Over
    <2>2. k.read \in Row /\ k.answered \in BOOLEAN
      BY DEF Task
    <2>3. /\ r.status = IF ringOut THEN "missed" ELSE k.status
          /\ r.started = (k.read.started \/ k.answered)
          /\ r.caller = k.read.caller /\ r.receiver = k.read.receiver
          /\ r = [caller |-> r.caller, receiver |-> r.receiver, status |-> r.status, started |-> r.started]
      BY <2>1, <2>2 DEF Row
    <2>4. r.status \in {"missed", "ongoing", "rejected", "ended"} /\ (k.status # "ended" => r.status = k.status)
      BY <2>3, <1>4 DEF Outcomes
    <2>5. r.started \in BOOLEAN /\ r.status \in CallStatus
      BY <2>2, <2>3, <2>4 DEF Row, CallStatus
    <2>6. r \in Row
      BY <2>2, <2>3, <2>5 DEF Row
    <2>7. r.caller = row[c].caller /\ r.receiver = row[c].receiver
      BY <1>5, <2>3
    <2> QED BY <1>1, <1>2, <1>3, <1>7, <2>3, <2>4, <2>6, <2>7
  <1> QED BY <1>6, <1>7

LEMMA SavePlaces ==
  ASSUME Placing, NEW t \in Tabs, SaveCall(t)
  PROVE  Placing'
  <1>0. At(t, "save") /\ Advance(t, task[t]) /\ UNCHANGED <<client, up, down, consumer>>
    BY DEF SaveCall
  <1>1. /\ client \in [Tabs -> PageState] /\ down \in [Tabs -> Seq(Ping)] /\ row \in [CallIds -> Row]
        /\ consumer \in [Tabs -> Consumer]
    BY DEF Placing, Base, Typed
  <1>2. PICK c \in CallIds : c = task[t].id
    BY <1>0, MarkedIs
  <1>3. PICK r \in Row : r = Marked(t) /\ r.caller = row[c].caller /\ r.receiver = row[c].receiver
    BY <1>0, <1>2, MarkedIs
  <1>4. row' = [row EXCEPT ![c] = r]
    BY <1>2, <1>3 DEF SaveCall
  <1>5. row' \in [CallIds -> Row] /\ \A d \in CallIds : SameParties(d)
    BY <1>1, <1>3, <1>4 DEF SameParties
  <1>6. PICK x \in Row : x = task[t].read
    BY SameTask
  <1>7. Advance(t, [task[t] EXCEPT !.read = x])
    BY <1>0, <1>6, SameTask
  <1>8. /\ \A v \in Tabs : client'[v] = client[v] /\ down'[v] = down[v]
        /\ \A v \in Tabs : consumer'[v].active = consumer[v].active /\ consumer'[v].peer = consumer[v].peer
        /\ client' \in [Tabs -> PageState] /\ down' \in [Tabs -> Seq(Ping)] /\ consumer' \in [Tabs -> Consumer]
        /\ up' = up /\ "save" # "read"
    BY <1>0, <1>1
  <1> QED BY <1>0, <1>5, <1>6, <1>7, <1>8, ServeStep

LEMMA TellPlaces ==
  ASSUME Placing, NEW t \in Tabs, Tell(t)
  PROVE  Placing'
  <1>0. /\ task[t] \in Task /\ TaskOK(task[t]) /\ Typed /\ UserOf[t] \in Users /\ UserOf[t] \in SomeUser
        /\ task[t].id \in Id
    BY PlacingAt DEF Placing, Base, Task, SomeUser
  <1>1. PICK s : s = Signal(task[t].tells, UserOf[t], task[t].id)
    OBVIOUS
  <1>2. At(t, "tell") /\ Relay(task[t].to, s) /\ Advance(t, task[t]) /\ UNCHANGED <<client, up, consumer, row>>
    BY <1>1 DEF Tell
  <1>3. <<task[t].tells, task[t].status>> \in Outcomes
    <2>1. "tell" \in Finishing \ {"vanish", "leave"}
      BY DEF Finishing
    <2> QED BY <1>0, <1>2, <2>1, StepOf
  <1>4. s \in Ping /\ s.type # "incoming" /\ s.from \in Users
    BY <1>0, <1>1, <1>3 DEF Outcomes, Signal, Ping
  <1>5. /\ down' \in [Tabs -> Seq(Ping)]
        /\ \A v \in Tabs : down'[v] = down[v] \/ (down'[v] = Append(down[v], s) /\ UserOf[v] = task[t].to)
    BY <1>0, <1>2, <1>4, RelayTyped
  <1>6. /\ client' \in [Tabs -> PageState] /\ consumer' \in [Tabs -> Consumer] /\ row' \in [CallIds -> Row]
        /\ \A c \in CallIds : SameParties(c)
    BY <1>0, <1>2 DEF Typed, SameParties
  <1>7. PICK x \in Row : x = task[t].read
    BY SameTask
  <1>8. Advance(t, [task[t] EXCEPT !.read = x])
    BY <1>2, <1>7, SameTask
  <1>9. /\ \A v \in Tabs : client'[v] = client[v]
        /\ \A v \in Tabs : consumer'[v].active = consumer[v].active /\ consumer'[v].peer = consumer[v].peer
        /\ \A v \in Tabs : \/ down'[v] = down[v]
                            \/ \E y \in Ping : y.from \in Users /\ y.type # "incoming" /\ down'[v] = Append(down[v], y)
        /\ up' = up /\ "tell" # "read" /\ down' \in [Tabs -> Seq(Ping)]
    BY <1>2, <1>4, <1>5
  <1> QED BY <1>2, <1>6, <1>7, <1>8, <1>9, ServeStep

LEMMA OtherPlaces ==
  ASSUME Placing, NEW t \in Tabs,
         \/ HoldOwn(t) \/ HoldPeer(t) \/ DropOwn(t) \/ DropPeer(t)
         \/ Join(t) \/ Appear(t) \/ AcceptSocket(t) \/ Vanish(t) \/ Leave(t)
  PROVE  Placing'
  <1>0. /\ consumer \in [Tabs -> Consumer] /\ client \in [Tabs -> PageState]
        /\ down \in [Tabs -> Seq(Ping)] /\ row \in [CallIds -> Row]
    BY DEF Placing, Base, Typed
  <1>1. ASSUME NEW step, step # "read", NEW u, NEW c, SetBusy(t, step, u, c) PROVE Placing'
    BY <1>0, <1>1, QuietStep DEF SetBusy
  <1>2. ASSUME NEW step, step # "read", NEW value, SetOnline(t, step, value) PROVE Placing'
    BY <1>0, <1>2, QuietStep DEF SetOnline
  <1>3. CASE Join(t)
    <2>1. PICK k : k = [consumer[t] EXCEPT !.joined = TRUE]
      OBVIOUS
    <2>2. k \in Consumer /\ k.active = consumer[t].active /\ k.peer = consumer[t].peer
      BY <1>0, <2>1 DEF Consumer
    <2>3. /\ At(t, "join") /\ Advance(t, task[t]) /\ UNCHANGED <<client, up, down, row>>
          /\ consumer' = [consumer EXCEPT ![t] = k]
      BY <1>0, <1>3, <2>1 DEF Join
    <2>4. consumer' \in [Tabs -> Consumer] /\ consumer'[t] = k /\ \A s \in Tabs \ {t} : consumer'[s] = consumer[s]
      BY <1>0, <2>2, <2>3
    <2> QED BY <2>2, <2>3, <2>4, QuietStep
  <1>4. CASE Leave(t)
    <2>1. NoConsumer \in Consumer /\ NoConsumer.active = NoCall
      BY DEF NoConsumer, Consumer, Id, SomeUser
    <2>2. /\ At(t, "leave") /\ Advance(t, task[t]) /\ UNCHANGED <<client, up, down, row>>
          /\ consumer' = [consumer EXCEPT ![t] = NoConsumer]
      BY <1>4 DEF Leave
    <2>3. /\ consumer' \in [Tabs -> Consumer] /\ consumer'[t] = NoConsumer
          /\ \A s \in Tabs \ {t} : consumer'[s] = consumer[s]
      BY <1>0, <2>1, <2>2
    <2> QED BY <2>1, <2>2, <2>3, QuietStep
  <1>5. CASE AcceptSocket(t)
    <2>1. PICK p : p = [client[t] EXCEPT !.mode = "idle"]
      OBVIOUS
    <2>2. p \in PageState
      BY <1>0, <2>1 DEF PageState, Mode
    <2>3. /\ At(t, "accept") /\ Advance(t, task[t]) /\ UNCHANGED <<up, down, consumer, row>>
          /\ client' = [client EXCEPT ![t] = p]
      BY <1>0, <1>5, <2>1 DEF AcceptSocket
    <2>4. client' \in [Tabs -> PageState] /\ client'[t] = p /\ \A s \in Tabs \ {t} : client'[s] = client[s]
      BY <1>0, <2>2, <2>3
    <2>5. \A s \in Tabs : client'[s] = client[s] \/ client'[s] = [client[s] EXCEPT !.mode = "idle"]
      BY <2>1, <2>4
    <2>6. \A c \in CallIds : SameParties(c)
      BY <2>3 DEF SameParties
    <2>7. PICK x \in Row : x = task[t].read
      BY SameTask
    <2>8. Advance(t, [task[t] EXCEPT !.read = x])
      BY <2>3, <2>7, SameTask
    <2>9. /\ \A v \in Tabs : down'[v] = down[v]
          /\ \A v \in Tabs : consumer'[v].active = consumer[v].active /\ consumer'[v].peer = consumer[v].peer
          /\ down' \in [Tabs -> Seq(Ping)] /\ consumer' \in [Tabs -> Consumer] /\ row' \in [CallIds -> Row]
          /\ up' = up /\ "accept" # "read"
      BY <1>0, <2>3
    <2> QED BY <2>3, <2>4, <2>5, <2>6, <2>7, <2>8, <2>9, ServeStep
  <1> QED BY <1>1, <1>2, <1>3, <1>4, <1>5 DEF HoldOwn, HoldPeer, DropOwn, DropPeer, Appear, Vanish

LEMMA ServePlaces ==
  ASSUME Placing, NEW t \in Tabs, Serve(t)
  PROVE  Placing'
  BY HandlePlaces, LookupPlaces, RingPlaces, ReadPlaces, SavePlaces, TellPlaces, OtherPlaces DEF Serve

LEMMA PagePlaces ==
  ASSUME Placing, NEW t \in Tabs, Page(t)
  PROVE  Placing'
  BY OpenPlaces, StartPlaces, TalkPlaces, ReceivePlaces DEF Page

LEMMA StutterPlaces ==
  ASSUME Placing, UNCHANGED <<client, up, down, consumer, task, row>>
  PROVE  Placing'
  <1>1. \A c \in CallIds : SameParties(c)
    BY DEF SameParties
  <1>2. Stable /\ \A c : StillFree(c)
    BY <1>1, PartiesStay DEF StillFree, Unplaced
  <1>3. ASSUME NEW t \in Tabs
        PROVE  UpFits(t)' /\ DownFits(t)' /\ PageFits(t, client[t])'
               /\ ConsumerFits(t, consumer[t])' /\ TaskFits(t, task[t])'
    BY <1>2, PlacingAt, UpStill, DownStill, PageStill, ConsumerStill, TaskStill
  <1>4. ASSUME NEW c \in CallIds PROVE OneOffer(c)'
    BY OffersStay DEF Placing, Base
  <1>5. Typed' /\ \A t \in Tabs : TaskOK(task'[t])
    BY PlacingAt DEF Placing, Base, Typed
  <1> QED BY <1>3, <1>4, <1>5, PlacingNext

LEMMA InitPlacing ==
  ASSUME Init
  PROVE  Placing
  <1>0. Inv
    BY InitInv
  <1>1. ASSUME NEW t \in Tabs PROVE Fits(t)
    <2>1. UpFits(t) /\ DownFits(t)
      BY DEF Init, UpFits, DownFits
    <2>2. PageFits(t, client[t])
      BY DEF Init, PageFits, Idle, InCall, Shown
    <2>3. ConsumerFits(t, consumer[t])
      BY DEF Init, ConsumerFits, NoConsumer
    <2>4. TaskFits(t, task[t])
      BY NoTaskFits DEF Init
    <2> QED BY <2>1, <2>2, <2>3, <2>4 DEF Fits
  <1>2. ASSUME NEW c \in CallIds PROVE OneOffer(c)
    BY DEF Init, OneOffer, OfferAt, Queued, Idle, NoTask, NoCall
  <1> QED BY <1>0, <1>1, <1>2 DEF Placing, Base, Inv

-----------------------------------------------------------------------------
Keys == online \in [Users -> BOOLEAN] /\ busy \in [Users -> Id]

LEMMA KeysKept ==
  ASSUME Placing, Keys, [Next]_vars
  PROVE  Keys'
  <1>0. NoCall \in Id /\ \A t \in Tabs : task[t].id \in Id
    BY PlacingAt DEF Id, Task
  <1>1. CASE UNCHANGED vars
    BY <1>1 DEF Keys, vars, server
  <1>2. ASSUME NEW t \in Tabs, Page(t) PROVE Keys'
    <2>1. UNCHANGED <<online, busy>>
      BY <1>2 DEF Page, Open, Close, StartCall, Offer, MediaDenied, Accept, Answer, Decline, FailToConnect,
                  Hangup, Receive, server
    <2> QED BY <2>1 DEF Keys
  <1>3. ASSUME NEW t \in Tabs, Serve(t) PROVE Keys'
    <2>1. ASSUME NEW step, NEW u, NEW c \in Id, SetBusy(t, step, u, c) PROVE Keys'
      BY <2>1 DEF SetBusy, Keys
    <2>2. ASSUME NEW step, NEW value \in BOOLEAN, SetOnline(t, step, value) PROVE Keys'
      BY <2>2 DEF SetOnline, Keys
    <2>3. CASE \/ Handle(t) \/ Reach(t) \/ CheckFree(t) \/ Ring(t) \/ ReadCall(t) \/ SaveCall(t)
               \/ Tell(t) \/ Join(t) \/ AcceptSocket(t) \/ Leave(t)
      <3>1. UNCHANGED <<online, busy>>
        BY <2>3 DEF Handle, Reach, CheckFree, Ring, ReadCall, SaveCall, Tell, Join, AcceptSocket, Leave
      <3> QED BY <3>1 DEF Keys
    <2> QED BY <1>0, <1>3, <2>1, <2>2, <2>3 DEF Serve, HoldOwn, HoldPeer, DropOwn, DropPeer, Appear, Vanish
  <1>4. ASSUME NEW u \in Users, OnlineExpires(u) \/ BusyExpires(u) PROVE Keys'
    BY <1>0, <1>4 DEF OnlineExpires, BusyExpires, Keys
  <1> QED BY <1>1, <1>2, <1>3, <1>4 DEF Next

LEMMA PlacingKept ==
  ASSUME Placing, [Next]_vars
  PROVE  Placing'
  <1>1. CASE UNCHANGED vars
    BY <1>1, StutterPlaces DEF vars, server
  <1>2. ASSUME NEW u \in Users, OnlineExpires(u) \/ BusyExpires(u) PROVE Placing'
    BY <1>2, StutterPlaces DEF OnlineExpires, BusyExpires
  <1> QED BY <1>1, <1>2, PagePlaces, ServePlaces DEF Next

\* What is written in a page, a message, a consumer or a row has its type; in
\* particular no message names a user or a call it cannot be about: an offer,
\* an answer and a refusal name a user and a call, a relayed signal names who
\* it is from, whatever the tabs a user has open.
THEOREM TypeOKHolds == Spec => []TypeOK
  <1>1. Init => Placing /\ Keys
    <2>1. Init => Keys
      BY DEF Init, Keys, Id
    <2> QED BY <2>1, InitPlacing
  <1>2. Placing /\ Keys /\ [Next]_vars => (Placing /\ Keys)'
    BY PlacingKept, KeysKept
  <1>3. Placing /\ Keys => TypeOK
    <2> SUFFICES ASSUME Placing, Keys PROVE TypeOK
      OBVIOUS
    <2>1. client \in [Tabs -> [mode : {"closed", "opening", "idle", "incoming"} \union InCall,
                               with : SomeUser, id : Id, dial : Id]]
      <3>1. Mode = {"closed", "opening", "idle", "incoming"} \union InCall
        BY DEF Mode, InCall
      <3> QED BY <3>1 DEF Placing, Base, Typed, PageState
    <2>2. ASSUME NEW t \in Tabs, NEW i \in 1..Len(up[t])
          PROVE  up[t][i] \in [type : {"offer", "answer", "reject"}, to : Users, id : CallIds]
                              \union [type : {"end"}, to : Users, id : Id]
                              \union [type : {"close"}, to : {NoUser}, id : {NoCall}]
      <3>1. up[t][i] \in Letter /\ LetterFits(t, up[t][i])
        BY PlacingAt DEF UpFits
      <3>2. PICK m \in Letter : m = up[t][i] /\ LetterFits(t, m)
        BY <3>1
      <3>3. m.type \in {"offer", "answer", "reject"} => m.to \in Users /\ m.id \in CallIds
        BY <3>2 DEF LetterFits, Unplaced, Called
      <3>4. m.type = "end" => m.to \in Users
        BY <3>2 DEF LetterFits
      <3>5. m.type = "close" => m.to = NoUser /\ m.id = NoCall
        BY <3>2 DEF LetterFits
      <3> QED BY <3>2, <3>3, <3>4, <3>5 DEF Letter
    <2>3. ASSUME NEW t \in Tabs, NEW i \in 1..Len(down[t])
          PROVE  down[t][i] \in [type : {"incoming", "answer", "rejected", "ended", "busy", "unavailable"},
                                 from : Users, id : Id]
      <3>1. down[t][i] \in Ping /\ PingFits(t, down[t][i])
        BY PlacingAt DEF DownFits
      <3>2. PICK s \in Ping : s = down[t][i] /\ PingFits(t, s)
        BY <3>1
      <3>3. s.from \in Users
        BY <3>2 DEF PingFits
      <3> QED BY <3>2, <3>3 DEF Ping
    <2>4. consumer \in [Tabs -> [joined : BOOLEAN, active : Id, peer : SomeUser]]
      BY DEF Placing, Base, Typed, Consumer
    <2>5. row \in [CallIds -> [caller : SomeUser, receiver : SomeUser, status : CallStatus, started : BOOLEAN]]
      BY DEF Placing, Base, Typed, Row
    <2> QED BY <2>1, <2>2, <2>3, <2>4, <2>5 DEF TypeOK, Keys
  <1> QED BY <1>1, <1>2, <1>3, PTL DEF Spec

-----------------------------------------------------------------------------
(* A busy flag names a call of its user that somebody answered.  It can go *)
(* wrong where a row is saved that was read earlier: the handlers of the   *)
(* receiver run one after the other in the only tab, in the order the page *)
(* spoke (Serial), so nobody ends or refuses a call between an answer and  *)
(* its flags, but the other party's closing tab, and it counts the call as *)
(* answered.                                                               *)
Final == {"reject", "end"}
Rings(t, c) == \E i \in Nat : Queued(down[t], i, c, {"incoming"})
Holds(t, c) == client[t].id = c /\ client[t].mode \in Shown
Closes(k, c) == k.id = c /\ k.tells # "answer" /\ Own(k)
Replies(t, c) == \E i \in Nat : Queued(up[t], i, c, {"answer"})

Serial(t, c) ==
  /\ Closes(task[t], c) => ~Rings(t, c) /\ ~Holds(t, c) /\ ~Replies(t, c)
  /\ \A i \in Nat : Queued(up[t], i, c, Final) =>
       /\ ~Rings(t, c) /\ ~Holds(t, c)
       /\ \A j \in Nat : Queued(up[t], j, c, {"answer"}) => j < i
  /\ client[t].id = c => ~Rings(t, c)

\* The tab may still answer call c, or is about to mark it.
MayAnswer(t, c) ==
  Rings(t, c) \/ Holds(t, c) \/ Replies(t, c) \/ (task[t].id = c /\ task[t].tells = "answer")

\* The step keeps both as they should be.
Tame(t, c) == Serial(t, c)' /\ (MayAnswer(t, c)' => MayAnswer(t, c))

LEMMA SameTalk ==
  ASSUME NEW t \in Tabs, NEW c \in CallIds, Serial(t, c),
         client'[t] = client[t], up'[t] = up[t], down'[t] = down[t], task'[t] = task[t]
  PROVE  Tame(t, c)
  BY DEF Tame, Serial, MayAnswer, Rings, Holds, Closes, Replies, Own

\* Nothing that the call can be answered or ended with comes up.
LEMMA LessTalk ==
  ASSUME NEW t \in Tabs, NEW c \in CallIds, Serial(t, c), up[t] \in Seq(Letter),
         \/ up'[t] = up[t]
         \/ \E m \in Letter : (m.id = c => m.type \notin Final \cup {"answer"}) /\ up'[t] = Append(up[t], m),
         Rings(t, c)' => Rings(t, c), client'[t].id = c => client[t].id = c, Holds(t, c)' => Holds(t, c),
         Closes(task'[t], c) => Closes(task[t], c),
         task'[t].id = c /\ task'[t].tells = "answer" => task[t].id = c /\ task[t].tells = "answer"
  PROVE  Tame(t, c)
  <1>1. ASSUME NEW i \in Nat, NEW kinds \in SUBSET (Final \cup {"answer"}), Queued(up'[t], i, c, kinds)
        PROVE  Queued(up[t], i, c, kinds)
    <2>1. CASE up'[t] = up[t]
      BY <1>1, <2>1
    <2>2. ASSUME NEW m \in Letter, m.id = c => m.type \notin Final \cup {"answer"}, up'[t] = Append(up[t], m)
          PROVE  Queued(up[t], i, c, kinds)
      <3>1. i \in 1..Len(Append(up[t], m)) /\ Append(up[t], m)[i].id = c /\ Append(up[t], m)[i].type \in kinds
        BY <1>1, <2>2 DEF Queued
      <3>2. Append(up[t], m)[i] # m
        BY <2>2, <3>1
      <3>3. i \in 1..Len(up[t]) /\ Append(up[t], m)[i] = up[t][i]
        BY <3>1, <3>2
      <3> QED BY <3>1, <3>3 DEF Queued
    <2> QED BY <2>1, <2>2
  <1>2. /\ \A i \in Nat : Queued(up'[t], i, c, Final) => Queued(up[t], i, c, Final)
        /\ \A i \in Nat : Queued(up'[t], i, c, {"answer"}) => Queued(up[t], i, c, {"answer"})
    BY <1>1 DEF Final
  <1>3. Replies(t, c)' => Replies(t, c)
    BY <1>2 DEF Replies
  <1>4. Serial(t, c)'
    BY <1>2, <1>3 DEF Serial, Closes, Own
  <1> QED BY <1>3, <1>4 DEF Tame, MayAnswer

\* A ring taken from the queue was there.
LEMMA RingsLess ==
  ASSUME NEW t \in Tabs, NEW c, down[t] \in Seq(Ping),
         \/ down'[t] \in {down[t], <<>>}
         \/ down[t] # <<>> /\ down'[t] = Tail(down[t])
         \/ \E s \in Ping : s.type # "incoming" /\ down'[t] = Append(down[t], s),
         Rings(t, c)'
  PROVE  Rings(t, c)
  <1>1. PICK i \in Nat : Queued(down'[t], i, c, {"incoming"})
    BY DEF Rings
  <1>2. CASE down'[t] \in {down[t], <<>>}
    BY <1>1, <1>2 DEF Rings, Queued
  <1>3. CASE down[t] # <<>> /\ down'[t] = Tail(down[t])
    <2>1. \A n \in 1..Len(Tail(down[t])) : n + 1 \in 1..Len(down[t]) /\ Tail(down[t])[n] = down[t][n + 1]
      BY <1>3, SeqHead
    <2>2. Queued(down[t], i + 1, c, {"incoming"}) /\ i + 1 \in Nat
      BY <1>1, <1>3, <2>1 DEF Queued
    <2> QED BY <2>2 DEF Rings
  <1>4. ASSUME NEW s \in Ping, s.type # "incoming", down'[t] = Append(down[t], s) PROVE Rings(t, c)
    <2>1. Queued(down[t], i, c, {"incoming"})
      BY <1>1, <1>4 DEF Queued
    <2> QED BY <2>1 DEF Rings
  <1> QED BY <1>2, <1>3, <1>4

\* A page step of tab t that posts nothing final.
LEMMA PageTame ==
  ASSUME Placing, \A s \in Tabs, c \in CallIds : Serial(s, c), NEW t \in Tabs, task' = task,
         NEW p \in PageState, client' = [client EXCEPT ![t] = p],
         p.id \in {client[t].id, NoCall}, p.mode \in Shown => client[t].mode \in Shown,
         \/ up' = up
         \/ \E m \in Letter : m.type \notin Final \cup {"answer"} /\ Posts(t, m),
         \/ down' = down \/ down' = [down EXCEPT ![t] = <<>>] \/ TakesDown(t)
  PROVE  \A s \in Tabs, c \in CallIds : Tame(s, c)
  <1>0. /\ client \in [Tabs -> PageState] /\ up \in [Tabs -> Seq(Letter)] /\ down \in [Tabs -> Seq(Ping)]
    BY DEF Placing, Base, Typed
  <1>1. client'[t] = p /\ \A s \in Tabs \ {t} : client'[s] = client[s] /\ up'[s] = up[s] /\ down'[s] = down[s]
    BY <1>0 DEF Posts, TakesDown
  <1>2. ASSUME NEW c \in CallIds PROVE Tame(t, c)
    <2>0. c # NoCall /\ Serial(t, c) /\ up[t] \in Seq(Letter) /\ down[t] \in Seq(Ping)
      BY <1>0 DEF NoCall
    <2>1. \/ up'[t] = up[t]
          \/ \E m \in Letter : (m.id = c => m.type \notin Final \cup {"answer"}) /\ up'[t] = Append(up[t], m)
      BY <1>0 DEF Posts
    <2>2. \/ down'[t] \in {down[t], <<>>}
          \/ down[t] # <<>> /\ down'[t] = Tail(down[t])
      BY <1>0 DEF TakesDown
    <2>3. Rings(t, c)' => Rings(t, c)
      BY <2>0, <2>2, RingsLess
    <2>4. (client'[t].id = c => client[t].id = c) /\ (Holds(t, c)' => Holds(t, c))
      BY <1>1, <2>0 DEF Holds
    <2> QED BY <2>0, <2>1, <2>3, <2>4, LessTalk
  <1> QED BY <1>1, <1>2, SameTalk

\* A page step of tab t that posts the answer to the call it shows, or the end
\* of the call it is in.
LEMMA PostTame ==
  ASSUME Placing, \A s \in Tabs, c \in CallIds : Serial(s, c), NEW t \in Tabs, UNCHANGED <<down, task>>,
         NEW p \in PageState, client' = [client EXCEPT ![t] = p], NEW m \in Letter, Posts(t, m), m.id = client[t].id,
         \/ m.type = "answer" /\ client[t].mode \in Shown /\ p.id = client[t].id /\ p.mode \notin Shown
         \/ m.type \in Final /\ p.id = NoCall
  PROVE  \A s \in Tabs, c \in CallIds : Tame(s, c)
  <1>0. client \in [Tabs -> PageState] /\ up \in [Tabs -> Seq(Letter)]
    BY DEF Placing, Base, Typed
  <1>1. client'[t] = p /\ \A s \in Tabs \ {t} : client'[s] = client[s] /\ up'[s] = up[s]
    BY <1>0 DEF Posts
  <1>2. ASSUME NEW c \in CallIds PROVE Tame(t, c)
    <2>0. c # NoCall /\ Serial(t, c) /\ up[t] \in Seq(Letter) /\ (Rings(t, c)' <=> Rings(t, c))
      BY <1>0 DEF NoCall, Rings
    <2>1. PICK q : q = up[t]
      OBVIOUS
    <2>2. PICK n \in Nat : n = Len(q) + 1
      BY <2>0, <2>1
    <2>3. /\ q \in Seq(Letter) /\ up'[t] = Append(q, m)
          /\ \A i \in Nat : i \in 1..Len(q) => i < n
      BY <1>0, <2>0, <2>1, <2>2 DEF Posts
    <2>4. ASSUME NEW i \in Nat, NEW kinds PROVE
            Queued(up'[t], i, c, kinds) <=> Queued(q, i, c, kinds) \/ (i = n /\ m.id = c /\ m.type \in kinds)
      BY <2>2, <2>3 DEF Queued
    <2>5. CASE m.id # c
      <3>1. (client'[t].id = c => client[t].id = c) /\ (Holds(t, c)' => Holds(t, c))
        BY <1>1, <2>0, <2>5 DEF Holds
      <3>2. \E l \in Letter : (l.id = c => l.type \notin Final \cup {"answer"}) /\ up'[t] = Append(up[t], l)
        BY <2>1, <2>3, <2>5
      <3> QED BY <2>0, <3>1, <3>2, LessTalk
    <2>6. CASE m.id = c /\ m.type = "answer"
      <3>1. client[t].id = c /\ Holds(t, c) /\ ~Closes(task[t], c) /\ ~Rings(t, c)
            /\ \A i \in Nat : ~Queued(q, i, c, Final)
        BY <2>0, <2>1, <2>6 DEF Serial, Holds, Final
      <3>2. \A i \in Nat : ~Queued(up'[t], i, c, Final)
        BY <2>4, <2>6, <3>1 DEF Final
      <3>3. Serial(t, c)'
        BY <2>0, <3>1, <3>2 DEF Serial, Closes, Own
      <3> QED BY <3>1, <3>3 DEF Tame, MayAnswer
    <2>7. CASE m.id = c /\ m.type \in Final
      <3>1. client[t].id = c /\ client'[t].id = NoCall /\ ~Rings(t, c) /\ ~Holds(t, c)'
        BY <1>1, <2>0, <2>7 DEF Serial, Holds, Final
      <3>2. /\ \A i \in Nat : Queued(up'[t], i, c, {"answer"}) => Queued(q, i, c, {"answer"}) /\ i < n
            /\ \A i \in Nat : Queued(up'[t], i, c, Final) => Queued(q, i, c, Final) \/ i = n
        <4>1. m.type # "answer"
          BY <2>7 DEF Final
        <4>2. \A i \in Nat : Queued(q, i, c, {"answer"}) => i < n
          BY <2>3 DEF Queued
        <4> QED BY <2>4, <4>1, <4>2
      <3>3. Replies(t, c)' => Replies(t, c)
        BY <2>1, <3>2 DEF Replies
      <3>4. \A i \in Nat : Queued(up'[t], i, c, Final) => \A j \in Nat : Queued(up'[t], j, c, {"answer"}) => j < i
        BY <2>0, <2>1, <3>2 DEF Serial
      <3>5. Serial(t, c)'
        BY <2>0, <3>1, <3>3, <3>4 DEF Serial, Closes, Own
      <3>6. MayAnswer(t, c)' => MayAnswer(t, c)
        BY <2>0, <3>1, <3>3 DEF MayAnswer
      <3> QED BY <3>5, <3>6 DEF Tame
    <2> QED BY <2>5, <2>6, <2>7
  <1> QED BY <1>1, <1>2, SameTalk

\* The page takes a ring: there was one, and none is left.
LEMMA RingTaken ==
  ASSUME Inv, NEW t \in Tabs, TakesDown(t), Head(down[t]).type = "incoming", NEW c \in CallIds, c = Head(down[t]).id
  PROVE  Rings(t, c) /\ ~Rings(t, c)'
  <1>1. /\ down[t] # <<>> /\ down[t] \in Seq(Ping) /\ down'[t] = Tail(down[t]) /\ Once(c)
    BY DEF TakesDown, Inv, Typed, Fate
  <1>2. /\ Head(down[t]) = down[t][1] /\ 1 \in 1..Len(down[t])
        /\ \A i \in 1..Len(Tail(down[t])) : i + 1 \in 1..Len(down[t]) /\ Tail(down[t])[i] = down[t][i + 1]
    BY <1>1, SeqHead
  <1>3. Queued(down[t], 1, c, {"incoming"}) /\ Token(c, t, "rings", 1)
    BY <1>2 DEF Queued, Token
  <1>4. ASSUME NEW i \in Nat, Queued(down'[t], i, c, {"incoming"}) PROVE FALSE
    <2>1. i \in 1..Len(Tail(down[t])) /\ Token(c, t, "rings", i + 1)
      BY <1>1, <1>2, <1>4 DEF Queued, Token
    <2>2. i + 1 \in Nat /\ i + 1 # 1 /\ 1 \in Nat /\ "rings" \in Kinds
      BY <2>1 DEF Kinds
    <2> QED BY <1>1, <1>3, <2>1, <2>2 DEF Once
  <1> QED BY <1>3, <1>4 DEF Rings

LEMMA ReceiveTame ==
  ASSUME Inv, Placing, \A s \in Tabs, c \in CallIds : Serial(s, c), NEW t \in Tabs, Receive(t)
  PROVE  \A s \in Tabs, c \in CallIds : Tame(s, c)
  <1>0. /\ client[t] \in PageState /\ client \in [Tabs -> PageState] /\ up \in [Tabs -> Seq(Letter)]
        /\ down \in [Tabs -> Seq(Ping)] /\ down[t] \in Seq(Ping) /\ DownFits(t) /\ up[t] \in Seq(Letter)
    BY PlacingAt DEF Placing, Base, Typed
  <1>1. PICK s : s = Head(down[t])
    OBVIOUS
  <1>2. TakesDown(t) /\ task' = task /\ OnSignal(t, s)
    BY <1>1 DEF Receive, TakesDown, server
  <1>3. s \in Ping /\ PingFits(t, s) /\ down[t] # <<>> /\ down'[t] = Tail(down[t])
        /\ \A v \in Tabs \ {t} : down'[v] = down[v]
    <2>1. down[t] # <<>> /\ down'[t] = Tail(down[t]) /\ \A v \in Tabs \ {t} : down'[v] = down[v]
      BY <1>0, <1>2 DEF TakesDown
    <2>2. s = down[t][1] /\ s \in Ping /\ 1 \in 1..Len(down[t])
      BY <1>0, <1>1, <2>1, SeqHead
    <2> QED BY <1>0, <2>1, <2>2 DEF DownFits
  <1>4. ASSUME s.type = "incoming"
        PROVE  s.id \in CallIds /\ Rings(t, s.id) /\ ~Rings(t, s.id)'
    <2>1. s.id \in CallIds
      BY <1>3, <1>4 DEF PingFits, Called
    <2> QED BY <1>1, <1>2, <1>4, <2>1, RingTaken
  <1>5. CASE s.type = "incoming" /\ client[t].mode \in InCall
    <2>1. PICK m : m = Message("reject", s.from, s.id)
      OBVIOUS
    <2>2. m \in Letter /\ m.type = "reject" /\ m.id = s.id
      BY <1>3, <1>5, <2>1 DEF Message, Letter, Ping, PingFits, SomeUser
    <2>3. Posts(t, m) /\ client' = client
      BY <1>0, <1>2, <1>5, <2>1 DEF OnSignal, Send, Posts
    <2>4. ASSUME NEW c \in CallIds PROVE Tame(t, c)
      <3>0. Serial(t, c) /\ (Rings(t, c)' => Rings(t, c)) /\ (Holds(t, c)' <=> Holds(t, c))
        BY <1>0, <1>3, <2>3, RingsLess DEF Holds
      <3>1. CASE c # s.id
        <4>1. \E l \in Letter : (l.id = c => l.type \notin Final \cup {"answer"}) /\ up'[t] = Append(up[t], l)
          BY <1>0, <2>2, <2>3, <3>1 DEF Posts
        <4> QED BY <1>0, <1>2, <2>3, <3>0, <4>1, LessTalk
      <3>2. CASE c = s.id
        <4>1. PICK q : q = up[t]
          OBVIOUS
        <4>2. PICK n \in Nat : n = Len(q) + 1
          BY <1>0, <4>1
        <4>3. q \in Seq(Letter) /\ up'[t] = Append(q, m) /\ \A i \in Nat : i \in 1..Len(q) => i < n
          BY <1>0, <2>3, <4>1, <4>2 DEF Posts
        <4>4. Rings(t, c) /\ ~Rings(t, c)' /\ client[t].id # c /\ ~Closes(task[t], c) /\ ~Holds(t, c)'
              /\ \A i \in Nat : ~Queued(q, i, c, Final)
          BY <1>4, <1>5, <2>3, <3>0, <3>2, <4>1 DEF Serial, Holds
        <4>5. /\ \A i \in Nat : Queued(up'[t], i, c, {"answer"}) => Queued(q, i, c, {"answer"}) /\ i < n
              /\ \A i \in Nat : Queued(up'[t], i, c, Final) => i = n
          BY <2>2, <4>2, <4>3, <4>4 DEF Queued
        <4>6. Serial(t, c)'
          BY <1>2, <4>4, <4>5 DEF Serial, Closes, Own
        <4> QED BY <4>4, <4>6 DEF Tame, MayAnswer
      <3> QED BY <3>1, <3>2
    <2>5. \A v \in Tabs \ {t} : up'[v] = up[v]
      BY <1>0, <2>3 DEF Posts
    <2> QED BY <1>2, <1>3, <2>3, <2>4, <2>5, SameTalk
  <1>6. CASE s.type = "incoming" /\ client[t].mode \notin InCall
    <2>1. PICK p : p = [client[t] EXCEPT !.mode = "incoming", !.with = s.from, !.id = s.id]
      OBVIOUS
    <2>2. client' = [client EXCEPT ![t] = p] /\ up' = up
      BY <1>2, <1>6, <2>1 DEF OnSignal
    <2>3. p.id = s.id
      BY <1>0, <1>3, <2>1 DEF PageState
    <2>4. client'[t] = p /\ \A v \in Tabs \ {t} : client'[v] = client[v]
      BY <1>0, <2>2
    <2>5. ASSUME NEW c \in CallIds PROVE Tame(t, c)
      <3>0. Serial(t, c) /\ (Rings(t, c)' => Rings(t, c))
        BY <1>0, <1>3, RingsLess
      <3>1. CASE c # s.id
        <4>1. client'[t].id # c /\ ~Holds(t, c)'
          BY <2>3, <2>4, <3>1 DEF Holds
        <4> QED BY <1>0, <1>2, <2>2, <3>0, <4>1, LessTalk
      <3>2. CASE c = s.id
        <4>1. Rings(t, c) /\ ~Rings(t, c)' /\ ~Closes(task[t], c) /\ \A i \in Nat : ~Queued(up[t], i, c, Final)
          BY <1>4, <1>6, <3>0, <3>2 DEF Serial
        <4>2. Serial(t, c)'
          BY <1>2, <2>2, <4>1 DEF Serial, Closes, Own
        <4> QED BY <4>1, <4>2 DEF Tame, MayAnswer
      <3> QED BY <3>1, <3>2
    <2> QED BY <1>2, <1>3, <2>2, <2>4, <2>5, SameTalk
  <1>7. CASE s.type = "answer"
    <2>1. PICK m : m = IF client[t].mode = "calling" THEN "ongoing" ELSE client[t].mode
      OBVIOUS
    <2>2. PICK p : p = [client[t] EXCEPT !.mode = m]
      OBVIOUS
    <2>3. client' = [client EXCEPT ![t] = p] /\ up' = up
      BY <1>2, <1>7, <2>1, <2>2 DEF OnSignal
    <2>4. m \in Mode /\ (m \in Shown => client[t].mode \in Shown)
      BY <1>0, <2>1 DEF PageState, Mode, Shown
    <2>5. p \in PageState /\ p.id = client[t].id /\ p.mode = m
      BY <1>0, <2>2, <2>4 DEF PageState
    <2> QED BY <1>2, <2>3, <2>4, <2>5, PageTame
  <1>8. CASE s.type \notin {"incoming", "answer"}
    <2>1. client' = [client EXCEPT ![t] = CleanedUp(t)] /\ up' = up
      BY <1>2, <1>8 DEF OnSignal
    <2>2. CleanedUp(t) \in PageState /\ CleanedUp(t).id = NoCall /\ CleanedUp(t).mode \notin Shown
      BY CleanedUpFits DEF Shown
    <2> QED BY <1>2, <2>1, <2>2, PageTame
  <1> QED BY <1>5, <1>6, <1>7, <1>8

LEMMA PagesTame ==
  ASSUME Inv, Placing, \A s \in Tabs, c \in CallIds : Serial(s, c), NEW t \in Tabs, Page(t)
  PROVE  \A s \in Tabs, c \in CallIds : Tame(s, c)
  <1>0. client[t] \in PageState /\ client \in [Tabs -> PageState] /\ task \in [Tabs -> Task]
    BY PlacingAt DEF Placing, Base, Typed
  <1>1. CASE Open(t)
    <2>1. PICK p : p = [client[t] EXCEPT !.mode = "opening"]
      OBVIOUS
    <2>2. PICK k : k = [NoTask EXCEPT !.plan = <<"join", "appear", "accept">>]
      OBVIOUS
    <2>3. client' = [client EXCEPT ![t] = p] /\ task' = [task EXCEPT ![t] = k] /\ UNCHANGED <<up, down>>
      BY <1>0, <1>1, <2>1, <2>2 DEF Open
    <2>4. p.mode = "opening" /\ p.id = client[t].id
      BY <1>0, <2>1 DEF PageState
    <2>5. k.id = NoCall
      BY <2>2 DEF NoTask
    <2>6. /\ client'[t] = p /\ task'[t] = k
          /\ \A s \in Tabs \ {t} : client'[s] = client[s] /\ task'[s] = task[s]
      BY <1>0, <2>3
    <2>7. ASSUME NEW c \in CallIds PROVE Tame(t, c)
      <3>1. c # NoCall /\ (Rings(t, c)' <=> Rings(t, c)) /\ ~Holds(t, c)' /\ up[t] \in Seq(Letter)
        BY <2>3, <2>4, <2>6, PlacingAt DEF NoCall, Rings, Holds, Shown
      <3>2. ~Closes(task'[t], c) /\ task'[t].id # c
        BY <2>5, <2>6, <3>1 DEF Closes
      <3> QED BY <2>3, <2>4, <2>6, <3>1, <3>2, LessTalk
    <2> QED BY <2>3, <2>6, <2>7, SameTalk
  <1>2. CASE Close(t)
    <2>1. PICK m : m = Message("close", NoUser, NoCall)
      OBVIOUS
    <2>2. m \in Letter /\ m.type \notin Final \cup {"answer"}
      BY <2>1 DEF Message, Letter, SomeUser, Id, Final
    <2>3. Posts(t, m) /\ client' = [client EXCEPT ![t] = Away] /\ task' = task /\ down' = [down EXCEPT ![t] = <<>>]
      BY <1>2, <2>1 DEF Close, Send, Posts, server
    <2>4. Away \in PageState /\ Away.id = NoCall /\ Away.mode \notin Shown
      BY CleanedUpFits DEF Away, Idle, Shown
    <2> QED BY <2>2, <2>3, <2>4, PageTame
  <1>3. ASSUME NEW u \in Users, StartCall(t, u) PROVE \A s \in Tabs, c \in CallIds : Tame(s, c)
    <2>1. PICK c \in CallIds : client' = [client EXCEPT ![t] = [mode |-> "calling", with |-> u, id |-> NoCall, dial |-> c]]
      BY <1>3 DEF StartCall
    <2>2. PICK p : p = [mode |-> "calling", with |-> u, id |-> NoCall, dial |-> c]
      OBVIOUS
    <2>3. p \in PageState /\ p.id = NoCall /\ p.mode \notin Shown
      BY <2>2 DEF PageState, Mode, SomeUser, Id, Shown
    <2> QED BY <1>3, <2>1, <2>2, <2>3, PageTame DEF StartCall
  <1>4. CASE Offer(t)
    <2>1. PICK m : m = Message("offer", row[client[t].dial].receiver, client[t].dial)
      OBVIOUS
    <2>2. PICK p : p = [client[t] EXCEPT !.dial = NoCall]
      OBVIOUS
    <2>3. Posts(t, m) /\ client' = [client EXCEPT ![t] = p] /\ task' = task /\ down' = down /\ client[t].dial # NoCall
      BY <1>4, <2>1, <2>2 DEF Offer, Send, Posts, server
    <2>4. p \in PageState /\ p.id = client[t].id /\ p.mode = client[t].mode
      BY <1>0, <2>2 DEF PageState, Id
    <2>5. m \in Letter /\ m.type \notin Final \cup {"answer"}
      <3>1. PICK u \in Users : Unplaced(u, client[t].dial)
        BY <2>3, PlacingAt DEF PageFits
      <3> QED BY <2>1, <3>1 DEF Message, Letter, Unplaced, SomeUser, Id, Final
    <2> QED BY <2>3, <2>4, <2>5, PageTame
  <1>5. CASE MediaDenied(t)
    <2>1. client' = [client EXCEPT ![t] = Idle] /\ UNCHANGED <<up, down, task>>
      BY <1>5 DEF MediaDenied, server
    <2>2. Idle \in PageState /\ Idle.id = NoCall /\ Idle.mode \notin Shown
      BY CleanedUpFits DEF Idle, Shown
    <2> QED BY <2>1, <2>2, PageTame
  <1>6. CASE Accept(t)
    <2>1. PICK p : p = [client[t] EXCEPT !.mode = "connecting"]
      OBVIOUS
    <2>2. client' = [client EXCEPT ![t] = p] /\ UNCHANGED <<up, down, task>> /\ client[t].mode \in Shown
      BY <1>6, <2>1 DEF Accept, server, Shown
    <2>3. p \in PageState /\ p.id = client[t].id
      BY <1>0, <2>1 DEF PageState, Mode
    <2> QED BY <2>2, <2>3, PageTame
  <1>7. CASE FailToConnect(t)
    <2>1. client' = [client EXCEPT ![t] = CleanedUp(t)] /\ UNCHANGED <<up, down, task>>
      BY <1>7 DEF FailToConnect, server
    <2>2. CleanedUp(t) \in PageState /\ CleanedUp(t).id = NoCall /\ CleanedUp(t).mode \notin Shown
      BY CleanedUpFits DEF Shown
    <2> QED BY <2>1, <2>2, PageTame
  <1>8. CASE Answer(t)
    <2>1. PICK m : m = Message("answer", client[t].with, client[t].id)
      OBVIOUS
    <2>2. PICK p : p = [client[t] EXCEPT !.mode = "ongoing"]
      OBVIOUS
    <2>3. Posts(t, m) /\ client' = [client EXCEPT ![t] = p] /\ UNCHANGED <<down, task>> /\ client[t].mode \in Shown
      BY <1>8, <2>1, <2>2 DEF Answer, Send, Posts, server, Shown
    <2>4. p \in PageState /\ p.id = client[t].id /\ p.mode \notin Shown
      BY <1>0, <2>2 DEF PageState, Mode, Shown
    <2>5. m \in Letter /\ m.id = client[t].id /\ m.type = "answer"
      BY <1>0, <2>1 DEF Message, Letter, PageState
    <2> QED BY <2>3, <2>4, <2>5, PostTame
  <1>9. ASSUME NEW type \in Final, Send(t, Message(type, client[t].with, client[t].id), CleanedUp(t)),
               UNCHANGED <<down, server>>
        PROVE  \A s \in Tabs, c \in CallIds : Tame(s, c)
    <2>1. PICK m : m = Message(type, client[t].with, client[t].id)
      OBVIOUS
    <2>2. Posts(t, m) /\ client' = [client EXCEPT ![t] = CleanedUp(t)] /\ UNCHANGED <<down, task>>
      BY <1>9, <2>1 DEF Send, Posts, server
    <2>3. CleanedUp(t) \in PageState /\ CleanedUp(t).id = NoCall
      BY CleanedUpFits
    <2>4. m \in Letter /\ m.id = client[t].id /\ m.type \in Final
      BY <1>0, <2>1 DEF Message, Letter, PageState, Final
    <2> QED BY <2>2, <2>3, <2>4, PostTame
  <1>10. CASE Decline(t) \/ Hangup(t)
    BY <1>9, <1>10 DEF Decline, Hangup, Final
  <1>11. CASE Receive(t)
    BY <1>11, ReceiveTame
  <1> QED BY <1>1, <1>2, <1>3, <1>4, <1>5, <1>6, <1>7, <1>8, <1>10, <1>11 DEF Page

\* A handler's step.
LEMMA ServeTame ==
  ASSUME Placing, \A s \in Tabs, c \in CallIds : Serial(s, c), NEW t \in Tabs, NEW k, task' = [task EXCEPT ![t] = k],
         \/ k = NoTask
         \/ k.id = task[t].id /\ k.tells = task[t].tells /\ k.answered = task[t].answered,
         up' = up, \A s \in Tabs : client'[s] = client[s] \/ client'[s] = [client[s] EXCEPT !.mode = "idle"],
         \A s \in Tabs : \/ down'[s] = down[s]
                         \/ \E x \in Ping : x.type # "incoming" /\ down'[s] = Append(down[s], x)
  PROVE  \A s \in Tabs, c \in CallIds : Tame(s, c)
  <1> SUFFICES ASSUME NEW s \in Tabs, NEW c \in CallIds PROVE Tame(s, c)
    OBVIOUS
  <1>0. c # NoCall /\ Serial(s, c) /\ up[s] \in Seq(Letter) /\ down[s] \in Seq(Ping) /\ client[s] \in PageState
        /\ task \in [Tabs -> Task] /\ up'[s] = up[s]
    BY PlacingAt DEF NoCall, Placing, Base, Typed
  <1>1. Rings(s, c)' => Rings(s, c)
    BY <1>0, RingsLess
  <1>2. (client'[s].id = c => client[s].id = c) /\ (Holds(s, c)' => Holds(s, c))
    <2>1. CASE client'[s] = client[s]
      BY <2>1 DEF Holds
    <2>2. CASE client'[s] = [client[s] EXCEPT !.mode = "idle"]
      BY <1>0, <2>2 DEF Holds, PageState, Shown
    <2> QED BY <2>1, <2>2
  <1>3. /\ Closes(task'[s], c) => Closes(task[s], c)
        /\ task'[s].id = c /\ task'[s].tells = "answer" => task[s].id = c /\ task[s].tells = "answer"
    <2>1. CASE s # t
      BY <1>0, <2>1
    <2>2. CASE s = t
      <3>1. task'[s] = k /\ NoTask.id = NoCall
        BY <1>0, <2>2 DEF NoTask
      <3> QED BY <1>0, <2>2, <3>1 DEF Closes, Own
    <2> QED BY <2>1, <2>2
  <1> QED BY <1>0, <1>1, <1>2, <1>3, LessTalk

\* A call whose row has no caller yet is nobody's to answer or to end.
LEMMA Unheard ==
  ASSUME Placing, NEW c \in CallIds, row[c].caller = NoUser, NEW s \in Tabs
  PROVE  /\ client[s].id # c /\ ~MayAnswer(s, c) /\ ~Closes(task[s], c)
         /\ \A i \in Nat : ~Queued(up[s], i, c, Final)
         /\ task[s].tells # "none" => task[s].id # c
  <1>0. /\ PageFits(s, client[s]) /\ UpFits(s) /\ DownFits(s) /\ TaskFits(s, task[s]) /\ c # NoCall
        /\ \A u, v : ~Called(u, v, c)
    BY PlacingAt DEF NoCall, Called
  <1>1. client[s].id # c
    BY <1>0 DEF PageFits
  <1>2. task[s].tells # "none" => task[s].id # c
    BY <1>0 DEF TaskFits, Parties
  <1>3. \A i \in Nat : ~Queued(up[s], i, c, Final) /\ ~Queued(up[s], i, c, {"answer"})
    BY <1>0 DEF Queued, UpFits, LetterFits, Final
  <1>4. ~Rings(s, c)
    BY <1>0 DEF Rings, Queued, DownFits, PingFits
  <1>5. ~Closes(task[s], c)
    BY <1>2 DEF Closes, Own
  <1> QED BY <1>1, <1>2, <1>3, <1>4, <1>5 DEF MayAnswer, Replies, Holds

Unread(q) == \A i \in 1..Len(q) : q[i] \notin {"read", "save"}
Paired(q) == q # <<>> /\ Head(q) = "read" => 2 \in 1..Len(q) /\ q[2] = "save"

LEMMA FinalizePairs ==
  ASSUME NEW id, NEW rest \in Rests
  PROVE  Paired(Finalize(id) \o rest) /\ (id # NoCall => ~Unread(Finalize(id) \o rest))
  <1>1. rest \in Seq(Settling) /\ rest # <<>>
    BY RestsSettle
  <1>2. CASE id = NoCall
    <2>1. Finalize(id) \o rest = rest
      BY <1>1, <1>2 DEF Finalize
    <2>2. Head(rest) \in Settling
      BY <1>1, SeqHead
    <2>3. "read" \notin Settling
      BY DEF Settling
    <2> QED BY <1>2, <2>1, <2>2, <2>3 DEF Paired
  <1>3. CASE id # NoCall
    <2>1. PICK q : q = <<"read", "save">> \o rest
      OBVIOUS
    <2>2. Finalize(id) \o rest = q
      BY <1>3, <2>1 DEF Finalize
    <2>3. Len(q) = Len(rest) + 2 /\ q[1] = "read" /\ q[2] = "save" /\ Len(rest) \in Nat
      BY <1>1, <2>1
    <2>4. 1 \in 1..Len(q) /\ 2 \in 1..Len(q)
      BY <2>3
    <2> QED BY <2>2, <2>3, <2>4 DEF Paired, Unread
  <1> QED BY <1>2, <1>3

\* What becomes of the letter a handler starts from.
LEMMA HandlerIs ==
  ASSUME Placing, NEW t \in Tabs, NEW m \in Letter, LetterFits(t, m), NEW k, k = Handler(t, m)
  PROVE  /\ k.tells = "answer" => m.type = "answer" /\ k.id = m.id /\ ~Unread(k.plan)
         /\ k.tells # "answer" /\ Own(k) => m.type \in Final /\ k.id = m.id
         /\ ~AtSave(k) /\ Paired(k.plan)
  <1>1. PICK c : c = consumer[t]
    OBVIOUS
  <1>2. ASSUME NEW plan, NEW first, NEW S, plan \in Seq(S), plan # <<>>, Head(plan) = first, k.plan = plan,
               first \notin {"read", "save"}
        PROVE  ~AtSave(k) /\ Paired(k.plan)
    BY <1>2 DEF AtSave, Paired
  <1>3. CASE m.type = "offer"
    <2>0. PICK plan : plan = <<"reach", "free", "ring">>
      OBVIOUS
    <2>1. k = Marking(plan, "none", m.to, m.id, "none", FALSE)
      BY <1>3, <2>0 DEF Handler, NoTask, Marking
    <2>2. k.plan = plan /\ k.tells = "none"
      BY <2>1 DEF Marking
    <2>3. <<"reach", "free", "ring">> \in Seq(NotHolding) /\ <<"reach", "free", "ring">> # <<>>
          /\ Head(<<"reach", "free", "ring">>) = "reach"
      BY DEF NotHolding, Opening
    <2> QED BY <1>2, <2>0, <2>2, <2>3 DEF Own
  <1>4. ASSUME NEW rest \in Rests, NEW tells \in {"answer", "rejected", "ended"}, NEW status, NEW answered \in BOOLEAN,
               k = Marking(Finalize(m.id) \o rest, tells, m.to, m.id, status, answered)
        PROVE  ~AtSave(k) /\ Paired(k.plan) /\ k.id = m.id /\ k.tells = tells /\ (m.id # NoCall => ~Unread(k.plan))
    <2>1. PICK plan : plan = Finalize(m.id) \o rest
      OBVIOUS
    <2>2. plan # <<>> /\ Head(plan) # "save" /\ Paired(plan) /\ (m.id # NoCall => ~Unread(plan))
      BY <2>1, FinalizeShape, FinalizePairs
    <2>3. k.plan = plan /\ k.tells = tells /\ k.id = m.id
      BY <1>4, <2>1 DEF Marking
    <2> QED BY <2>2, <2>3 DEF AtSave
  <1>5. CASE m.type = "answer"
    <2>1. k = Marking(Finalize(m.id) \o <<"hold own", "hold peer", "tell">>, "answer", m.to, m.id, "ongoing", TRUE)
      BY <1>5 DEF Handler, Marking, NoTask
    <2>2. <<"hold own", "hold peer", "tell">> \in Rests
      BY DEF Rests
    <2>3. m.id # NoCall
      BY <1>5 DEF LetterFits, Called, NoCall
    <2> QED BY <1>4, <1>5, <2>1, <2>2, <2>3
  <1>6. CASE m.type = "reject"
    <2>1. k = Marking(Finalize(m.id) \o <<"tell">>, "rejected", m.to, m.id, "rejected", FALSE)
      BY <1>6 DEF Handler, Marking, NoTask
    <2>2. <<"tell">> \in Rests
      BY DEF Rests
    <2> QED BY <1>4, <1>6, <2>1, <2>2 DEF Final
  <1>7. CASE m.type = "end"
    <2>1. k = Marking(Finalize(m.id) \o <<"drop own", "drop peer", "tell">>, "ended", m.to, m.id, "ended", FALSE)
      BY <1>7 DEF Handler, Marking, NoTask
    <2>2. <<"drop own", "drop peer", "tell">> \in Rests
      BY DEF Rests
    <2> QED BY <1>4, <1>7, <2>1, <2>2 DEF Final
  <1>8. CASE m.type = "close" /\ c.active # NoCall /\ c.peer # NoUser
    <2>1. PICK plan : plan = <<"read", "save", "tell", "drop own", "drop peer", "vanish", "leave">>
      OBVIOUS
    <2>2. k = Marking(plan, "ended", c.peer, c.active, "ended", TRUE)
      BY <1>1, <1>8, <2>1 DEF Handler, Marking, NoTask
    <2>3. k.plan = plan /\ k.tells = "ended" /\ k.answered = TRUE
      BY <2>2 DEF Marking
    <2>4. Len(plan) = 7 /\ plan[1] = "read" /\ plan[2] = "save" /\ plan # <<>> /\ Head(plan) = "read"
      <3>1. Len(plan) = 7 /\ plan[1] = "read" /\ plan[2] = "save"
        BY <2>1
      <3>2. <<"read", "save", "tell", "drop own", "drop peer", "vanish", "leave">> \in Seq(NotHolding)
        BY DEF NotHolding, Finishing
      <3>3. plan \in Seq(NotHolding) /\ plan # <<>>
        BY <2>1, <3>1, <3>2
      <3> QED BY <3>1, <3>3, SeqHead
    <2>5. 2 \in 1..Len(plan)
      BY <2>4
    <2> QED BY <2>3, <2>4, <2>5 DEF AtSave, Paired, Own
  <1>9. CASE m.type = "close" /\ ~(c.active # NoCall /\ c.peer # NoUser)
    <2>0. PICK plan : plan = <<"vanish", "leave">>
      OBVIOUS
    <2>1. k = Marking(plan, "none", NoUser, NoCall, "none", FALSE)
      BY <1>1, <1>9, <2>0 DEF Handler, NoTask, Marking
    <2>2. k.plan = plan /\ k.tells = "none"
      BY <2>1 DEF Marking
    <2>3. <<"vanish", "leave">> \in Seq(NotHolding) /\ <<"vanish", "leave">> # <<>> /\ Head(<<"vanish", "leave">>) = "vanish"
      BY DEF NotHolding, Finishing
    <2> QED BY <1>2, <2>0, <2>2, <2>3 DEF Own
  <1> QED BY <1>1, <1>3, <1>5, <1>6, <1>7, <1>8, <1>9 DEF Letter

LEMMA HandleTame ==
  ASSUME Placing, \A s \in Tabs, c \in CallIds : Serial(s, c), NEW t \in Tabs, Handle(t)
  PROVE  \A s \in Tabs, c \in CallIds : Tame(s, c)
  <1>0. /\ up \in [Tabs -> Seq(Letter)] /\ task \in [Tabs -> Task]
        /\ up[t] \in Seq(Letter) /\ UpFits(t)
    BY PlacingAt DEF Placing, Base, Typed
  <1>1. PICK m : m = Head(up[t])
    OBVIOUS
  <1>2. PICK k : k = Handler(t, m)
    OBVIOUS
  <1>3. /\ up[t] # <<>> /\ task[t] = NoTask /\ task' = [task EXCEPT ![t] = k] /\ up' = [up EXCEPT ![t] = Tail(@)]
        /\ UNCHANGED <<client, down>>
    BY <1>1, <1>2 DEF Handle
  <1>4. /\ m = up[t][1] /\ m \in Letter /\ 1 \in 1..Len(up[t])
        /\ \A i \in 1..Len(Tail(up[t])) : i + 1 \in 1..Len(up[t]) /\ Tail(up[t])[i] = up[t][i + 1]
    BY <1>0, <1>1, <1>3, SeqHead
  <1>5. LetterFits(t, m)
    BY <1>0, <1>4 DEF UpFits
  <1>6. /\ up'[t] = Tail(up[t]) /\ task'[t] = k
        /\ \A s \in Tabs \ {t} : up'[s] = up[s] /\ task'[s] = task[s]
    BY <1>0, <1>3
  <1>7. ASSUME NEW c \in CallIds PROVE Tame(t, c)
    <2>0. Serial(t, c) /\ (Rings(t, c)' <=> Rings(t, c)) /\ (Holds(t, c)' <=> Holds(t, c))
      BY <1>3 DEF Rings, Holds
    <2>1. \A i \in Nat : \A kinds : Queued(up'[t], i, c, kinds) => Queued(up[t], i + 1, c, kinds)
      BY <1>4, <1>6 DEF Queued
    <2>2. Closes(k, c) => Queued(up[t], 1, c, Final)
      BY <1>2, <1>4, <1>5, HandlerIs DEF Closes, Queued
    <2>3. k.id = c /\ k.tells = "answer" => Queued(up[t], 1, c, {"answer"})
      BY <1>2, <1>4, <1>5, HandlerIs DEF Queued
    <2>4. Replies(t, c)' => \E j \in Nat : j > 1 /\ Queued(up[t], j, c, {"answer"})
      <3>1. ASSUME NEW i \in Nat, Queued(up'[t], i, c, {"answer"})
            PROVE  i + 1 \in Nat /\ i + 1 > 1 /\ Queued(up[t], i + 1, c, {"answer"})
        <4>1. i >= 1
          BY <1>0, <1>6, <3>1 DEF Queued
        <4> QED BY <2>1, <3>1, <4>1
      <3> QED BY <3>1 DEF Replies
    <2>5. Closes(task'[t], c) => ~Rings(t, c)' /\ ~Holds(t, c)' /\ ~Replies(t, c)'
      <3>1. \A j \in Nat : Queued(up[t], 1, c, Final) /\ Queued(up[t], j, c, {"answer"}) => j < 1
        BY <2>0 DEF Serial
      <3> QED BY <1>6, <2>0, <2>2, <2>4, <3>1 DEF Serial
    <2>6. ASSUME NEW i \in Nat, Queued(up'[t], i, c, Final)
          PROVE  ~Rings(t, c)' /\ ~Holds(t, c)' /\ \A j \in Nat : Queued(up'[t], j, c, {"answer"}) => j < i
      <3>1. Queued(up[t], i + 1, c, Final) /\ i + 1 \in Nat
        BY <2>1, <2>6
      <3>2. ASSUME NEW j \in Nat, Queued(up'[t], j, c, {"answer"}) PROVE j < i
        <4>1. Queued(up[t], j + 1, c, {"answer"}) /\ j + 1 \in Nat
          BY <2>1, <3>2
        <4>2. j + 1 < i + 1
          BY <2>0, <3>1, <4>1 DEF Serial
        <4> QED BY <4>2
      <3> QED BY <2>0, <3>1, <3>2 DEF Serial
    <2>7. client'[t].id = c => ~Rings(t, c)'
      BY <1>3, <2>0 DEF Serial
    <2>8. Serial(t, c)'
      BY <2>5, <2>6, <2>7 DEF Serial, Closes, Own
    <2>9. MayAnswer(t, c)' => MayAnswer(t, c)
      BY <1>6, <2>0, <2>3, <2>4 DEF MayAnswer, Replies
    <2> QED BY <2>8, <2>9 DEF Tame
  <1> QED BY <1>3, <1>6, <1>7, SameTalk

LEMMA RingTame ==
  ASSUME Placing, \A s \in Tabs, c \in CallIds : Serial(s, c), NEW t \in Tabs, Ring(t),
         NEW s \in Tabs, NEW c \in CallIds
  PROVE  Serial(s, c)' /\ (MayAnswer(s, c)' => MayAnswer(s, c) \/ c = task[t].id)
  <1>0. /\ task[t] \in Task /\ TaskOK(task[t]) /\ TaskFits(t, task[t]) /\ Typed /\ task \in [Tabs -> Task]
        /\ task[t].id \in Id /\ UserOf[t] \in SomeUser /\ down[s] \in Seq(Ping) /\ up[s] \in Seq(Letter)
        /\ Serial(s, c) /\ c # NoCall
    BY PlacingAt DEF Placing, Base, Typed, Task, SomeUser, NoCall
  <1>1. PICK x : x = Signal("incoming", UserOf[t], task[t].id)
    OBVIOUS
  <1>2. At(t, "ring") /\ Relay(task[t].to, x) /\ Done(t) /\ client' = client /\ up' = up
    BY <1>1 DEF Ring
  <1>3. x \in Ping /\ x.id = task[t].id
    BY <1>0, <1>1 DEF Signal, Ping
  <1>4. down'[s] = down[s] \/ down'[s] = Append(down[s], x)
    BY <1>0, <1>2, <1>3, RelayTyped
  <1>5. task'[s] = task[s] \/ task'[s] = NoTask
    BY <1>0, <1>2 DEF Done
  <1>6. NoTask.id = NoCall
    BY DEF NoTask
  <1>7. CASE c # task[t].id
    <2>1. ASSUME Rings(s, c)' PROVE Rings(s, c)
      <3>1. PICK i \in Nat : Queued(down'[s], i, c, {"incoming"})
        BY <2>1 DEF Rings
      <3>2. CASE down'[s] = down[s]
        BY <3>1, <3>2 DEF Rings
      <3>3. CASE down'[s] = Append(down[s], x)
        <4>1. i \in 1..Len(Append(down[s], x)) /\ Append(down[s], x)[i] # x
          BY <1>3, <1>7, <3>1, <3>3 DEF Queued
        <4>2. i \in 1..Len(down[s]) /\ Append(down[s], x)[i] = down[s][i]
          BY <1>0, <1>3, <4>1
        <4>3. Queued(down[s], i, c, {"incoming"})
          BY <3>1, <3>3, <4>2 DEF Queued
        <4> QED BY <4>3 DEF Rings
      <3> QED BY <1>4, <3>2, <3>3
    <2>2. Tame(s, c)
      BY <1>0, <1>2, <1>5, <1>6, <2>1, LessTalk DEF Holds, Closes
    <2> QED BY <2>2 DEF Tame
  <1>8. CASE c = task[t].id
    <2>1. task[t].tells = "none" /\ ~(task[t].plan \in Seq(Connecting))
      <3>1. "ring" \in Opening /\ "ring" \notin Connecting
        BY DEF Opening, Connecting
      <3> QED BY <1>0, <1>2, <3>1, StepOf, HeadIn
    <2>2. row[c].caller = NoUser
      BY <1>0, <1>8, <2>1 DEF TaskFits, Unplaced
    <2>3. client[s].id # c /\ ~Closes(task[s], c) /\ \A i \in Nat : ~Queued(up[s], i, c, Final)
      BY <2>2, Unheard
    <2>4. ~Closes(task'[s], c)
      BY <1>0, <1>5, <1>6, <2>3 DEF Closes
    <2>5. Serial(s, c)'
      BY <1>2, <2>3, <2>4 DEF Serial, Closes, Own
    <2> QED BY <1>8, <2>5
  <1> QED BY <1>7, <1>8

-----------------------------------------------------------------------------
(* What the saves and the flags rely on.                                   *)
Flagged(u) ==
  busy[u] # NoCall => row[busy[u]].started /\ \E v \in Users : Parties(u, v, busy[u])

\* A call that is over before the receiver's answer is marked was ended by the
\* caller's closing tab.
OverStarted(t, c) == MayAnswer(t, c) /\ row[c].status \in Over => row[c].started

\* An answer has marked the row before its flags are set, and the copy of the
\* row that a refusal or an end writes back knows what the flags know.
Settles(k) ==
  /\ Paired(k.plan)
  /\ k.tells = "answer" /\ Unread(k.plan) => row[k.id].started
  /\ k.tells = "answer" /\ AtSave(k) /\ k.read.status \in Over => row[k.id].started
  /\ AtSave(k) /\ ~k.answered /\ k.read.status \notin Over /\ (\E u \in Users : busy[u] = k.id) => k.read.started

Agreed ==
  /\ \A u \in Users : Flagged(u)
  /\ \A t \in Tabs, c \in CallIds : Serial(t, c) /\ OverStarted(t, c)
  /\ \A t \in Tabs : Settles(task[t])

\* No row of a call with a caller changes, and no other becomes over.
RowsCalm == \A c \in CallIds : row'[c] = row[c] \/ (row[c].caller = NoUser /\ row'[c].status \notin Over)

LEMMA MayAnswerCalled ==
  ASSUME Placing, NEW t \in Tabs, NEW c \in CallIds, MayAnswer(t, c)
  PROVE  \E v \in Users : Called(UserOf[t], v, c)
  <1>0. /\ PageFits(t, client[t]) /\ UpFits(t) /\ DownFits(t) /\ TaskFits(t, task[t]) /\ c # NoCall
    BY PlacingAt DEF NoCall
  <1>1. CASE Rings(t, c)
    <2>1. PICK i \in 1..Len(down[t]) : down[t][i].type = "incoming" /\ down[t][i].id = c
      BY <1>1 DEF Rings, Queued
    <2>2. Called(UserOf[t], down[t][i].from, c)
      BY <1>0, <2>1 DEF DownFits, PingFits
    <2> QED BY <2>2 DEF Called
  <1>2. CASE Holds(t, c)
    <2>1. Called(UserOf[t], client[t].with, c)
      BY <1>0, <1>2 DEF Holds, PageFits
    <2> QED BY <2>1 DEF Called
  <1>3. CASE Replies(t, c)
    <2>1. PICK i \in 1..Len(up[t]) : up[t][i].type = "answer" /\ up[t][i].id = c
      BY <1>3 DEF Replies, Queued
    <2>2. Called(UserOf[t], up[t][i].to, c)
      BY <1>0, <2>1 DEF UpFits, LetterFits
    <2> QED BY <2>2 DEF Called
  <1>4. CASE task[t].id = c /\ task[t].tells = "answer"
    <2>1. Called(UserOf[t], task[t].to, c)
      BY <1>0, <1>4 DEF TaskFits, Own
    <2> QED BY <2>1 DEF Called
  <1> QED BY <1>1, <1>2, <1>3, <1>4 DEF MayAnswer

LEMMA FlagStays ==
  ASSUME RowsCalm, NEW u \in Users, Flagged(u), busy'[u] \in {busy[u], NoCall}
  PROVE  Flagged(u)'
  <1>1. CASE busy'[u] = NoCall
    BY <1>1 DEF Flagged
  <1>2. CASE busy'[u] = busy[u] /\ busy[u] # NoCall
    <2>1. PICK v \in Users : row[busy[u]].started /\ Parties(u, v, busy[u])
      BY <1>2 DEF Flagged
    <2>2. PICK c \in CallIds : c = busy[u] /\ row[c].caller \in Users
      BY <2>1 DEF Parties, Called
    <2>3. row'[c] = row[c]
      BY <2>2 DEF RowsCalm
    <2>4. Parties(u, v, c)'
      BY <2>1, <2>2, <2>3 DEF Parties, Called
    <2>5. busy'[u] = c
      BY <1>2, <2>2
    <2>6. Parties(u, v, busy[u])'
      BY <2>4, <2>5 DEF Parties, Called
    <2> QED BY <2>1, <2>2, <2>3, <2>5, <2>6 DEF Flagged
  <1> QED BY <1>1, <1>2

LEMMA OverStays ==
  ASSUME NEW t \in Tabs, NEW c \in CallIds, OverStarted(t, c), RowsCalm,
         MayAnswer(t, c)' => MayAnswer(t, c) \/ row'[c].status \notin Over
  PROVE  OverStarted(t, c)'
  BY DEF OverStarted, RowsCalm

\* A handler that does not move.
LEMMA SettlesStay ==
  ASSUME Placing, RowsCalm, NEW s \in Tabs, Settles(task[s]), task'[s] = task[s],
         AtSave(task[s]) /\ ~task[s].answered =>
           \A u \in Users : busy'[u] \in {busy[u], NoCall} \/ busy'[u] # task[s].id
  PROVE  Settles(task[s])'
  <1>0. task[s] \in Task /\ TaskOK(task[s]) /\ TaskFits(s, task[s])
    BY PlacingAt
  <1>1. PICK k : k = task[s]
    OBVIOUS
  <1>2. ASSUME k.tells = "answer" PROVE row'[k.id] = row[k.id]
    <2>1. PICK c \in CallIds : c = k.id
      BY <1>0, <1>1, <1>2 DEF TaskFits, Task, Id
    <2>2. row[c].caller # NoUser
      BY <1>1, <1>2, <2>1, Unheard
    <2> QED BY <2>1, <2>2 DEF RowsCalm
  <1>3. AtSave(k) /\ ~k.answered /\ (\E u \in Users : busy'[u] = k.id) => \E u \in Users : busy[u] = k.id
    <2>1. AtSave(k) => k.id # NoCall
      <3>1. AtSave(k) => At(s, "save")
        BY <1>1 DEF AtSave, At
      <3>2. AtSave(k) => k.id \in CallIds
        BY <1>0, <1>1, <3>1, StepOf
      <3> QED BY <3>2 DEF NoCall
    <2> QED BY <1>1, <2>1
  <1>4. Settles(k)'
    BY <1>1, <1>2, <1>3 DEF Settles
  <1> QED BY <1>1, <1>4 DEF Settles, AtSave

\* A step of tab t that saves no row: its own handler is looked at apart.
LEMMA AgreedStay ==
  ASSUME OneTabEach, Placing, Agreed, RowsCalm, NEW t \in Tabs,
         \A s \in Tabs, c \in CallIds : Serial(s, c)' /\ (MayAnswer(s, c)' => MayAnswer(s, c) \/ row'[c].status \notin Over),
         \A u \in Users : \/ busy'[u] \in {busy[u], NoCall}
                          \/ Flagged(u)' /\ \E v \in Users : Called(UserOf[t], v, busy'[u]),
         \A s \in Tabs \ {t} : task'[s] = task[s],
         Settles(task[t])'
  PROVE  Agreed'
  <1>1. ASSUME NEW s \in Tabs, s # t PROVE Settles(task[s])'
    <2>1. ASSUME AtSave(task[s]), ~task[s].answered, NEW u \in Users, busy'[u] = task[s].id
          PROVE  busy'[u] \in {busy[u], NoCall}
      <3>0. task[s] \in Task /\ TaskOK(task[s]) /\ TaskFits(s, task[s])
        BY PlacingAt
      <3>1. At(s, "save") /\ "save" \in Finishing \ {"vanish", "leave"}
        BY <2>1 DEF AtSave, At, Finishing
      <3>2. task[s].id \in CallIds /\ <<task[s].tells, task[s].status>> \in Outcomes
        BY <3>0, <3>1, StepOf
      <3>3. Own(task[s]) /\ task[s].id # NoCall
        BY <2>1, <3>0, <3>2 DEF Own, Outcomes, TaskFits, NoCall
      <3>4. Called(UserOf[s], task[s].to, task[s].id)
        BY <3>0, <3>3 DEF TaskFits
      <3>5. ASSUME NEW v \in Users, Called(UserOf[t], v, busy'[u]) PROVE FALSE
        BY <1>1, <2>1, <3>4, <3>5 DEF Called, OneTabEach
      <3> QED BY <3>5
    <2>2. Settles(task[s]) /\ task'[s] = task[s]
      BY <1>1 DEF Agreed
    <2> QED BY <2>1, <2>2, SettlesStay
  <1>2. ASSUME NEW u \in Users PROVE Flagged(u)'
    BY FlagStays DEF Agreed
  <1>3. ASSUME NEW s \in Tabs, NEW c \in CallIds PROVE OverStarted(s, c)'
    BY OverStays DEF Agreed
  <1> QED BY <1>1, <1>2, <1>3 DEF Agreed

LEMMA HeirSettles ==
  ASSUME Placing, Agreed, NEW t \in Tabs, NEW step, At(t, step), step \notin {"read", "save"}, row' = row,
         NEW k, k = NoTask \/ Heir(k, task[t], task[t].read), task'[t] = k
  PROVE  Settles(task[t])'
  <1>0. /\ task[t] \in Task /\ TaskFits(t, task[t]) /\ Settles(task[t])
        /\ task[t].plan # <<>> /\ Head(task[t].plan) = step
    BY PlacingAt DEF Agreed, At
  <1>1. CASE k = NoTask
    <2>1. k.plan = <<>> /\ k.tells = "none"
      BY <1>1 DEF NoTask
    <2> QED BY <2>1 DEF Settles, Paired, AtSave
  <1>2. CASE Heir(k, task[t], task[t].read)
    <2>1. PICK q \in Seq(Opening \cup Finishing) : q = task[t].plan
      BY <1>0 DEF Task
    <2>2. /\ q # <<>> /\ Head(q) = q[1] /\ q[1] \notin {"read", "save"} /\ Ordered(q) /\ k.plan = Tail(q)
          /\ Len(Tail(q)) = Len(q) - 1 /\ Len(q) \in Nat /\ Tail(q) \in Seq(Opening \cup Finishing)
          /\ \A i \in 1..Len(Tail(q)) : i + 1 \in 1..Len(q) /\ Tail(q)[i] = q[i + 1]
      BY <1>0, <1>2, <2>1, SeqHead DEF TaskFits, Heir
    <2>3. Unread(q)
      BY <2>2 DEF Ordered, Unread
    <2>4. Tail(q) # <<>> => Head(Tail(q)) \notin {"read", "save"}
      <3>1. Tail(q) # <<>> => Head(Tail(q)) = Tail(q)[1] /\ 1 \in 1..Len(Tail(q))
        BY <2>2, SeqHead
      <3> QED BY <2>2, <2>3, <3>1 DEF Unread
    <2>5. ~AtSave(k) /\ Paired(k.plan)
      BY <2>2, <2>4 DEF AtSave, Paired
    <2>6. k.tells = "answer" => row[k.id].started
      BY <1>0, <1>2, <2>1, <2>3 DEF Settles, Heir
    <2> QED BY <2>5, <2>6 DEF Settles, AtSave
  <1> QED BY <1>1, <1>2

\* The row a handler reads tells it whether somebody answered.
LEMMA ReadSettles ==
  ASSUME Placing, Agreed, NEW t \in Tabs, At(t, "read"), row' = row, busy' = busy,
         NEW k, k = NoTask \/ Heir(k, task[t], row[task[t].id]), task'[t] = k
  PROVE  Settles(task[t])'
  <1>0. /\ task[t] \in Task /\ TaskOK(task[t]) /\ TaskFits(t, task[t]) /\ Settles(task[t])
        /\ task[t].plan # <<>> /\ Head(task[t].plan) = "read"
    BY PlacingAt DEF Agreed, At
  <1>1. CASE k = NoTask
    <2>1. k.plan = <<>> /\ k.tells = "none"
      BY <1>1 DEF NoTask
    <2> QED BY <2>1 DEF Settles, Paired, AtSave
  <1>2. CASE Heir(k, task[t], row[task[t].id])
    <2>1. PICK q \in Seq(Opening \cup Finishing) : q = task[t].plan
      BY <1>0 DEF Task
    <2>2. PICK c \in CallIds : c = task[t].id
      <3>1. "read" \in {"read", "save"}
        OBVIOUS
      <3> QED BY <1>0, <3>1, StepOf
    <2>3. /\ q # <<>> /\ 2 \in 1..Len(q) /\ q[2] = "save" /\ k.plan = Tail(q) /\ Tail(q) \in Seq(Opening \cup Finishing)
          /\ Len(Tail(q)) = Len(q) - 1 /\ Len(q) \in Nat
          /\ \A i \in 1..Len(Tail(q)) : i + 1 \in 1..Len(q) /\ Tail(q)[i] = q[i + 1]
      BY <1>0, <1>2, <2>1, SeqHead DEF Settles, Paired, Heir
    <2>4. 1 \in 1..Len(Tail(q)) /\ Tail(q)[1] = "save"
      BY <2>3
    <2>5. Tail(q) # <<>> /\ Head(Tail(q)) = "save"
      <3>1. PICK r \in Seq(Opening \cup Finishing) : r = Tail(q)
        BY <2>3
      <3>2. 1 \in 1..Len(r) /\ r[1] = "save"
        BY <2>4, <3>1
      <3>3. r # <<>>
        BY <3>2
      <3>4. Head(r) = r[1]
        BY <3>3, SeqHead
      <3> QED BY <3>1, <3>2, <3>3, <3>4
    <2>6. ~Unread(k.plan) /\ Paired(k.plan)
      BY <2>3, <2>4, <2>5 DEF Unread, Paired
    <2>7. k.id = c /\ k.tells = task[t].tells /\ k.read = row[c]
      BY <1>2, <2>2 DEF Heir
    <2>8. k.tells = "answer" /\ row[c].status \in Over => row[c].started
      <3>1. OverStarted(t, c)
        BY DEF Agreed
      <3> QED BY <2>2, <2>7, <3>1 DEF OverStarted, MayAnswer
    <2>9. ASSUME NEW u \in Users, busy[u] = c PROVE row[c].started
      <3>1. Flagged(u) /\ c # NoCall
        BY DEF Agreed, NoCall
      <3> QED BY <2>9, <3>1 DEF Flagged
    <2>10. Settles(k)'
      BY <2>6, <2>7, <2>8, <2>9 DEF Settles
    <2> QED BY <2>10 DEF Settles, AtSave
  <1> QED BY <1>1, <1>2

\* Only an answer sets flags, once the row is marked.
LEMMA HoldFlags ==
  ASSUME Placing, Agreed, NEW t \in Tabs, NEW step \in {"hold own", "hold peer"}, At(t, step), row' = row,
         NEW u \in {UserOf[t], task[t].to}, busy'[u] = task[t].id
  PROVE  Flagged(u)' /\ \E v \in Users : Called(UserOf[t], v, busy'[u])
  <1>0. /\ task[t] \in Task /\ TaskFits(t, task[t]) /\ Settles(task[t])
        /\ task[t].plan # <<>> /\ Head(task[t].plan) = step
    BY PlacingAt DEF Agreed, At
  <1>1. task[t].tells = "answer"
    <2>1. step \notin NotHolding
      BY DEF NotHolding
    <2> QED BY <1>0, <2>1, HeadIn DEF TaskFits
  <1>2. Called(UserOf[t], task[t].to, task[t].id)
    BY <1>0, <1>1 DEF TaskFits, Own
  <1>3. row[task[t].id].started
    <2>1. PICK q \in Seq(Opening \cup Finishing) : q = task[t].plan
      BY <1>0 DEF Task
    <2>2. q # <<>> /\ q[1] \notin {"read", "save"} /\ Ordered(q)
      <3>1. q # <<>> /\ Head(q) = step /\ Ordered(q)
        BY <1>0, <2>1 DEF TaskFits
      <3>2. Head(q) = q[1]
        BY <3>1, SeqHead
      <3> QED BY <3>1, <3>2
    <2>3. Unread(q)
      BY <2>2 DEF Ordered, Unread
    <2> QED BY <1>0, <1>1, <2>1, <2>3 DEF Settles
  <1>4. PICK c \in CallIds : c = task[t].id
    BY <1>2 DEF Called
  <1>5. PICK v \in Users : v = task[t].to
    BY <1>2 DEF Called
  <1>6. busy'[u] = c /\ Called(UserOf[t], v, c) /\ UserOf[t] \in Users
    BY <1>2, <1>4, <1>5
  <1>7. row'[busy'[u]].started
    BY <1>3, <1>4, <1>6
  <1>8. \E w \in Users : Parties(u, w, busy[u])'
    <2>1. CASE u = UserOf[t]
      BY <1>6, <2>1 DEF Parties, Called
    <2>2. CASE u = v
      BY <1>6, <2>2 DEF Parties, Called
    <2> QED BY <1>5, <2>1, <2>2
  <1> QED BY <1>6, <1>7, <1>8 DEF Flagged

\* The handler that saves has nothing more to read.
LEMMA SaverSettles ==
  ASSUME Placing, Agreed, NEW t \in Tabs, At(t, "save"), NEW c, c = task[t].id,
         task[t].tells = "answer" => row'[c].started,
         NEW k, k = NoTask \/ Heir(k, task[t], task[t].read), task'[t] = k
  PROVE  Settles(task[t])'
  <1>0. /\ task[t] \in Task /\ TaskFits(t, task[t])
        /\ task[t].plan # <<>> /\ Head(task[t].plan) = "save"
    BY PlacingAt DEF At
  <1>1. CASE k = NoTask
    <2>1. k.plan = <<>> /\ k.tells = "none"
      BY <1>1 DEF NoTask
    <2> QED BY <2>1 DEF Settles, Paired, AtSave
  <1>2. CASE Heir(k, task[t], task[t].read)
    <2>1. PICK q \in Seq(Opening \cup Finishing) : q = task[t].plan
      BY <1>0 DEF Task
    <2>2. q # <<>> /\ Head(q) = "save" /\ Ordered(q) /\ k.plan = Tail(q) /\ k.id = c /\ k.tells = task[t].tells
      BY <1>0, <1>2, <2>1 DEF TaskFits, Heir
    <2>3. Tail(q) # <<>> => Head(Tail(q)) \notin {"read", "save"}
      <3>1. /\ Len(q) \in Nat /\ Tail(q) \in Seq(Opening \cup Finishing) /\ Head(q) = q[1]
            /\ \A i \in 1..Len(Tail(q)) : i + 1 \in 1..Len(q) /\ Tail(q)[i] = q[i + 1]
        BY <2>2, SeqHead
      <3>2. Tail(q) # <<>> => Head(Tail(q)) = Tail(q)[1] /\ 1 \in 1..Len(Tail(q))
        BY <3>1, SeqHead
      <3> QED BY <2>2, <3>1, <3>2 DEF Ordered
    <2>4. ~AtSave(k) /\ Paired(k.plan)
      BY <2>2, <2>3 DEF AtSave, Paired
    <2> QED BY <2>2, <2>4 DEF Settles, AtSave
  <1> QED BY <1>1, <1>2

\* Saving keeps the flags honest: an answer or a closing tab marks the row as
\* started, and a refusal or an end of a call that is flagged has read a row
\* that was.
LEMMA SaveAgrees ==
  ASSUME OneTabEach, Placing, Agreed, NEW t \in Tabs, SaveCall(t),
         \A s \in Tabs, c \in CallIds : Tame(s, c),
         NEW k, k = NoTask \/ Heir(k, task[t], task[t].read), task' = [task EXCEPT ![t] = k]
  PROVE  Agreed'
  <1>0. /\ At(t, "save") /\ UNCHANGED <<client, up, down, busy>> /\ row \in [CallIds -> Row] /\ task \in [Tabs -> Task]
        /\ task[t] \in Task /\ TaskOK(task[t]) /\ TaskFits(t, task[t]) /\ Settles(task[t])
    BY PlacingAt DEF SaveCall, Placing, Base, Typed, Agreed
  <1>1. task'[t] = k /\ \A s \in Tabs \ {t} : task'[s] = task[s]
    BY <1>0
  <1>2. PICK c \in CallIds : c = task[t].id
    BY <1>0, MarkedIs
  <1>3. PICK r \in Row : r = Marked(t)
    BY <1>0, MarkedIs
  <1>4. row'[c] = r /\ \A d \in CallIds \ {c} : row'[d] = row[d]
    BY <1>0, <1>2, <1>3 DEF SaveCall
  <1>5. AtSave(task[t]) /\ <<task[t].tells, task[t].status>> \in Outcomes
    <2>1. "save" \in Finishing \ {"vanish", "leave"}
      BY DEF Finishing
    <2> QED BY <1>0, <2>1, StepOf DEF AtSave, At
  <1>6. /\ r.caller = row[c].caller /\ r.receiver = row[c].receiver
        /\ task[t].read.status \in Over => r = row[c]
        /\ task[t].read.status \notin Over => (r.started <=> task[t].read.started \/ task[t].answered)
    BY <1>0, <1>2, <1>3, MarkedIs
  <1>7. ASSUME NEW s \in Tabs, NEW d \in CallIds
        PROVE  Serial(s, d)' /\ (MayAnswer(s, d)' => MayAnswer(s, d))
    BY DEF Tame
  <1>8. CASE task[t].read.status \in Over
    <2>1. RowsCalm
      BY <1>4, <1>6, <1>8 DEF RowsCalm
    <2>2. task[t].tells = "answer" => row'[c].started
      BY <1>0, <1>2, <1>4, <1>5, <1>6, <1>8 DEF Settles
    <2>3. Settles(task[t])'
      BY <1>0, <1>1, <1>2, <2>2, SaverSettles
    <2> QED BY <1>0, <1>1, <1>7, <2>1, <2>3, AgreedStay
  <1>9. ASSUME NEW u \in Users, busy[u] = c => r.started PROVE Flagged(u)'
    <2>1. ASSUME busy[u] # NoCall PROVE Flagged(u)'
      <3>1. PICK v \in Users : row[busy[u]].started /\ Parties(u, v, busy[u])
        BY <2>1 DEF Agreed, Flagged
      <3>2. PICK d \in CallIds : d = busy[u]
        BY <3>1 DEF Parties, Called
      <3>3. row'[d].caller = row[d].caller /\ row'[d].receiver = row[d].receiver /\ row'[d].started
        BY <1>4, <1>6, <1>9, <3>1, <3>2
      <3>4. busy'[u] = d
        BY <1>0, <3>2
      <3>5. Parties(u, v, busy[u])'
        BY <3>1, <3>2, <3>3, <3>4 DEF Parties, Called
      <3> QED BY <3>3, <3>4, <3>5 DEF Flagged
    <2>2. CASE busy[u] = NoCall
      BY <1>0, <2>2 DEF Flagged
    <2> QED BY <2>1, <2>2
  <1>10. CASE task[t].read.status \notin Over /\ task[t].answered
    <2>1. r.started
      BY <1>6, <1>10
    <2>2. ASSUME NEW s \in Tabs, NEW d \in CallIds PROVE OverStarted(s, d)'
      BY <1>4, <1>7, <2>1 DEF Agreed, OverStarted
    <2>3. ASSUME NEW s \in Tabs, s # t PROVE Settles(task[s])'
      <3>1. PICK l \in Task : l = task[s] /\ TaskFits(s, l) /\ Settles(l)
        BY PlacingAt DEF Agreed
      <3>2. l.tells = "answer" => l.id \in CallIds
        BY <3>1 DEF TaskFits, Task, Id
      <3>3. Settles(l)'
        BY <1>0, <1>4, <2>1, <3>1, <3>2 DEF Settles
      <3>4. task'[s] = l
        BY <1>1, <2>3, <3>1
      <3> QED BY <3>3, <3>4 DEF Settles, AtSave
    <2>4. Settles(task[t])'
      BY <1>0, <1>1, <1>2, <1>4, <2>1, SaverSettles
    <2> QED BY <1>7, <1>9, <2>1, <2>2, <2>3, <2>4 DEF Agreed
  <1>11. CASE task[t].read.status \notin Over /\ ~task[t].answered
    <2>1. task[t].tells # "answer" /\ Own(task[t]) /\ c # NoCall
      BY <1>0, <1>5, <1>11 DEF TaskFits, Own, Outcomes, NoCall
    <2>2. Called(UserOf[t], task[t].to, c) /\ Closes(task[t], c) /\ Serial(t, c)
      BY <1>0, <1>2, <2>1 DEF TaskFits, Closes, Agreed
    <2>3. ASSUME NEW s \in Tabs, MayAnswer(s, c) PROVE FALSE
      <3>1. PICK v \in Users : Called(UserOf[s], v, c)
        BY <2>3, MayAnswerCalled
      <3>2. s = t
        BY <2>2, <3>1 DEF Called, OneTabEach
      <3> QED BY <2>1, <2>2, <2>3, <3>2 DEF Serial, MayAnswer
    <2>4. \A u \in Users : busy[u] = c => r.started
      BY <1>0, <1>2, <1>5, <1>6, <1>11 DEF Settles
    <2>5. ASSUME NEW s \in Tabs, NEW d \in CallIds PROVE OverStarted(s, d)'
      <3>1. CASE d = c
        BY <1>7, <2>3, <3>1 DEF OverStarted
      <3>2. CASE d # c
        BY <1>4, <1>7, <3>2 DEF Agreed, OverStarted
      <3> QED BY <3>1, <3>2
    <2>6. ASSUME NEW s \in Tabs, s # t PROVE Settles(task[s])'
      <3>1. PICK l \in Task : l = task[s] /\ TaskFits(s, l) /\ Settles(l)
        BY PlacingAt DEF Agreed
      <3>2. ASSUME l.tells = "answer" PROVE l.id \in CallIds /\ l.id # c
        <4>1. MayAnswer(s, l.id)
          BY <3>1, <3>2 DEF MayAnswer
        <4>2. l.id # c
          BY <2>3, <4>1
        <4> QED BY <3>1, <3>2, <4>2 DEF TaskFits, Task, Id
      <3>3. Settles(l)'
        BY <1>0, <1>4, <3>1, <3>2 DEF Settles
      <3>4. task'[s] = l
        BY <1>1, <2>6, <3>1
      <3> QED BY <3>3, <3>4 DEF Settles, AtSave
    <2>7. Settles(task[t])'
      BY <1>0, <1>1, <1>2, <2>1, SaverSettles
    <2> QED BY <1>7, <1>9, <2>4, <2>5, <2>6, <2>7 DEF Agreed
  <1> QED BY <1>8, <1>10, <1>11

LEMMA PageAgrees ==
  ASSUME OneTabEach, Inv, Placing, Agreed, NEW t \in Tabs, Page(t)
  PROVE  Agreed'
  <1>1. \A s \in Tabs, c \in CallIds : Tame(s, c)
    BY PagesTame DEF Agreed
  <1>2. busy' = busy
    BY DEF Page, Open, Close, StartCall, Offer, MediaDenied, Accept, Answer, Decline, FailToConnect, Hangup,
           Receive, server
  <1>3. RowsCalm
    <2>1. ASSUME NEW u \in Users, StartCall(t, u) PROVE RowsCalm
      <3>0. row \in [CallIds -> Row]
        BY DEF Placing, Base, Typed
      <3>1. PICK c \in CallIds :
              row[c] = NoRow /\ row' = [row EXCEPT ![c].status = "dialled", ![c].receiver = u]
        BY <2>1 DEF StartCall
      <3>2. row'[c] = [[row[c] EXCEPT !.status = "dialled"] EXCEPT !.receiver = u]
            /\ \A d \in CallIds \ {c} : row'[d] = row[d]
        BY <3>0, <3>1
      <3>3. row'[c].status = "dialled" /\ row[c].caller = NoUser
        <4>1. row[c].caller = NoUser
          BY <3>1 DEF NoRow
        <4>2. row[c] \in Row
          BY <3>0
        <4>3. row'[c].status = "dialled"
          BY <3>2, <4>2 DEF Row
        <4> QED BY <4>1, <4>3
      <3> QED BY <3>2, <3>3 DEF RowsCalm, Over
    <2>2. CASE ~\E u \in Users : StartCall(t, u)
      <3>1. row' = row
        BY <2>2 DEF Page, Open, Close, Offer, MediaDenied, Accept, Answer, Decline, FailToConnect, Hangup,
                    Receive, server
      <3> QED BY <3>1 DEF RowsCalm
    <2> QED BY <2>1, <2>2
  <1>4. Settles(task[t])' /\ \A s \in Tabs \ {t} : task'[s] = task[s]
    <2>1. CASE Open(t)
      <3>1. PICK k : k = [NoTask EXCEPT !.plan = <<"join", "appear", "accept">>]
        OBVIOUS
      <3>2. task \in [Tabs -> Task] /\ task[t] = NoTask
        BY <2>1 DEF Open, Placing, Base, Typed
      <3>3. task' = [task EXCEPT ![t] = k]
        BY <2>1, <3>1, <3>2 DEF Open
      <3>4. task'[t] = k /\ \A s \in Tabs \ {t} : task'[s] = task[s]
        BY <3>2, <3>3
      <3>5. k.plan = <<"join", "appear", "accept">> /\ k.tells = "none"
        BY <3>1 DEF NoTask
      <3>6. <<"join", "appear", "accept">> \in Seq(NotHolding) /\ Head(<<"join", "appear", "accept">>) = "join"
        BY DEF NotHolding, Opening
      <3>7. ~AtSave(k) /\ Paired(k.plan)
        BY <3>5, <3>6 DEF AtSave, Paired
      <3> QED BY <3>4, <3>5, <3>7 DEF Settles, AtSave
    <2>2. CASE ~Open(t)
      <3>1. task' = task
        BY <2>2 DEF Page, Close, StartCall, Offer, MediaDenied, Accept, Answer, Decline, FailToConnect, Hangup,
                    Receive, server
      <3>2. Settles(task[t])
        BY DEF Agreed
      <3> QED BY <1>2, <1>3, <3>1, <3>2, SettlesStay
    <2> QED BY <2>1, <2>2
  <1> QED BY <1>1, <1>2, <1>3, <1>4, AgreedStay DEF Tame

\* What is left of a handler after a step of it.
LEMMA Left ==
  ASSUME Placing, NEW t \in Tabs, NEW step, At(t, step), step # "read", Advance(t, task[t])
  PROVE  \E k : task' = [task EXCEPT ![t] = k] /\ (k = NoTask \/ Heir(k, task[t], task[t].read))
  <1>1. PICK r \in Row : r = task[t].read
    BY SameTask
  <1>2. Advance(t, [task[t] EXCEPT !.read = r])
    BY <1>1, SameTask
  <1> QED BY <1>1, <1>2, TaskNext

\* A step that saves nothing and sets no flag but its own.
LEMMA StepAgrees ==
  ASSUME OneTabEach, Placing, Agreed, NEW t \in Tabs, NEW step, At(t, step), step \notin {"read", "save"},
         Advance(t, task[t]), up' = up, row' = row,
         \A s \in Tabs : client'[s] = client[s] \/ client'[s] = [client[s] EXCEPT !.mode = "idle"],
         \A s \in Tabs : \/ down'[s] = down[s]
                         \/ \E x \in Ping : x.type # "incoming" /\ down'[s] = Append(down[s], x),
         \A u \in Users : \/ busy'[u] \in {busy[u], NoCall}
                          \/ Flagged(u)' /\ \E v \in Users : Called(UserOf[t], v, busy'[u])
  PROVE  Agreed'
  <1>1. PICK k : task' = [task EXCEPT ![t] = k] /\ (k = NoTask \/ Heir(k, task[t], task[t].read))
    BY Left
  <1>2. task'[t] = k /\ \A s \in Tabs \ {t} : task'[s] = task[s]
    BY <1>1 DEF Placing, Base, Typed
  <1>3. RowsCalm
    BY DEF RowsCalm
  <1>4. Settles(task[t])'
    BY <1>1, <1>2, HeirSettles
  <1>5. \A s \in Tabs, c \in CallIds : Tame(s, c)
    <2>1. k = NoTask \/ (k.id = task[t].id /\ k.tells = task[t].tells /\ k.answered = task[t].answered)
      BY <1>1 DEF Heir
    <2>2. \A s \in Tabs, c \in CallIds : Serial(s, c)
      BY DEF Agreed
    <2> QED BY <1>1, <2>1, <2>2, ServeTame
  <1>6. \A s \in Tabs, c \in CallIds : Serial(s, c)' /\ (MayAnswer(s, c)' => MayAnswer(s, c) \/ row'[c].status \notin Over)
    BY <1>5 DEF Tame
  <1> QED BY <1>2, <1>3, <1>4, <1>6, AgreedStay

LEMMA BusyAgrees ==
  ASSUME OneTabEach, Placing, Keys, Agreed, NEW t \in Tabs, HoldOwn(t) \/ HoldPeer(t) \/ DropOwn(t) \/ DropPeer(t)
  PROVE  Agreed'
  <1>1. ASSUME NEW step, NEW u, NEW c, SetBusy(t, step, u, c), step \notin {"read", "save"},
               u \in Users => c = NoCall \/ (/\ step \in {"hold own", "hold peer"} /\ c = task[t].id
                                             /\ u \in {UserOf[t], task[t].to})
        PROVE  Agreed'
    <2>1. /\ At(t, step) /\ Advance(t, task[t]) /\ UNCHANGED <<client, up, down, row>>
          /\ busy' = [busy EXCEPT ![u] = c] /\ busy \in [Users -> Id]
      BY <1>1 DEF SetBusy, Keys
    <2>2. ASSUME NEW w \in Users
          PROVE  \/ busy'[w] \in {busy[w], NoCall}
                 \/ Flagged(w)' /\ \E v \in Users : Called(UserOf[t], v, busy'[w])
      <3>1. CASE w # u \/ c = NoCall
        BY <2>1, <3>1
      <3>2. CASE w = u /\ c # NoCall
        <4>1. /\ step \in {"hold own", "hold peer"} /\ busy'[w] = task[t].id /\ row' = row
              /\ w \in {UserOf[t], task[t].to}
          BY <1>1, <2>1, <3>2
        <4> QED BY <2>1, <4>1, HoldFlags
      <3> QED BY <3>1, <3>2
    <2> QED BY <1>1, <2>1, <2>2, StepAgrees
  <1>2. CASE HoldOwn(t)
    <2>1. SetBusy(t, "hold own", UserOf[t], task[t].id)
      BY <1>2 DEF HoldOwn
    <2>2. "hold own" \notin {"read", "save"} /\ "hold own" \in {"hold own", "hold peer"}
      OBVIOUS
    <2> QED BY <1>1, <2>1, <2>2
  <1>3. CASE HoldPeer(t)
    <2>1. SetBusy(t, "hold peer", task[t].to, task[t].id)
      BY <1>3 DEF HoldPeer
    <2>2. "hold peer" \notin {"read", "save"} /\ "hold peer" \in {"hold own", "hold peer"}
      OBVIOUS
    <2> QED BY <1>1, <2>1, <2>2
  <1>4. CASE DropOwn(t)
    BY <1>1, <1>4 DEF DropOwn
  <1>5. CASE DropPeer(t)
    BY <1>1, <1>5 DEF DropPeer
  <1> QED BY <1>2, <1>3, <1>4, <1>5

\* The row of a call gets its caller: nobody answered it yet.
LEMMA PlacedAgrees ==
  ASSUME OneTabEach, Placing, Agreed, NEW t \in Tabs, NEW step \in {"reach", "free", "ring"}, At(t, step), Done(t),
         NEW r \in Row, r.status \notin Over, row' = [row EXCEPT ![task[t].id] = r], busy' = busy,
         \A s \in Tabs, c \in CallIds : Serial(s, c)' /\ (MayAnswer(s, c)' => MayAnswer(s, c) \/ c = task[t].id)
  PROVE  Agreed'
  <1>0. /\ task[t] \in Task /\ TaskOK(task[t]) /\ TaskFits(t, task[t])
        /\ row \in [CallIds -> Row] /\ task \in [Tabs -> Task]
    BY PlacingAt DEF Placing, Base, Typed
  <1>1. task[t].tells = "none" /\ ~(task[t].plan \in Seq(Connecting))
    <2>1. step \in Opening /\ step \notin Connecting
      BY DEF Opening, Connecting
    <2> QED BY <1>0, <2>1, StepOf, HeadIn
  <1>2. PICK c \in CallIds : c = task[t].id /\ row[c].caller = NoUser
    BY <1>0, <1>1 DEF TaskFits, Unplaced
  <1>3. row'[c] = r /\ \A d \in CallIds \ {c} : row'[d] = row[d]
    BY <1>0, <1>2
  <1>4. RowsCalm
    BY <1>2, <1>3 DEF RowsCalm
  <1>5. task'[t] = NoTask /\ \A s \in Tabs \ {t} : task'[s] = task[s]
    BY <1>0 DEF Done
  <1>6. Settles(task[t])'
    <2>1. NoTask.plan = <<>> /\ NoTask.tells = "none"
      BY DEF NoTask
    <2> QED BY <1>5, <2>1 DEF Settles, Paired, AtSave
  <1>7. \A s \in Tabs, d \in CallIds : Serial(s, d)' /\ (MayAnswer(s, d)' => MayAnswer(s, d) \/ row'[d].status \notin Over)
    BY <1>2, <1>3
  <1> QED BY <1>4, <1>5, <1>6, <1>7, AgreedStay

LEMMA RefuseAgrees ==
  ASSUME OneTabEach, Placing, Agreed, NEW t \in Tabs, NEW step \in {"reach", "free"}, At(t, step),
         UNCHANGED <<client, up, busy>>, NEW status \in {"missed", "busy"}, NEW signal \in {"unavailable", "busy"},
         Refuse(t, status, signal)
  PROVE  Agreed'
  <1>0. /\ task[t] \in Task /\ TaskOK(task[t]) /\ TaskFits(t, task[t]) /\ down \in [Tabs -> Seq(Ping)]
    BY PlacingAt DEF Placing, Base, Typed
  <1>1. PICK r : r = [caller |-> UserOf[t], receiver |-> task[t].to, status |-> status, started |-> FALSE]
    OBVIOUS
  <1>2. r \in Row /\ r.status \notin Over /\ task[t].to \in SomeUser
    BY <1>0, <1>1 DEF Row, SomeUser, CallStatus, Over, Task
  <1>3. PICK x : x = Signal(signal, task[t].to, NoCall)
    OBVIOUS
  <1>4. x \in Ping /\ x.type # "incoming"
    BY <1>2, <1>3 DEF Signal, Ping, Id
  <1>5. row' = [row EXCEPT ![task[t].id] = r] /\ Done(t) /\ (down' = down \/ down' = [down EXCEPT ![t] = Append(@, x)])
    BY <1>1, <1>3 DEF Refuse
  <1>6. \A s \in Tabs : down'[s] = down[s] \/ down'[s] = Append(down[s], x)
    BY <1>0, <1>5
  <1>7. \A s \in Tabs, c \in CallIds : Tame(s, c)
    <2>1. \A s \in Tabs, c \in CallIds : Serial(s, c)
      BY DEF Agreed
    <2>2. task' = [task EXCEPT ![t] = NoTask]
      BY <1>5 DEF Done
    <2>3. \A s \in Tabs : \/ down'[s] = down[s]
                          \/ \E y \in Ping : y.type # "incoming" /\ down'[s] = Append(down[s], y)
      BY <1>4, <1>6
    <2> QED BY <2>1, <2>2, <2>3, ServeTame
  <1>8. step \in {"reach", "free", "ring"}
    OBVIOUS
  <1> QED BY <1>2, <1>5, <1>7, <1>8, PlacedAgrees DEF Tame

LEMMA LookupAgrees ==
  ASSUME OneTabEach, Placing, Agreed, NEW t \in Tabs, Reach(t) \/ CheckFree(t)
  PROVE  Agreed'
  <1>1. ASSUME NEW step \in {"reach", "free"}, At(t, step), UNCHANGED <<client, up, busy, row, down>>, Advance(t, task[t])
        PROVE  Agreed'
    <2>1. step \notin {"read", "save"}
      OBVIOUS
    <2> QED BY <1>1, <2>1, StepAgrees
  <1>2. CASE Reach(t)
    <2>1. At(t, "reach") /\ UNCHANGED <<client, up, busy>>
          /\ \/ Advance(t, task[t]) /\ UNCHANGED <<row, down>>
             \/ Refuse(t, "missed", "unavailable")
      BY <1>2 DEF Reach
    <2> QED BY <1>1, <2>1, RefuseAgrees
  <1>3. CASE CheckFree(t)
    <2>1. At(t, "free") /\ UNCHANGED <<client, up, busy>>
          /\ \/ Advance(t, task[t]) /\ UNCHANGED <<row, down>>
             \/ Refuse(t, "busy", "busy")
      BY <1>3 DEF CheckFree
    <2> QED BY <1>1, <2>1, RefuseAgrees
  <1> QED BY <1>2, <1>3

LEMMA RingAgrees ==
  ASSUME OneTabEach, Placing, Agreed, NEW t \in Tabs, Ring(t)
  PROVE  Agreed'
  <1>1. PICK r : r = [caller |-> UserOf[t], receiver |-> task[t].to, status |-> "ringing", started |-> FALSE]
    OBVIOUS
  <1>2. r \in Row /\ r.status \notin Over
    <2>1. task[t] \in Task
      BY PlacingAt
    <2> QED BY <1>1, <2>1 DEF Row, SomeUser, CallStatus, Over, Task
  <1>3. At(t, "ring") /\ row' = [row EXCEPT ![task[t].id] = r] /\ Done(t) /\ busy' = busy
    BY <1>1 DEF Ring
  <1>4. \A s \in Tabs, c \in CallIds : Serial(s, c)' /\ (MayAnswer(s, c)' => MayAnswer(s, c) \/ c = task[t].id)
    BY RingTame DEF Agreed
  <1>5. "ring" \in {"reach", "free", "ring"}
    OBVIOUS
  <1> QED BY <1>2, <1>3, <1>4, <1>5, PlacedAgrees

LEMMA HandleAgrees ==
  ASSUME OneTabEach, Placing, Agreed, NEW t \in Tabs, Handle(t)
  PROVE  Agreed'
  <1>0. /\ up[t] \in Seq(Letter) /\ UpFits(t) /\ task \in [Tabs -> Task]
    BY PlacingAt DEF Placing, Base, Typed
  <1>1. PICK m : m = Head(up[t])
    OBVIOUS
  <1>2. PICK k : k = Handler(t, m)
    OBVIOUS
  <1>3. up[t] # <<>> /\ task' = [task EXCEPT ![t] = k] /\ row' = row /\ busy' = busy
    BY <1>1, <1>2 DEF Handle
  <1>4. m = up[t][1] /\ m \in Letter /\ 1 \in 1..Len(up[t])
    BY <1>0, <1>1, <1>3, SeqHead
  <1>5. LetterFits(t, m)
    BY <1>0, <1>4 DEF UpFits
  <1>6. ~AtSave(k) /\ Paired(k.plan) /\ (k.tells = "answer" => ~Unread(k.plan))
    BY <1>2, <1>4, <1>5, HandlerIs
  <1>7. task'[t] = k /\ \A s \in Tabs \ {t} : task'[s] = task[s]
    BY <1>0, <1>3
  <1>8. Settles(task[t])'
    BY <1>6, <1>7 DEF Settles, AtSave
  <1>9. RowsCalm
    BY <1>3 DEF RowsCalm
  <1>10. \A s \in Tabs, c \in CallIds : Tame(s, c)
    BY HandleTame DEF Agreed
  <1> QED BY <1>3, <1>7, <1>8, <1>9, <1>10, AgreedStay DEF Tame

LEMMA ReadAgrees ==
  ASSUME OneTabEach, Placing, Agreed, NEW t \in Tabs, ReadCall(t)
  PROVE  Agreed'
  <1>0. task[t] \in Task /\ TaskOK(task[t]) /\ At(t, "read") /\ UNCHANGED <<client, up, down, busy, row>>
        /\ task \in [Tabs -> Task] /\ row \in [CallIds -> Row]
    BY PlacingAt DEF ReadCall, Placing, Base, Typed
  <1>1. task[t].id \in CallIds
    BY <1>0, StepOf
  <1>2. PICK r \in Row : r = row[task[t].id]
    BY <1>0, <1>1
  <1>3. Advance(t, [task[t] EXCEPT !.read = r])
    BY <1>2 DEF ReadCall
  <1>4. PICK k \in Task : task' = [task EXCEPT ![t] = k] /\ (k = NoTask \/ Heir(k, task[t], r))
    BY <1>0, <1>2, <1>3, TaskNext
  <1>5. task'[t] = k /\ \A s \in Tabs \ {t} : task'[s] = task[s]
    BY <1>0, <1>4
  <1>6. Settles(task[t])'
    BY <1>0, <1>2, <1>4, <1>5, ReadSettles
  <1>7. RowsCalm
    BY <1>0 DEF RowsCalm
  <1>8. \A s \in Tabs, c \in CallIds : Tame(s, c)
    <2>1. k = NoTask \/ (k.id = task[t].id /\ k.tells = task[t].tells /\ k.answered = task[t].answered)
      BY <1>4 DEF Heir
    <2>2. \A s \in Tabs, c \in CallIds : Serial(s, c)
      BY DEF Agreed
    <2> QED BY <1>0, <1>4, <2>1, <2>2, ServeTame
  <1> QED BY <1>0, <1>5, <1>6, <1>7, <1>8, AgreedStay DEF Tame

LEMMA SaveCallAgrees ==
  ASSUME OneTabEach, Placing, Agreed, NEW t \in Tabs, SaveCall(t)
  PROVE  Agreed'
  <1>1. At(t, "save") /\ Advance(t, task[t]) /\ UNCHANGED <<client, up, down>> /\ "save" # "read"
    BY DEF SaveCall
  <1>2. PICK k : task' = [task EXCEPT ![t] = k] /\ (k = NoTask \/ Heir(k, task[t], task[t].read))
    BY <1>1, Left
  <1>3. k = NoTask \/ (k.id = task[t].id /\ k.tells = task[t].tells /\ k.answered = task[t].answered)
    BY <1>2 DEF Heir
  <1>4. \A s \in Tabs, c \in CallIds : Serial(s, c)
    BY DEF Agreed
  <1>5. \A s \in Tabs, c \in CallIds : Tame(s, c)
    BY <1>1, <1>2, <1>3, <1>4, ServeTame
  <1> QED BY <1>2, <1>5, SaveAgrees

LEMMA TellAgrees ==
  ASSUME OneTabEach, Placing, Agreed, NEW t \in Tabs, Tell(t)
  PROVE  Agreed'
  <1>0. /\ task[t] \in Task /\ TaskOK(task[t]) /\ Typed /\ UserOf[t] \in SomeUser /\ task[t].id \in Id
    BY PlacingAt DEF Placing, Base, Task, SomeUser
  <1>1. PICK x : x = Signal(task[t].tells, UserOf[t], task[t].id)
    OBVIOUS
  <1>2. At(t, "tell") /\ Relay(task[t].to, x) /\ Advance(t, task[t]) /\ UNCHANGED <<client, up, row, busy>>
    BY <1>1 DEF Tell
  <1>3. <<task[t].tells, task[t].status>> \in Outcomes
    <2>1. "tell" \in Finishing \ {"vanish", "leave"}
      BY DEF Finishing
    <2> QED BY <1>0, <1>2, <2>1, StepOf
  <1>4. x \in Ping /\ x.type # "incoming"
    BY <1>0, <1>1, <1>3 DEF Outcomes, Signal, Ping
  <1>5. \A s \in Tabs : down'[s] = down[s] \/ down'[s] = Append(down[s], x)
    BY <1>0, <1>2, <1>4, RelayTyped
  <1>6. \A s \in Tabs : \/ down'[s] = down[s]
                        \/ \E y \in Ping : y.type # "incoming" /\ down'[s] = Append(down[s], y)
    BY <1>4, <1>5
  <1>7. "tell" \notin {"read", "save"}
    OBVIOUS
  <1> QED BY <1>2, <1>6, <1>7, StepAgrees

LEMMA ConnectionAgrees ==
  ASSUME OneTabEach, Placing, Agreed, NEW t \in Tabs, Join(t) \/ Appear(t) \/ AcceptSocket(t) \/ Vanish(t) \/ Leave(t)
  PROVE  Agreed'
  <1>1. CASE Join(t) \/ Appear(t) \/ Vanish(t) \/ Leave(t)
    <2>1. PICK step \in {"join", "appear", "vanish", "leave"} : At(t, step)
      BY <1>1 DEF Join, Appear, Vanish, Leave, SetOnline
    <2>2. Advance(t, task[t]) /\ UNCHANGED <<client, up, down, row, busy>>
      BY <1>1 DEF Join, Appear, Vanish, Leave, SetOnline
    <2>3. step \notin {"read", "save"}
      OBVIOUS
    <2> QED BY <2>1, <2>2, <2>3, StepAgrees
  <1>2. CASE AcceptSocket(t)
    <2>1. /\ At(t, "accept") /\ Advance(t, task[t]) /\ UNCHANGED <<up, down, row, busy>>
          /\ client' = [client EXCEPT ![t] = [client[t] EXCEPT !.mode = "idle"]] /\ client \in [Tabs -> PageState]
      BY <1>2 DEF AcceptSocket, Placing, Base, Typed
    <2>2. \A s \in Tabs : client'[s] = client[s] \/ client'[s] = [client[s] EXCEPT !.mode = "idle"]
      BY <2>1
    <2>3. "accept" \notin {"read", "save"}
      OBVIOUS
    <2> QED BY <2>1, <2>2, <2>3, StepAgrees
  <1> QED BY <1>1, <1>2

\* No tab moves: a key expires, or nothing happens.
LEMMA StillAgrees ==
  ASSUME Placing, Agreed, UNCHANGED <<client, up, down, task, row>>,
         \A u \in Users : busy'[u] \in {busy[u], NoCall}
  PROVE  Agreed'
  <1>1. RowsCalm
    BY DEF RowsCalm
  <1>2. ASSUME NEW s \in Tabs, NEW c \in CallIds PROVE Tame(s, c)
    BY SameTalk DEF Agreed
  <1>3. ASSUME NEW s \in Tabs PROVE Settles(task[s])'
    BY <1>1, SettlesStay DEF Agreed
  <1>4. ASSUME NEW u \in Users PROVE Flagged(u)'
    BY <1>1, FlagStays DEF Agreed
  <1>5. ASSUME NEW s \in Tabs, NEW c \in CallIds PROVE OverStarted(s, c)'
    BY <1>1, <1>2, OverStays DEF Agreed, Tame
  <1> QED BY <1>2, <1>3, <1>4, <1>5 DEF Agreed, Tame

LEMMA InitAgreed ==
  ASSUME Init
  PROVE  Agreed
  <1>1. NoTask.plan = <<>> /\ NoTask.tells = "none" /\ NoTask.id = NoCall /\ Idle.id = NoCall
    BY DEF NoTask, Idle
  <1>2. ASSUME NEW u \in Users PROVE Flagged(u)
    BY DEF Init, Flagged
  <1>3. ASSUME NEW t \in Tabs, NEW c \in CallIds PROVE Serial(t, c) /\ OverStarted(t, c)
    <2>1. /\ client[t] = Idle /\ up[t] = <<>> /\ down[t] = <<>> /\ task[t] = NoTask /\ c # NoCall
      BY DEF Init, NoCall
    <2>2. \A i \in Nat : \A kinds : ~Queued(up[t], i, c, kinds) /\ ~Queued(down[t], i, c, kinds)
      BY <2>1 DEF Queued
    <2> QED BY <1>1, <2>1, <2>2 DEF Serial, OverStarted, MayAnswer, Rings, Holds, Replies, Closes
  <1>4. ASSUME NEW t \in Tabs PROVE Settles(task[t])
    BY <1>1 DEF Init, Settles, Paired, AtSave
  <1> QED BY <1>2, <1>3, <1>4 DEF Agreed

\* A busy flag names a call its user is a party to and that somebody answered,
\* whatever ends, refusals, closing tabs and expiring keys happen meanwhile:
\* of any number of users with one tab each.
THEOREM BusyWithOwnCallHolds == OneTabEach => (Spec => []BusyWithOwnCall)
  <1> SUFFICES ASSUME OneTabEach PROVE Spec => []BusyWithOwnCall
    OBVIOUS
  <1> DEFINE Whole == Inv /\ Placing /\ Keys /\ Agreed
  <1>1. Init => Whole
    <2>1. Init => Keys
      BY DEF Init, Keys, Id
    <2> QED BY <2>1, InitInv, InitPlacing, InitAgreed
  <1>2. Whole /\ [Next]_vars => Whole'
    <2> SUFFICES ASSUME Whole, [Next]_vars PROVE Whole'
      OBVIOUS
    <2>1. Inv'
      <3>1. ASSUME UNCHANGED vars PROVE Inv'
        BY <3>1, Same, StepKeeps DEF vars, server
      <3>2. ASSUME Next PROVE Inv'
        BY <3>2, PageKeeps, ServeKeeps, ExpiryKeeps DEF Next
      <3> QED BY <3>1, <3>2
    <2>2. Placing' /\ Keys'
      BY PlacingKept, KeysKept
    <2>3. Agreed'
      <3>1. CASE UNCHANGED vars
        BY <3>1, StillAgrees DEF vars, server
      <3>2. ASSUME NEW t \in Tabs, Page(t) PROVE Agreed'
        BY <3>2, PageAgrees
      <3>3. ASSUME NEW t \in Tabs, Serve(t) PROVE Agreed'
        BY <3>3, HandleAgrees, LookupAgrees, RingAgrees, ReadAgrees, SaveCallAgrees, BusyAgrees, TellAgrees,
           ConnectionAgrees DEF Serve
      <3>4. ASSUME NEW u \in Users, OnlineExpires(u) \/ BusyExpires(u) PROVE Agreed'
        <4>1. UNCHANGED <<client, up, down, task, row>> /\ \A w \in Users : busy'[w] \in {busy[w], NoCall}
          BY <3>4 DEF OnlineExpires, BusyExpires, Keys
        <4> QED BY <4>1, StillAgrees
      <3> QED BY <3>1, <3>2, <3>3, <3>4 DEF Next
    <2> QED BY <2>1, <2>2, <2>3
  <1>3. Whole => BusyWithOwnCall
    BY DEF Agreed, Flagged, BusyWithOwnCall, Parties, Called
  <1> QED BY <1>1, <1>2, <1>3, PTL DEF Spec
=============================================================================
