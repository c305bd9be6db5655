--------------------------- MODULE CallSignaling ----------------------------
(***************************************************************************)
(* One-to-one calls: the browser's call state (templates/chat/room.html),  *)
(* the CallConsumer each tab is connected to, the Redis flags of           *)
(* presence.py and the Call rows.                                          *)
(*                                                                         *)
(* A consumer takes one message at a time and runs its handler as a plan,  *)
(* one step per await; handlers of different tabs interleave between steps.*)
(* Messages are FIFO in both directions, a relayed signal in the order of  *)
(* its group_send.  ICE candidates, media and the call type change none of *)
(* this state and are left out, and so is a socket that reconnects under a *)
(* page that keeps its call: here a reload or a lost connection closes the *)
(* tab.                                                                    *)
(***************************************************************************)
EXTENDS Integers, Sequences

CONSTANTS
  Users,
  NoUser,   \* `None` in CallConsumer.peer_id
  Tabs,     \* browser tabs showing the chat room
  UserOf,   \* [tab -> the user logged in there]
  CallIds,  \* numbers of the Call rows, a bound on the calls dialled
  Leaving,  \* tabs that may be closed, a bound
  Expiring  \* users whose Redis keys may reach their two hours, a bound

ASSUME UsersAssumption == NoUser \notin Users
ASSUME TabsAssumption == UserOf \in [Tabs -> Users]
ASSUME CallIdsAssumption == CallIds \subseteq Nat \ {0}
ASSUME BoundsAssumption == Leaving \subseteq Tabs /\ Expiring \subseteq Users

VARIABLES
  client,    \* this.call in the page of each tab
  up,        \* messages from the tab to its consumer
  down,      \* messages to the tab
  consumer,  \* the CallConsumer of each tab
  task,      \* the handler it runs: the steps left and its local variables
  online,    \* Redis callonline:<user>
  busy,      \* Redis incall:<user>, 0 for no key
  row        \* the Call rows

server == <<consumer, task, online, busy, row>>
vars == <<client, up, down, server>>

NoCall == 0
Id == CallIds \union {NoCall}
SomeUser == Users \union {NoUser}

\* dial is the call of a startCall that waits for the microphone.
Idle == [mode |-> "idle", with |-> NoUser, id |-> NoCall, dial |-> NoCall]
Away == [Idle EXCEPT !.mode = "closed"]
InCall == {"calling", "connecting", "ongoing"}   \* this.call.active

NoConsumer == [joined |-> FALSE, active |-> NoCall, peer |-> NoUser]

\* "dialled": the page has not sent the offer, or it is on its way, and there
\* is no row yet.
CallStatus == {"none", "dialled", "ringing", "ongoing", "ended", "rejected", "missed", "busy"}
NoRow == [caller |-> NoUser, receiver |-> NoUser, status |-> "none", started |-> FALSE]

NoTask == [plan |-> <<>>, tells |-> "none", to |-> NoUser, id |-> NoCall,
           status |-> "none", answered |-> FALSE, read |-> NoRow]

\* Every tab has connected and nothing has been said yet.
Init ==
  /\ client = [t \in Tabs |-> Idle]
  /\ up = [t \in Tabs |-> <<>>]
  /\ down = [t \in Tabs |-> <<>>]
  /\ consumer = [t \in Tabs |-> [NoConsumer EXCEPT !.joined = TRUE]]
  /\ task = [t \in Tabs |-> NoTask]
  /\ online = [u \in Users |-> \E t \in Tabs : UserOf[t] = u]
  /\ busy = [u \in Users |-> NoCall]
  /\ row = [c \in CallIds |-> NoRow]

-----------------------------------------------------------------------------
(* The page *)

Message(type, to, id) == [type |-> type, to |-> to, id |-> id]
Signal(type, from, id) == [type |-> type, from |-> from, id |-> id]

\* endCleanup: it stops the media, not a startCall that waits for them.
CleanedUp(t) == [Idle EXCEPT !.dial = client[t].dial]

\* callSend, and the state the page is left in.
Send(t, m, state) ==
  /\ up' = [up EXCEPT ![t] = Append(@, m)]
  /\ client' = [client EXCEPT ![t] = state]

\* initCallSocket: the consumer's connect runs before the socket opens.  (A
\* page that is back before its old socket has gone is another tab of its user.)
Open(t) ==
  /\ client[t].mode = "closed"
  /\ ~consumer[t].joined /\ task[t] = NoTask /\ up[t] = <<>>
  /\ client' = [client EXCEPT ![t].mode = "opening"]
  /\ task' = [task EXCEPT ![t].plan = <<"join", "appear", "accept">>]
  /\ UNCHANGED <<up, down, consumer, online, busy, row>>

Close(t) ==
  /\ t \in Leaving
  /\ client[t].mode \notin {"closed", "opening"}
  /\ Send(t, Message("close", NoUser, NoCall), Away)
  /\ down' = [down EXCEPT ![t] = <<>>]
  /\ UNCHANGED server

\* startCall, until the microphone is there (one at a time, a bound).  It
\* takes a number for the row the server will create; the page never learns it.
StartCall(t, u) ==
  /\ client[t].mode = "idle" /\ client[t].dial = NoCall
  /\ u # UserOf[t]
  /\ \E c \in CallIds :
       /\ row[c] = NoRow /\ \A d \in CallIds : row[d] = NoRow => c <= d
       /\ row' = [row EXCEPT ![c].status = "dialled", ![c].receiver = u]
       /\ client' = [client EXCEPT ![t] =
            [mode |-> "calling", with |-> u, id |-> NoCall, dial |-> c]]
  /\ UNCHANGED <<up, down, consumer, task, online, busy>>

\* The rest of startCall, whatever became of the call meanwhile.
Offer(t) ==
  LET c == client[t].dial
  IN /\ c # NoCall
     /\ Send(t, Message("offer", row[c].receiver, c), [client[t] EXCEPT !.dial = NoCall])
     /\ UNCHANGED <<down, server>>

MediaDenied(t) ==
  /\ client[t].dial # NoCall
  /\ client' = [client EXCEPT ![t] = Idle]
  /\ UNCHANGED <<up, down, server>>

\* acceptCall, until the microphone is there.  What is left of it after a
\* hang-up meanwhile finds no offer to answer and is left out.
Accept(t) ==
  /\ client[t].mode = "incoming"
  /\ client' = [client EXCEPT ![t].mode = "connecting"]
  /\ UNCHANGED <<up, down, server>>

Answer(t) ==
  /\ client[t].mode = "connecting"
  /\ Send(t, Message("answer", client[t].with, client[t].id),
          [client[t] EXCEPT !.mode = "ongoing"])
  /\ UNCHANGED <<down, server>>

\* rejectCall, also when the microphone is refused.
Decline(t) ==
  /\ client[t].mode \in {"incoming", "connecting"}
  /\ Send(t, Message("reject", client[t].with, client[t].id), CleanedUp(t))
  /\ UNCHANGED <<down, server>>

\* "Could not connect the call": nobody is told.
FailToConnect(t) ==
  /\ client[t].mode = "connecting"
  /\ client' = [client EXCEPT ![t] = CleanedUp(t)]
  /\ UNCHANGED <<up, down, server>>

\* Mutant of Hangup: the page is reset before the message is built.
HangupAfterCleanup(t) ==
  /\ client[t].mode \in InCall
  /\ Send(t, Message("end", Idle.with, Idle.id), CleanedUp(t))
  /\ UNCHANGED <<down, server>>

Hangup(t) ==
  /\ client[t].mode \in InCall
  /\ Send(t, Message("end", client[t].with, client[t].id), CleanedUp(t))
  /\ UNCHANGED <<down, server>>

\* Mutant of OnSignal: the end of a call counts only once it is accepted.
OnSignalInCall(t, s) ==
  CASE s.type = "incoming" /\ client[t].mode \in InCall ->
         Send(t, Message("reject", s.from, s.id), client[t])
    [] s.type = "incoming" /\ client[t].mode \notin InCall ->
         /\ client' = [client EXCEPT ![t] =
              [@ EXCEPT !.mode = "incoming", !.with = s.from, !.id = s.id]]
         /\ UNCHANGED up
    [] s.type = "answer" ->
         /\ client' = [client EXCEPT ![t].mode = IF @ = "calling" THEN "ongoing" ELSE @]
         /\ UNCHANGED up
    [] OTHER -> /\ client' = IF client[t].mode \in InCall
                                THEN [client EXCEPT ![t] = CleanedUp(t)] ELSE client
                /\ UNCHANGED up

\* onSignal.  No branch compares the call the signal is about with the call
\* the page is in.
OnSignal(t, s) ==
  CASE s.type = "incoming" /\ client[t].mode \in InCall ->
         Send(t, Message("reject", s.from, s.id), client[t])
    [] s.type = "incoming" /\ client[t].mode \notin InCall ->
         /\ client' = [client EXCEPT ![t] =
              [@ EXCEPT !.mode = "incoming", !.with = s.from, !.id = s.id]]
         /\ UNCHANGED up
    [] s.type = "answer" ->
         /\ client' = [client EXCEPT ![t].mode = IF @ = "calling" THEN "ongoing" ELSE @]
         /\ UNCHANGED up
    [] OTHER -> /\ client' = [client EXCEPT ![t] = CleanedUp(t)]
                /\ UNCHANGED up

Receive(t) ==
  /\ client[t].mode # "opening"
  /\ down[t] # <<>>
  /\ OnSignal(t, Head(down[t]))
  /\ down' = [down EXCEPT ![t] = Tail(@)]
  /\ UNCHANGED server

-----------------------------------------------------------------------------
(* The consumer takes a message *)

\* Mutant of Relay: users without the online flag are skipped.
RelayOnline(u, s) ==
  down' = [t \in Tabs |->
    IF UserOf[t] = u /\ online[u] /\ client[t].mode # "closed"
      THEN Append(down[t], s) ELSE down[t]]

\* group_send to call_<u>: every connected tab of the user.
Relay(u, s) ==
  down' = [t \in Tabs |->
    IF UserOf[t] = u /\ consumer[t].joined /\ client[t].mode # "closed"
      THEN Append(down[t], s) ELSE down[t]]

\* _finalize does nothing without an id.
Finalize(id) == IF id = NoCall THEN <<>> ELSE <<"read", "save">>

Handler(t, m) ==
  LET c == consumer[t]
  IN CASE m.type = "offer" ->
            [NoTask EXCEPT !.plan = <<"reach", "free", "ring">>,
                           !.to = m.to, !.id = m.id]
       [] m.type = "answer" ->
            [NoTask EXCEPT !.plan = Finalize(m.id) \o <<"hold own", "hold peer", "tell">>,
                           !.tells = "answer", !.to = m.to, !.id = m.id,
                           !.status = "ongoing", !.answered = TRUE]
       [] m.type = "reject" ->
            [NoTask EXCEPT !.plan = Finalize(m.id) \o <<"tell">>,
                           !.tells = "rejected", !.to = m.to, !.id = m.id,
                           !.status = "rejected"]
       [] m.type = "end" ->
            [NoTask EXCEPT !.plan = Finalize(m.id) \o <<"drop own", "drop peer", "tell">>,
                           !.tells = "ended", !.to = m.to, !.id = m.id,
                           !.status = "ended"]
       [] m.type = "close" /\ c.active # NoCall /\ c.peer # NoUser ->
            [NoTask EXCEPT !.plan = <<"read", "save", "tell", "drop own", "drop peer",
                                      "vanish", "leave">>,
                           !.tells = "ended", !.to = c.peer, !.id = c.active,
                           !.status = "ended", !.answered = TRUE]
       [] OTHER -> [NoTask EXCEPT !.plan = <<"vanish", "leave">>]

\* active_call_id and peer_id: the handler's own assignments, which no other
\* consumer reads.
Remember(t, m) ==
  CASE m.type = "answer" -> [consumer[t] EXCEPT !.active = m.id, !.peer = m.to]
    [] m.type \in {"reject", "end"} ->
         [consumer[t] EXCEPT !.active = NoCall, !.peer = NoUser]
    [] OTHER -> consumer[t]

Handle(t) ==
  /\ task[t] = NoTask
  /\ up[t] # <<>>
  /\ task' = [task EXCEPT ![t] = Handler(t, Head(up[t]))]
  /\ consumer' = [consumer EXCEPT ![t] = Remember(t, Head(up[t]))]
  /\ up' = [up EXCEPT ![t] = Tail(@)]
  /\ UNCHANGED <<client, down, online, busy, row>>

-----------------------------------------------------------------------------
(* The steps of a handler *)

At(t, step) == task[t].plan # <<>> /\ Head(task[t].plan) = step

Done(t) == task' = [task EXCEPT ![t] = NoTask]
Advance(t, local) ==
  IF Len(task[t].plan) = 1 THEN Done(t)
  ELSE task' = [task EXCEPT ![t] = [local EXCEPT !.plan = Tail(@)]]

\* The two early returns of _offer: a row that nobody can refer to, and an
\* answer to the caller's tab alone.
Refuse(t, status, signal) ==
  /\ row' = [row EXCEPT ![task[t].id] =
       [caller |-> UserOf[t], receiver |-> task[t].to, status |-> status, started |-> FALSE]]
  /\ down' = IF client[t].mode = "closed" THEN down
             ELSE [down EXCEPT ![t] = Append(@, Signal(signal, task[t].to, NoCall))]
  /\ Done(t)

Reach(t) ==
  /\ At(t, "reach")
  /\ IF online[task[t].to] THEN Advance(t, task[t]) /\ UNCHANGED <<row, down>>
                           ELSE Refuse(t, "missed", "unavailable")
  /\ UNCHANGED <<client, up, consumer, online, busy>>

CheckFree(t) ==
  /\ At(t, "free")
  /\ IF busy[task[t].to] = NoCall THEN Advance(t, task[t]) /\ UNCHANGED <<row, down>>
                                  ELSE Refuse(t, "busy", "busy")
  /\ UNCHANGED <<client, up, consumer, online, busy>>

Ring(t) ==
  LET to == task[t].to
      c == task[t].id
  IN /\ At(t, "ring")
     /\ row' = [row EXCEPT ![c] = [caller |-> UserOf[t], receiver |-> to,
                                   status |-> "ringing", started |-> FALSE]]
     /\ consumer' = [consumer EXCEPT ![t].active = c, ![t].peer = to]
     /\ Relay(to, Signal("incoming", UserOf[t], c))
     /\ Done(t)
     /\ UNCHANGED <<client, up, online, busy>>

ReadCall(t) ==
  /\ At(t, "read")
  /\ Advance(t, [task[t] EXCEPT !.read = row[task[t].id]])
  /\ UNCHANGED <<client, up, down, consumer, online, busy, row>>

\* Mutant of Marked: the time of the answer is not stored.
MarkedUnanswered(t) ==
  LET read == task[t].read
  IN IF read.status \in {"ended", "rejected"} THEN row[task[t].id]
     ELSE [read EXCEPT !.status = task[t].status]

\* Mutant of Marked: a refusal counts as an answer.
MarkedStarted(t) ==
  LET read == task[t].read
  IN [read EXCEPT !.status = task[t].status, !.started = TRUE]

\* _finalize on the row read a step earlier, and Call.mark.
Marked(t) ==
  LET read == task[t].read
      ringOut == task[t].status = "ended" /\ read.status = "ringing" /\ ~task[t].answered
  IN IF read.status \in {"ended", "rejected"} THEN row[task[t].id]
     ELSE [read EXCEPT !.status = IF ringOut THEN "missed" ELSE task[t].status,
                       !.started = @ \/ task[t].answered]

SaveCall(t) ==
  /\ At(t, "save")
  /\ row' = [row EXCEPT ![task[t].id] = Marked(t)]
  /\ Advance(t, task[t])
  /\ UNCHANGED <<client, up, down, consumer, online, busy>>

SetBusy(t, step, u, c) ==
  /\ At(t, step)
  /\ busy' = [busy EXCEPT ![u] = c]
  /\ Advance(t, task[t])
  /\ UNCHANGED <<client, up, down, consumer, online, row>>

HoldOwn(t)  == SetBusy(t, "hold own", UserOf[t], task[t].id)
HoldPeer(t) == SetBusy(t, "hold peer", task[t].to, task[t].id)
DropOwn(t)  == SetBusy(t, "drop own", UserOf[t], NoCall)
DropPeer(t) == SetBusy(t, "drop peer", task[t].to, NoCall)

Tell(t) ==
  /\ At(t, "tell")
  /\ Relay(task[t].to, Signal(task[t].tells, UserOf[t], task[t].id))
  /\ Advance(t, task[t])
  /\ UNCHANGED <<client, up, consumer, online, busy, row>>

Join(t) ==
  /\ At(t, "join")
  /\ consumer' = [consumer EXCEPT ![t].joined = TRUE]
  /\ Advance(t, task[t])
  /\ UNCHANGED <<client, up, down, online, busy, row>>

Leave(t) ==
  /\ At(t, "leave")
  /\ consumer' = [consumer EXCEPT ![t] = NoConsumer]
  /\ Advance(t, task[t])
  /\ UNCHANGED <<client, up, down, online, busy, row>>

SetOnline(t, step, value) ==
  /\ At(t, step)
  /\ online' = [online EXCEPT ![UserOf[t]] = value]
  /\ Advance(t, task[t])
  /\ UNCHANGED <<client, up, down, consumer, busy, row>>

Appear(t) == SetOnline(t, "appear", TRUE)
Vanish(t) == SetOnline(t, "vanish", FALSE)

AcceptSocket(t) ==
  /\ At(t, "accept")
  /\ client' = [client EXCEPT ![t].mode = "idle"]
  /\ Advance(t, task[t])
  /\ UNCHANGED <<up, down, consumer, online, busy, row>>

\* The two hours of a key are over; neither key is ever refreshed.
OnlineExpires(u) ==
  /\ online[u]
  /\ online' = [online EXCEPT ![u] = FALSE]
  /\ UNCHANGED <<client, up, down, consumer, task, busy, row>>

BusyExpires(u) ==
  /\ busy[u] # NoCall
  /\ busy' = [busy EXCEPT ![u] = NoCall]
  /\ UNCHANGED <<client, up, down, consumer, task, online, row>>

-----------------------------------------------------------------------------
Page(t) ==
  \/ Open(t) \/ Close(t)
  \/ \E u \in Users : StartCall(t, u)
  \/ Offer(t) \/ MediaDenied(t)
  \/ Accept(t) \/ Answer(t) \/ Decline(t) \/ FailToConnect(t) \/ Hangup(t)
  \/ Receive(t)

Serve(t) ==
  \/ Handle(t)
  \/ Reach(t) \/ CheckFree(t) \/ Ring(t)
  \/ ReadCall(t) \/ SaveCall(t)
  \/ HoldOwn(t) \/ HoldPeer(t) \/ DropOwn(t) \/ DropPeer(t)
  \/ Tell(t)
  \/ Join(t) \/ Appear(t) \/ AcceptSocket(t) \/ Vanish(t) \/ Leave(t)

Next ==
  \/ \E t \in Tabs : Page(t) \/ Serve(t)
  \/ \E u \in Expiring : OnlineExpires(u) \/ BusyExpires(u)

Spec == Init /\ [][Next]_vars
-----------------------------------------------------------------------------
(* Safety *)

Quiet == \A t \in Tabs : task[t] = NoTask /\ up[t] = <<>> /\ down[t] = <<>>

TypeOK ==
  /\ client \in [Tabs -> [mode : {"closed", "opening", "idle", "incoming"} \union InCall,
                          with : SomeUser, id : Id, dial : Id]]
  /\ \A t \in Tabs : \A i \in 1..Len(up[t]) :
       up[t][i] \in [type : {"offer", "answer", "reject"}, to : Users, id : CallIds]
                    \union [type : {"end"}, to : Users, id : Id]
                    \union [type : {"close"}, to : {NoUser}, id : {NoCall}]
  /\ \A t \in Tabs : \A i \in 1..Len(down[t]) :
       down[t][i] \in [type : {"incoming", "answer", "rejected", "ended", "busy", "unavailable"},
                       from : Users, id : Id]
  /\ consumer \in [Tabs -> [joined : BOOLEAN, active : Id, peer : SomeUser]]
  /\ online \in [Users -> BOOLEAN]
  /\ busy \in [Users -> Id]
  /\ row \in [CallIds -> [caller : SomeUser, receiver : SomeUser,
                          status : CallStatus, started : BOOLEAN]]

\* A busy flag names a call the user is a party to, and somebody has answered
\* that call (the row is marked before the flags are set).
BusyWithOwnCall ==
  \A u \in Users : busy[u] # NoCall =>
    /\ u \in {row[busy[u]].caller, row[busy[u]].receiver}
    /\ row[busy[u]].started

\* A call its receiver declined never shows as one that took place, whatever
\* the caller's page does meanwhile.
DeclinedNeverStarted ==
  \A c \in CallIds : row[c].status = "rejected" => ~row[c].started

\* When all messages have been handled no page is ringing or talking in a call
\* the log says is over.
NoDeadRing ==
  Quiet => \A t \in Tabs : client[t].id # NoCall =>
             row[client[t].id].status \in {"ringing", "ongoing"}

\* call_consumers.py:44, "so the peer isn't left hanging": when everything has
\* been handled nobody sits in a conversation with a user whose last tab is
\* gone.  Two users can rely on it whatever they do; the call of a third one,
\* declined by the page on its own, makes the consumer forget the conversation.
PeerNotLeftHanging ==
  Quiet => \A t \in Tabs : client[t].mode = "ongoing" =>
             \E p \in Tabs : UserOf[p] = client[t].with /\ client[p].mode # "closed"
=============================================================================
