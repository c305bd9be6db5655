------------------------------ MODULE ChatRoom ------------------------------
(***************************************************************************)
(* One chat room: the consumers of apps/chat/consumers.py, one per socket, *)
(* the message rows they write (apps/messaging/models.py), the presence    *)
(* hash in Redis (apps/chat/presence.py), voice notes uploaded over HTTP   *)
(* (apps/messaging/services.py), and the page of templates/chat/room.html  *)
(* at the other end of each socket.                                        *)
(*                                                                         *)
(* A consumer runs one handler at a time, to its end.  A handler is the    *)
(* sequence of its awaits; between two of them the other consumers run.  A *)
(* group event waits in the consumer's channel until it is idle; what the  *)
(* page sends waits in its inbox.  Database functions run one at a time on *)
(* the thread of the sync code.                                            *)
(***************************************************************************)
EXTENDS Integers, Sequences, FiniteSets, Functions

CONSTANTS Person,    \* identities: a user's id or a guest's key
          Socket,    \* connections; a page that reconnects is a new one
          Who,       \* whose each is
          Long,      \* the texts of more than 8000 characters
          Mixes      \* the mixes of actions that are explored

ASSUME WhoAssumption == Who \in [Socket -> Person]
ASSUME LongAssumption == Long \subseteq Nat \ {0}
ASSUME FiniteAssumption == IsFiniteSet(Person) /\ IsFiniteSet(Socket)

(* A mix names the actions users take and how many in all, the sockets     *)
(* there are, those connected at the start, and the authors of the room's  *)
(* messages so far.                                                        *)
ASSUME MixesAssumption ==
  \A x \in Mixes : /\ x.budget \in Nat /\ x.posted \in Seq(Person)
                   /\ x.on \subseteq x.sockets /\ x.sockets \subseteq Socket

VARIABLES mix,       \* the mix of this behaviour; never changes
          left,      \* actions users may still take: bounds a behaviour
          drawn,     \* the last client_id or text drawn
          msgs,      \* Message rows, named by client_id
          reacts,    \* Reaction rows: is_deleted, by message and actor
          receipts,  \* ReadReceipt rows
          plays,     \* PlayedReceipt rows
          hash,      \* the identities in the room's presence hash
          st,        \* each socket's state
          hand,      \* what its consumer's handler has still to do
          inbox,     \* what its page has sent
          chan,      \* the channels in the room's group, and their events
          page,      \* the pages at the open sockets
          uploads,   \* voice notes being uploaded
          raced,     \* messages written while an older write was unannounced
          lost,      \* messages stored that are never announced
          faded      \* identities whose presence the TTL took

vars == <<mix, left, drawn, msgs, reacts, receipts, plays, hash, st, hand, inbox, chan, page,
          uploads, raced, lost, faded>>
rows == <<msgs, reacts, receipts, plays>>
ghosts == <<raced, lost, faded>>

(* A text is the number it was drawn as.  A row keeps the first 8000       *)
(* characters: all of a short text t, and of a long one what -t stands for.*)
Cut(t) == IF t \in Long THEN -t ELSE t

(* An INSERT, or a new entry of a dict.                                    *)
Put(f, k, v) == [x \in DOMAIN f \cup {k} |-> IF x = k THEN v ELSE f[x]]

(* An event, a frame of the page, and the argument of an await are alike.  *)
Ev(type, who, m, val) == [type |-> type, who |-> who, m |-> m, val |-> val, ids |-> {}]
Do(await, ev) == [await |-> await, ev |-> ev]
Cast(ev) == Do("cast", ev)

Alive == {m \in DOMAIN msgs : ~msgs[m].deleted}
Count(rs, m) == Cardinality({i \in Person : <<m, i>> \in DOMAIN rs /\ ~rs[<<m, i>>]})
Summary(m) == Count(reacts, m)

-----------------------------------------------------------------------------
(* The page.                                                               *)

(* fromServer: the page calls its own messages read, whatever the rows say.*)
FromServer(s, by, text, count) ==
  [by |-> by, text |-> text, deleted |-> FALSE, count |-> count, played |-> FALSE,
   bubble |-> "none", tick |-> IF by = Who[s] THEN "read" ELSE "none"]

(* The optimistic bubble of a message being sent.                          *)
Bubble(s, m) ==
  [by |-> Who[s], text |-> m, deleted |-> FALSE, count |-> 0, played |-> FALSE,
   bubble |-> "unconfirmed", tick |-> "sending"]

(* busy is what the page has said its user does and not yet taken back.    *)
NewPage == [shown |-> <<>>, members |-> {}, signs |-> {}, seen |-> {}, busy |-> {}]

(* What the page shows of m becomes e, if it shows m.  An event names m by *)
(* its id, by which the page does not know a bubble not yet confirmed.     *)
Patch(p, m, e) == IF m \in DOMAIN p.shown THEN [p EXCEPT !.shown[m] = e] ELSE p
Known(p, m) == m \in DOMAIN p.shown /\ p.shown[m].bubble # "unconfirmed"
PatchKnown(p, m, e) == IF Known(p, m) THEN Patch(p, m, e) ELSE p

\* Mutant of HandleMessage: the confirmation keeps the reactions the page counted.
HandleMessageKeeping(s, p, ev) ==
  LET Echo(e) == [e EXCEPT !.bubble = IF @ = "unconfirmed" THEN "confirmed" ELSE @,
                           !.tick = IF @ = "sending" THEN "sent" ELSE @] IN
  [p EXCEPT !.shown = IF ev.m \in DOMAIN p.shown
                      THEN [p.shown EXCEPT ![ev.m] = Echo(@)]
                      ELSE Put(p.shown, ev.m, FromServer(s, ev.who, ev.val, 0))]

\* Mutant of HandleMessage: the confirmation makes every bubble sent.
HandleMessageSent(s, p, ev) ==
  LET Echo(e) == [e EXCEPT !.bubble = IF @ = "unconfirmed" THEN "confirmed" ELSE @, !.count = 0, !.tick = "sent"] IN
  [p EXCEPT !.shown = IF ev.m \in DOMAIN p.shown
                      THEN [p.shown EXCEPT ![ev.m] = Echo(@)]
                      ELSE Put(p.shown, ev.m, FromServer(s, ev.who, ev.val, 0))]

(* The page's own bubble is confirmed; any other message is shown.         *)
HandleMessage(s, p, ev) ==
  LET Echo(e) == [e EXCEPT !.bubble = IF @ = "unconfirmed" THEN "confirmed" ELSE @, !.count = 0,
                           !.tick = IF @ = "sending" THEN "sent" ELSE @]
      shown == IF ev.m \in DOMAIN p.shown
               THEN [p.shown EXCEPT ![ev.m] = Echo(@)]
               ELSE Put(p.shown, ev.m, FromServer(s, ev.who, ev.val, 0)) IN
  [p EXCEPT !.shown = shown, !.signs = @ \ ({"typing", "recording"} \X {ev.who})]

HandleStatus(p, ev) ==
  Patch(p, ev.m, [p.shown[ev.m] EXCEPT !.tick = IF @ = "read" THEN @ ELSE ev.type])

HandleRead(s, p, ev) ==
  [p EXCEPT !.shown = [m \in DOMAIN p.shown |->
     IF m \in ev.ids /\ Known(p, m) /\ p.shown[m].by = Who[s]
     THEN [p.shown[m] EXCEPT !.tick = "read"] ELSE p.shown[m]]]

(* onMessage, for the events of the group.                                 *)
OnEvent(s, p, ev) ==
  LET e == p.shown[ev.m]
      others == ev.who # Who[s] IN
  CASE ev.type = "message"  -> HandleMessage(s, p, ev)
    [] ev.type = "read"     -> HandleRead(s, p, ev)
    [] ev.type = "played"   -> PatchKnown(p, ev.m, [e EXCEPT !.played = @ \/ e.by = Who[s]])
    [] ev.type = "reaction" -> PatchKnown(p, ev.m, [e EXCEPT !.count = ev.val])
    [] ev.type = "edit"     -> PatchKnown(p, ev.m, [e EXCEPT !.text = ev.val])
    [] ev.type = "delete"   -> PatchKnown(p, ev.m, [e EXCEPT !.deleted = TRUE, !.count = 0])
    [] ev.type = "join"     -> [p EXCEPT !.members = @ \cup {ev.who}]
    [] ev.type = "leave"    -> [p EXCEPT !.members = @ \ {ev.who}]
    [] ev.type \in {"typing", "recording"} ->
         [p EXCEPT !.signs = IF others THEN @ \cup {<<ev.type, ev.who>>} ELSE @]
    [] ev.type = "typing_stop"    -> [p EXCEPT !.signs = IF others THEN @ \ {<<"typing", ev.who>>} ELSE @]
    [] ev.type = "recording_stop" -> [p EXCEPT !.signs = IF others THEN @ \ {<<"recording", ev.who>>} ELSE @]

(* markRead: what the page has not reported yet, if it is at the bottom.   *)
Unread(s, p) == {m \in DOMAIN p.shown : p.shown[m].by # Who[s]} \ p.seen
MarkRead(s, p, box) ==
  LET ids == Unread(s, p)
      frame == [Ev("read", Who[s], 0, 0) EXCEPT !.ids = ids] IN
  IF ids # {} /\ "read" \in mix.acts
  THEN /\ page' = [page EXCEPT ![s] = [p EXCEPT !.seen = @ \cup ids]]
       /\ inbox' = [inbox EXCEPT ![s] = Append(box, frame)]
  ELSE page' = [page EXCEPT ![s] = p] /\ inbox' = [inbox EXCEPT ![s] = box]

-----------------------------------------------------------------------------
(* The consumer.                                                           *)

(* The message as it is stored is what the others are told.                *)
AsStored(f) == [f EXCEPT !.val = Cut(f.val)]

\* Mutant of Handler: a leave is announced before the hash forgets the member.
HandlerLeaveFirst(f) ==
  CASE f.type = "message"   -> <<Do("create", f), Cast(AsStored(f)), Do("status", AsStored(f))>>
    [] f.type \in {"typing", "recording"} -> <<Do("allow", f)>>
    [] f.type \in {"typing_stop", "recording_stop"} -> <<Cast(f)>>
    [] f.type \in {"read", "played", "reaction", "edit", "delete"} -> <<Do(f.type, f)>>
    [] f.type = "disconnect" ->
         <<Cast([f EXCEPT !.type = "typing_stop"]), Cast([f EXCEPT !.type = "recording_stop"]),
           Cast([f EXCEPT !.type = "leave"]), Do("leave", f), Do("discard", f)>>

(* receive_json and disconnect: the awaits of each handler.  The events of *)
(* the casts that depend on an earlier await are made by it.               *)
Handler(f) ==
  CASE f.type = "message"   -> <<Do("create", f), Cast(AsStored(f)), Do("status", AsStored(f))>>
    [] f.type \in {"typing", "recording"} -> <<Do("allow", f)>>
    [] f.type \in {"typing_stop", "recording_stop"} -> <<Cast(f)>>
    [] f.type \in {"read", "played", "reaction", "edit", "delete"} -> <<Do(f.type, f)>>
    [] f.type = "disconnect" ->
         <<Cast([f EXCEPT !.type = "typing_stop"]), Cast([f EXCEPT !.type = "recording_stop"]),
           Do("leave", f), Cast([f EXCEPT !.type = "leave"]), Do("discard", f)>>

Connecting(i) == LET f == Ev("join", i, 0, 0) IN
  <<Do("history", f), Do("join", f), Cast(f), Do("snapshot", f)>>

(* What the consumer has to do next: the rest of its handler, or the next  *)
(* handler.  Go takes one await off and puts what it leads to in its place.*)
Todo(s) ==
  IF hand[s] # <<>> \/ inbox[s] = <<>> THEN hand[s] ELSE Handler(Head(inbox[s]))
Rest(s) == IF hand[s] = <<>> THEN Tail(inbox[s]) ELSE inbox[s]
At(s, await) == Todo(s) # <<>> /\ Head(Todo(s)).await = await
Arg(s) == Head(Todo(s)).ev
Go(s, next) == hand' = [hand EXCEPT ![s] = next \o Tail(Todo(s))]
Took(s) == inbox' = [inbox EXCEPT ![s] = Rest(s)]

(* Another handler, or an upload, has written message m and not yet told.  *)
Pending(s, m) ==
  \/ \E v \in Socket \ {s} : hand[v] # <<>> /\ Head(hand[v]).await = "cast" /\ Head(hand[v]).ev.m = m
  \/ m \in DOMAIN uploads
Races(s, m) == raced' = raced \cup (IF Pending(s, m) THEN {m} ELSE {})

\* Mutant of Everyone: a message is not sent back to its author.
EveryoneElse(ev) ==
  [v \in DOMAIN chan |->
     IF ev.type = "message" /\ Who[v] = ev.who THEN chan[v] ELSE Append(chan[v], ev)]

(* group_send: an event goes to every channel of the group, the sender's   *)
(* too.                                                                    *)
Everyone(ev) == [v \in DOMAIN chan |-> Append(chan[v], ev)]

(* The page a consumer sends to may be gone already.                       *)
Tell(s, p) == page' = IF s \in DOMAIN page THEN [page EXCEPT ![s] = p] ELSE page

(* An exception in a handler, or the death of the process, ends consumers  *)
(* without their disconnect handler; their pages connect anew.             *)
Crash(S) ==
  /\ st' = [s \in Socket |-> IF s \in S THEN "crashed" ELSE st[s]]
  /\ hand' = [s \in Socket |-> IF s \in S THEN <<>> ELSE hand[s]]
  /\ inbox' = [s \in Socket |-> IF s \in S THEN <<>> ELSE inbox[s]]
  /\ chan' = Restrict(chan, DOMAIN chan \ S)
  /\ page' = Restrict(page, DOMAIN page \ S)

(* connect: into the group, and accepted.                                  *)
Connect(s) ==
  /\ s \in mix.sockets /\ st[s] = "new" /\ left > 0
  /\ left' = left - 1
  /\ st' = [st EXCEPT ![s] = "open"]
  /\ chan' = Put(chan, s, <<>>)
  /\ page' = Put(page, s, NewPage)
  /\ hand' = [hand EXCEPT ![s] = Connecting(Who[s])]
  /\ UNCHANGED <<mix, drawn, rows, hash, inbox, uploads, ghosts>>

(* The history replaces what the page shows, bubbles being sent included.  *)
History(s) ==
  LET shown == [m \in Alive |-> FromServer(s, msgs[m].by, msgs[m].text, Summary(m))] IN
  /\ At(s, "history")
  /\ Go(s, <<>>)
  /\ IF s \in DOMAIN page
     THEN MarkRead(s, [page[s] EXCEPT !.shown = shown, !.seen = {}], inbox[s])
     ELSE UNCHANGED <<page, inbox>>
  /\ UNCHANGED <<mix, left, drawn, rows, hash, st, chan, uploads, ghosts>>

Join(s) ==
  /\ At(s, "join")
  /\ hash' = hash \cup {Who[s]}
  /\ Go(s, <<>>) /\ Took(s)
  /\ UNCHANGED <<mix, left, drawn, rows, st, chan, page, uploads, ghosts>>

Snapshot(s) ==
  /\ At(s, "snapshot")
  /\ page' = IF s \in DOMAIN page
             THEN [page EXCEPT ![s].members = hash \cup {Who[s]}] ELSE page
  /\ Go(s, <<>>) /\ Took(s)
  /\ UNCHANGED <<mix, left, drawn, rows, hash, st, chan, uploads, ghosts>>

Leave(s) ==
  /\ At(s, "leave")
  /\ hash' = hash \ {Who[s]}
  /\ Go(s, <<>>) /\ Took(s)
  /\ UNCHANGED <<mix, left, drawn, rows, st, chan, page, uploads, ghosts>>

\* Mutant of Discard: the channel stays in the group.
DiscardNothing(s) ==
  /\ At(s, "discard")
  /\ st' = [st EXCEPT ![s] = "gone"]
  /\ Go(s, <<>>) /\ Took(s)
  /\ UNCHANGED <<mix, left, drawn, rows, hash, chan, page, uploads, ghosts>>

Discard(s) ==
  /\ At(s, "discard")
  /\ chan' = Restrict(chan, DOMAIN chan \ {s})
  /\ st' = [st EXCEPT ![s] = "gone"]
  /\ Go(s, <<>>) /\ Took(s)
  /\ UNCHANGED <<mix, left, drawn, rows, hash, page, uploads, ghosts>>

Broadcast(s) ==
  /\ At(s, "cast")
  /\ chan' = Everyone(Arg(s))
  /\ Go(s, <<>>) /\ Took(s)
  /\ UNCHANGED <<mix, left, drawn, rows, hash, st, page, uploads, ghosts>>

(* An idle consumer passes the next event of its channel to its page.      *)
Fanout(s) ==
  LET ev == Head(chan[s]) IN
  /\ s \in DOMAIN chan /\ hand[s] = <<>> /\ chan[s] # <<>>
  /\ chan' = [chan EXCEPT ![s] = Tail(@)]
  /\ IF s \notin DOMAIN page THEN UNCHANGED <<page, inbox>>
     ELSE IF ev.type = "message" THEN MarkRead(s, OnEvent(s, page[s], ev), inbox[s])
     ELSE Tell(s, OnEvent(s, page[s], ev)) /\ UNCHANGED inbox
  /\ UNCHANGED <<mix, left, drawn, rows, hash, st, hand, uploads, ghosts>>

(* presence.allow: whether the throttle lets it pass depends on the clock. *)
Allow(s) ==
  /\ At(s, "allow")
  /\ \E ok \in BOOLEAN : Go(s, IF ok THEN <<Cast(Arg(s))>> ELSE <<>>)
  /\ Took(s)
  /\ UNCHANGED <<mix, left, drawn, rows, hash, st, chan, page, uploads, ghosts>>

CreateMessage(s) ==
  LET f == Arg(s) IN
  /\ At(s, "create")
  /\ msgs' = Put(msgs, f.m, [by |-> f.who, text |-> Cut(f.val), deleted |-> FALSE, voice |-> FALSE])
  /\ Go(s, <<>>) /\ Took(s)
  /\ UNCHANGED <<mix, left, drawn, reacts, receipts, plays, hash, st, chan, page, uploads, ghosts>>

(* Delivered means that somebody else is in the hash by now.               *)
Status(s) ==
  LET ev == [Arg(s) EXCEPT !.type = IF hash \ {Who[s]} # {} THEN "delivered" ELSE "sent"] IN
  /\ At(s, "status")
  /\ page' = IF s \in DOMAIN page THEN [page EXCEPT ![s] = HandleStatus(@, ev)] ELSE page
  /\ Go(s, <<>>) /\ Took(s)
  /\ UNCHANGED <<mix, left, drawn, rows, hash, st, chan, uploads, ghosts>>

\* Mutant of ReadMessages: all the page names are announced, deleted ones too.
ReadMessagesNamed(s) ==
  LET ids == {m \in Arg(s).ids \cap Alive : msgs[m].by # Who[s]} IN
  /\ At(s, "read")
  /\ receipts' = receipts \cup (ids \X {Who[s]})
  /\ Go(s, <<Cast(Arg(s))>>) /\ Took(s)
  /\ UNCHANGED <<mix, left, drawn, msgs, reacts, plays, hash, st, chan, page, uploads, ghosts>>

(* _mark_read: receipts for the messages of others; they are all announced,*)
(* those that were read before too.                                        *)
ReadMessages(s) ==
  LET ids == {m \in Arg(s).ids \cap Alive : msgs[m].by # Who[s]} IN
  /\ At(s, "read")
  /\ receipts' = receipts \cup (ids \X {Who[s]})
  /\ Go(s, IF ids # {} THEN <<Cast([Arg(s) EXCEPT !.ids = ids])>> ELSE <<>>) /\ Took(s)
  /\ UNCHANGED <<mix, left, drawn, msgs, reacts, plays, hash, st, chan, page, uploads, ghosts>>

PlayMessage(s) ==
  LET m == Arg(s).m
      new == m \in Alive /\ msgs[m].voice /\ msgs[m].by # Who[s] /\ <<m, Who[s]>> \notin plays IN
  /\ At(s, "played")
  /\ plays' = plays \cup (IF new THEN {<<m, Who[s]>>} ELSE {})
  /\ Go(s, IF new THEN <<Cast(Arg(s))>> ELSE <<>>) /\ Took(s)
  /\ UNCHANGED <<mix, left, drawn, msgs, reacts, receipts, hash, st, chan, page, uploads, ghosts>>

(* _toggle_reaction.  Taking a reaction back leaves its row, tombstoned,   *)
(* which the constraint on (message, emoji, actor) still counts: the next  *)
(* insert raises IntegrityError, and the consumer dies of it.              *)
Toggle(s) ==
  LET m == Arg(s).m
      k == <<m, Who[s]>>
      new == Put(reacts, k, k \in DOMAIN reacts) IN
  /\ At(s, "reaction")
  /\ IF m \in Alive /\ k \in DOMAIN reacts /\ reacts[k]
     THEN Crash({s}) /\ UNCHANGED <<reacts, raced>>
     ELSE /\ IF m \in Alive
             THEN /\ reacts' = new
                  /\ Races(s, m)
                  /\ Go(s, <<Cast([Arg(s) EXCEPT !.val = Count(new, m)])>>)
             ELSE Go(s, <<>>) /\ UNCHANGED <<reacts, raced>>
          /\ Took(s)
          /\ UNCHANGED <<st, chan, page>>
  /\ UNCHANGED <<mix, left, drawn, msgs, receipts, plays, hash, uploads, lost, faded>>

(* Only the author's own messages, and only those not deleted.  An edit is *)
(* told as it was sent, though the row keeps it cut.                       *)
Mine(s, m) == m \in Alive /\ msgs[m].by = Who[s]

EditMessage(s) ==
  LET f == Arg(s) IN
  /\ At(s, "edit")
  /\ IF Mine(s, f.m)
     THEN msgs' = [msgs EXCEPT ![f.m].text = Cut(f.val)] /\ Races(s, f.m) /\ Go(s, <<Cast(f)>>)
     ELSE Go(s, <<>>) /\ UNCHANGED <<msgs, raced>>
  /\ Took(s)
  /\ UNCHANGED <<mix, left, drawn, reacts, receipts, plays, hash, st, chan, page, uploads, lost, faded>>

DeleteMessage(s) ==
  LET f == Arg(s) IN
  /\ At(s, "delete")
  /\ IF Mine(s, f.m)
     THEN msgs' = [msgs EXCEPT ![f.m].deleted = TRUE] /\ Races(s, f.m) /\ Go(s, <<Cast(f)>>)
     ELSE Go(s, <<>>) /\ UNCHANGED <<msgs, raced>>
  /\ Took(s)
  /\ UNCHANGED <<mix, left, drawn, reacts, receipts, plays, hash, st, chan, page, uploads, lost, faded>>

ConsumerStep(s) ==
  \/ Connect(s) \/ History(s) \/ Join(s) \/ Snapshot(s) \/ Leave(s) \/ Discard(s)
  \/ Broadcast(s) \/ Fanout(s) \/ Allow(s) \/ CreateMessage(s) \/ Status(s)
  \/ ReadMessages(s) \/ PlayMessage(s) \/ Toggle(s) \/ EditMessage(s) \/ DeleteMessage(s)

-----------------------------------------------------------------------------
(* What users do at their pages.                                           *)
UserAct(s, act) ==
  /\ act \in mix.acts /\ s \in DOMAIN page /\ left > 0
  /\ left' = left - 1

ToServer(s, type, m, val) == inbox' = [inbox EXCEPT ![s] = Append(@, Ev(type, Who[s], m, val))]

(* The page names a bubble not yet confirmed by its client_id, which is no *)
(* message's id.                                                           *)
ServerId(e, m) == IF e.bubble = "unconfirmed" THEN 0 ELSE m
Unheard(e, m) == raced' = raced \cup (IF e.bubble = "unconfirmed" THEN {m} ELSE {})

(* A bubble, its message, and the end of typing.                           *)
Send(s) ==
  LET stop == IF "typing" \in page[s].busy THEN <<Ev("typing_stop", Who[s], 0, 0)>> ELSE <<>> IN
  /\ UserAct(s, "message")
  /\ drawn' = drawn + 1
  /\ page' = [page EXCEPT ![s].shown = Put(@, drawn', Bubble(s, drawn')), ![s].busy = @ \ {"typing"}]
  /\ inbox' = [inbox EXCEPT ![s] = Append(@, Ev("message", Who[s], drawn', drawn')) \o stop]
  /\ UNCHANGED <<mix, rows, hash, st, hand, chan, uploads, ghosts>>

(* The user starts to type or to record, and stops.                        *)
Start(s, type) ==
  /\ UserAct(s, type)
  /\ type = "recording" => type \notin page[s].busy
  /\ page' = [page EXCEPT ![s].busy = @ \cup {type}]
  /\ ToServer(s, type, 0, 0)
  /\ UNCHANGED <<mix, drawn, rows, hash, st, hand, chan, uploads, ghosts>>

StopSign == [typing |-> "typing_stop", recording |-> "recording_stop"]
Stop(s, type) ==
  /\ UserAct(s, StopSign[type])
  /\ type \in page[s].busy
  /\ page' = [page EXCEPT ![s].busy = @ \ {type}]
  /\ ToServer(s, StopSign[type], 0, 0)
  /\ UNCHANGED <<mix, drawn, rows, hash, st, hand, chan, uploads, ghosts>>

(* The page counts its user's reaction before the server does.             *)
React(s, m) ==
  /\ UserAct(s, "reaction")
  /\ page' = [page EXCEPT ![s].shown[m].count = @ + 1]
  /\ ToServer(s, "reaction", ServerId(page[s].shown[m], m), 0)
  /\ UNCHANGED <<mix, drawn, rows, hash, st, hand, chan, uploads, ghosts>>

CommitEdit(s, m) ==
  LET e == page[s].shown[m] IN
  /\ UserAct(s, "edit")
  /\ e.by = Who[s]
  /\ drawn' = drawn + 1
  /\ page' = [page EXCEPT ![s].shown[m].text = drawn']
  /\ ToServer(s, "edit", ServerId(e, m), drawn')
  /\ Unheard(e, m)
  /\ UNCHANGED <<mix, rows, hash, st, hand, chan, uploads, lost, faded>>

Del(s, m) ==
  LET e == page[s].shown[m] IN
  /\ UserAct(s, "delete")
  /\ e.by = Who[s]
  /\ page' = [page EXCEPT ![s].shown[m] = [e EXCEPT !.deleted = TRUE, !.count = 0]]
  /\ ToServer(s, "delete", ServerId(e, m), 0)
  /\ Unheard(e, m)
  /\ UNCHANGED <<mix, drawn, rows, hash, st, hand, chan, uploads, lost, faded>>

Play(s, m) ==
  /\ UserAct(s, "played")
  /\ page[s].shown[m].by # Who[s]
  /\ ToServer(s, "played", m, 0)
  /\ UNCHANGED <<mix, drawn, rows, hash, st, hand, chan, page, uploads, ghosts>>

(* The tab is closed or reloaded, or its connection drops.                 *)
CloseSocket(s) ==
  /\ UserAct(s, "close")
  /\ st' = [st EXCEPT ![s] = "closing"]
  /\ page' = Restrict(page, DOMAIN page \ {s})
  /\ ToServer(s, "disconnect", 0, 0)
  /\ UNCHANGED <<mix, drawn, rows, hash, hand, chan, uploads, ghosts>>

(* A recording ends: a bubble, and an upload beside the socket.            *)
SendVoice(s) ==
  /\ UserAct(s, "voice")
  /\ "recording" \in page[s].busy
  /\ drawn' = drawn + 1
  /\ page' = [page EXCEPT ![s].shown = Put(@, drawn', Bubble(s, drawn')), ![s].busy = @ \ {"recording"}]
  /\ ToServer(s, "recording_stop", 0, 0)
  /\ uploads' = Put(uploads, drawn', [by |-> s, stored |-> FALSE])
  /\ UNCHANGED <<mix, rows, hash, st, hand, chan, ghosts>>

PageStep(s) ==
  \/ Send(s) \/ CloseSocket(s) \/ SendVoice(s)
  \/ \E type \in {"typing", "recording"} : Start(s, type) \/ Stop(s, type)
  \/ \E m \in DOMAIN page[s].shown : React(s, m) \/ CommitEdit(s, m) \/ Del(s, m) \/ Play(s, m)

-----------------------------------------------------------------------------
(* VoiceService.create: message and voice note in one transaction.  It has *)
(* no text but what its author edits into it; its number stands for none...*)
Store(m) ==
  /\ ~uploads[m].stored
  /\ msgs' = Put(msgs, m, [by |-> Who[uploads[m].by], text |-> Cut(m), deleted |-> FALSE, voice |-> TRUE])
  /\ uploads' = [uploads EXCEPT ![m].stored = TRUE]
  /\ UNCHANGED <<mix, left, drawn, reacts, receipts, plays, hash, st, hand, inbox, chan, page, ghosts>>

(* ...then the event; if the channel layer fails, the error is swallowed.  *)
Announce(m) ==
  /\ uploads[m].stored
  /\ \/ chan' = Everyone(Ev("message", msgs[m].by, m, msgs[m].text)) /\ UNCHANGED lost
     \/ lost' = lost \cup {m} /\ UNCHANGED chan
  /\ uploads' = Restrict(uploads, DOMAIN uploads \ {m})
  /\ UNCHANGED <<mix, left, drawn, rows, hash, st, hand, inbox, page, raced, faded>>

(* An upload that is refused, or breaks off, leaves a failed bubble - and  *)
(* so does one that was stored if its answer does not get through, unless  *)
(* the event has given the bubble its server id by then.                   *)
Fail(p, m) == Patch(p, m, [p.shown[m] EXCEPT !.tick = "failed"])

Refuse(m) ==
  LET s == uploads[m].by IN
  /\ ~uploads[m].stored
  /\ page' = IF s \in DOMAIN page THEN [page EXCEPT ![s] = Fail(@, m)] ELSE page
  /\ uploads' = Restrict(uploads, DOMAIN uploads \ {m})
  /\ UNCHANGED <<mix, left, drawn, rows, hash, st, hand, inbox, chan, ghosts>>

LoseAnswer(s, m) ==
  /\ m \in DOMAIN msgs /\ msgs[m].voice
  /\ page[s].shown[m].bubble = "unconfirmed" /\ page[s].shown[m].tick = "sending"
  /\ page' = [page EXCEPT ![s] = Fail(@, m)]
  /\ UNCHANGED <<mix, left, drawn, rows, hash, st, hand, inbox, chan, uploads, ghosts>>

UploadStep ==
  \/ \E m \in DOMAIN uploads : Store(m) \/ Announce(m) \/ Refuse(m)
  \/ \E s \in DOMAIN page : \E m \in DOMAIN page[s].shown : LoseAnswer(s, m)

-----------------------------------------------------------------------------
(* The server restarts: no consumer runs its disconnect handler.           *)
Restart ==
  /\ "restart" \in mix.acts /\ left > 0
  /\ left' = left - 1
  /\ Crash({s \in Socket : st[s] \in {"open", "closing"}})
  /\ uploads' = <<>>
  /\ UNCHANGED <<mix, drawn, rows, hash, ghosts>>

(* An hour after the last join Redis drops the whole hash.                 *)
Fade ==
  /\ "fade" \in mix.acts /\ hash # {}
  /\ faded' = faded \cup hash
  /\ hash' = {}
  /\ UNCHANGED <<mix, left, drawn, rows, st, hand, inbox, chan, page, uploads, raced, lost>>

(* A page drops a sign of typing or recording after a few seconds.         *)
SignTimeout(s) ==
  /\ \E sign \in page[s].signs : page' = [page EXCEPT ![s].signs = @ \ {sign}]
  /\ UNCHANGED <<mix, left, drawn, rows, hash, st, hand, inbox, chan, uploads, ghosts>>

(* A room where the sockets mix.on have been connected for a while, with   *)
(* the messages whose authors are mix.posted, read by all if anybody reads.*)
Init ==
  /\ mix \in Mixes
  /\ left = mix.budget
  /\ drawn = Len(mix.posted)
  /\ msgs = [m \in 1..drawn |-> [by |-> mix.posted[m], text |-> Cut(m), deleted |-> FALSE,
                                 voice |-> "played" \in mix.acts]]
  /\ reacts = <<>> /\ plays = {}
  /\ hash = {Who[s] : s \in mix.on}
  /\ receipts = IF "read" \in mix.acts
                THEN {k \in (DOMAIN msgs) \X hash : msgs[k[1]].by # k[2]} ELSE {}
  /\ st = [s \in Socket |-> IF s \in mix.on THEN "open" ELSE "new"]
  /\ hand = [s \in Socket |-> <<>>]
  /\ inbox = [s \in Socket |-> <<>>]
  /\ chan = [s \in mix.on |-> <<>>]
  /\ page = [s \in mix.on |->
       [NewPage EXCEPT !.shown = [m \in DOMAIN msgs |-> FromServer(s, msgs[m].by, msgs[m].text, 0)],
                       !.members = hash,
                       !.seen = {m \in DOMAIN msgs : <<m, Who[s]>> \in receipts}]]
  /\ uploads = <<>>
  /\ raced = {} /\ lost = {} /\ faded = {}

Next ==
  \/ \E s \in Socket : ConsumerStep(s)
  \/ \E s \in DOMAIN page : PageStep(s) \/ SignTimeout(s)
  \/ UploadStep \/ Restart \/ Fade

Spec == Init /\ [][Next]_vars

-----------------------------------------------------------------------------
RowTexts(n) == {Cut(t) : t \in 1..n}             \* what rows keep of the texts drawn up to n
MessageType == [by : Person, text : RowTexts(drawn), deleted : BOOLEAN, voice : BOOLEAN]
PerReader == (DOMAIN msgs) \X Person            \* who reacted, read, played: once per message
Ticks == {"none", "sending", "sent", "delivered", "read", "failed"}

(* Rows, pages and consumers keep their types; a socket is in the group    *)
(* exactly while its consumer lives, and has a page until it closes.       *)
TypeOK ==
  /\ mix \in Mixes /\ left \in Nat /\ drawn \in Nat
  /\ DOMAIN msgs \subseteq 1..drawn
  /\ msgs \in [DOMAIN msgs -> MessageType]
  /\ DOMAIN reacts \subseteq PerReader /\ reacts \in [DOMAIN reacts -> BOOLEAN]
  /\ receipts \subseteq PerReader /\ plays \subseteq PerReader
  /\ hash \subseteq Person
  /\ DOMAIN chan = {s \in Socket : st[s] \in {"open", "closing"}}
  /\ DOMAIN page = {s \in Socket : st[s] = "open"}
  /\ \A s \in Socket : st[s] \in {"new", "gone", "crashed"} => Todo(s) = <<>>
  /\ \A s \in DOMAIN page : \A m \in DOMAIN page[s].shown :
       page[s].shown[m].tick \in Ticks /\ page[s].shown[m].count \in Nat

(* No handler is running, and everything sent has been shown.              *)
Quiet ==
  /\ \A s \in Socket : Todo(s) = <<>>
  /\ \A s \in DOMAIN chan : chan[s] = <<>>
  /\ uploads = <<>>

(* A page that joins in the middle of a conversation misses nothing: what  *)
(* the history does not have, the group brings.  (A voice note whose event *)
(* was swallowed stays unseen until the page is reloaded.)                 *)
NoMessageMissed ==
  Quiet => \A s \in DOMAIN page : Alive \ lost \subseteq DOMAIN page[s].shown

(* When all is quiet every page shows the deletion and the count of        *)
(* reactions that the rows hold, and a text that begins with what the row  *)
(* keeps of it - unless a message was written again before its last write  *)
(* was announced, or changed by its author's page before it was confirmed. *)
(* (The author's page shows the whole of a text that the row has cut, and  *)
(* after an edit every page does, until it is reloaded.)                   *)
PagesFollowRows ==
  Quiet => \A s \in DOMAIN page : \A m \in (DOMAIN page[s].shown \cap DOMAIN msgs) \ (raced \cup lost) :
    LET e == page[s].shown[m] IN
    /\ e.deleted = msgs[m].deleted
    /\ ~e.deleted => Cut(e.text) = msgs[m].text /\ e.count = Summary(m)

(* A tick never falls back, whatever the order in which confirmation,      *)
(* status and receipts arrive.                                             *)
TickOrder == [none |-> 0, sending |-> 1, failed |-> 1, sent |-> 2, delivered |-> 3, read |-> 4]
TicksNeverGoBack ==
  [][\A s \in DOMAIN page \cap DOMAIN page' :
       \A m \in DOMAIN page[s].shown \cap DOMAIN page'[s].shown :
         TickOrder[page'[s].shown[m].tick] >= TickOrder[page[s].shown[m].tick]]_vars

(* On the page a message was sent from, a read tick and a played mark mean *)
(* that somebody else did read or play it.  (A page that has it from the   *)
(* server calls it read at once.)                                          *)
ReceiptsEarned ==
  \A s \in DOMAIN page : \A m \in DOMAIN page[s].shown :
    LET e == page[s].shown[m] IN
    /\ e.bubble # "none" /\ e.tick = "read" => \E i \in Person \ {Who[s]} : <<m, i>> \in receipts
    /\ e.played => \E i \in Person \ {Who[s]} : <<m, i>> \in plays

Here(i) == \E s \in Socket : Who[s] = i /\ st[s] = "open"
Ghost(i) == \E s \in Socket : Who[s] = i /\ st[s] = "crashed"
Lone(i) == Cardinality({s \in Socket : Who[s] = i /\ st[s] # "new"}) = 1

(* When all is quiet, only a crash leaves someone in the hash who is gone. *)
(* Someone with one connection ever is in the hash and on every page while *)
(* it is open, unless the TTL has taken him, and on no page, nor typing or *)
(* recording on one, once it has closed.  (With two connections, the one   *)
(* that closes takes the other's presence away.)                           *)
PresenceTrue ==
  Quiet =>
    /\ \A i \in hash : Here(i) \/ Ghost(i)
    /\ \A i \in Person : \A s \in DOMAIN page :
         /\ Lone(i) /\ Here(i) /\ i \notin faded => i \in hash \cap page[s].members
         /\ ~Here(i) /\ ~Ghost(i) => page[s].signs \cap ({"typing", "recording"} \X {i}) = {}
         /\ Lone(i) /\ ~Here(i) /\ ~Ghost(i) => i \notin page[s].members
=============================================================================
