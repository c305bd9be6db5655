------------------------ MODULE ChatRoomQuietProofs ------------------------
(***************************************************************************)
(* What the pages of ChatRoom show once all is quiet, for any people,      *)
(* sockets and mixes: who is there (PresenceTrue), and the texts, the      *)
(* deletions and the reactions the rows hold (PagesFollowRows).            *)
(***************************************************************************)
EXTENDS ChatRoomProofs

-----------------------------------------------------------------------------
(* Presence.  How far a consumer has come, told by what it has at hand.    *)
Before(h) == Awaits(h, "history") \/ Awaits(h, "join")
Unsaid(h) == Before(h) \/ Casts(h, "join")
Unseen(h) == Unsaid(h) \/ Awaits(h, "snapshot")
Quit(h) == Awaits(h, "leave") \/ Casts(h, "leave") \/ Awaits(h, "discard")
Left(h) == Casts(h, "leave") \/ Awaits(h, "discard")
Parted(h) == Awaits(h, "discard")

(* Whether i is in, or has a sign, once a page has taken all the events of *)
(* its channel: the last one decides, or what the page has already.        *)
Says(q, type, i) == \E k \in DOMAIN q : q[k].type = type /\ q[k].who = i
Ends(x, S, on, off, i, q) ==
  \/ x \in S /\ ~Says(q, off, i)
  \/ \E k \in DOMAIN q : q[k].type = on /\ q[k].who = i /\
       \A j \in DOMAIN q : j > k => ~(q[j].type = off /\ q[j].who = i)

(* Who keeps an identity in the hash, and a sign of his on the pages.      *)
Holds(v) == st[v] \in {"open", "crashed"} \/ (st[v] = "closing" /\ ~Left(hand[v]))
Stopped(type, h) == IF type = "typing" THEN Departing(h) ELSE Quit(h)
Signals(type, v) == st[v] \in {"open", "crashed"} \/ (st[v] = "closing" /\ ~Stopped(type, hand[v]))
Only(u) == st[u] # "new" /\ \A v \in Socket : Who[v] = Who[u] /\ st[v] # "new" => v = u
Away(u) == st[u] = "gone" \/ (st[u] = "closing" /\ Parted(hand[u]))

HashHeld == \A i \in hash : \E v \in Socket : Who[v] = i /\ Holds(v)
LeaveKnown == \A s \in DOMAIN chan : \A ev \in Range(chan[s]) :
  ev.type = "leave" => \E v \in Socket : Who[v] = ev.who /\ st[v] \notin {"new", "open"}
HereIn(u) == Who[u] \in hash \/ Before(hand[u])
HereOn(u, s) ==
  \/ Who[u] \in page[s].members \/ Says(chan[s], "join", Who[u])
  \/ Unsaid(hand[u]) \/ Unseen(hand[s])
OnlyHere == \A u \in Socket : Only(u) /\ st[u] = "open" /\ Who[u] \notin faded =>
  HereIn(u) /\ \A s \in DOMAIN page : HereOn(u, s)
OnlyGone == \A u \in Socket : Only(u) /\ Away(u) =>
  \A s \in DOMAIN page : ~Ends(Who[u], page[s].members, "join", "leave", Who[u], chan[s])
SignHeld(type, off) == \A s \in DOMAIN page : \A i \in Person \ {Who[s]} :
  Ends(<<type, i>>, page[s].signs, type, off, i, chan[s]) => \E v \in Socket : Who[v] = i /\ Signals(type, v)
SignsHeld == SignHeld("typing", "typing_stop") /\ SignHeld("recording", "recording_stop")
Presence == HashHeld /\ LeaveKnown /\ OnlyHere /\ OnlyGone /\ SignsHeld

LEMMA SaysAppend ==
  ASSUME NEW q \in Seq(Event), NEW x \in Event, NEW type, NEW i
  PROVE  Says(Append(q, x), type, i) <=> Says(q, type, i) \/ (x.type = type /\ x.who = i)
<1> DEFINE c == Append(q, x)
<1>1. /\ Len(q) \in Nat /\ DOMAIN q = 1..Len(q) /\ DOMAIN c = 1..(Len(q) + 1)
      /\ c[Len(q)+1] = x /\ \A k \in 1..Len(q) : c[k] = q[k]
  OBVIOUS
<1> HIDE DEF c
<1>2. DOMAIN c = DOMAIN q \cup {Len(q) + 1} BY <1>1
<1>3. Says(c, type, i) <=> Says(q, type, i) \/ (x.type = type /\ x.who = i) BY <1>1, <1>2 DEF Says
<1> QED BY <1>3 DEF c

LEMMA SaysTail ==
  ASSUME NEW q \in Seq(Event), q # <<>>, NEW type, NEW i
  PROVE  Says(q, type, i) <=> Says(Tail(q), type, i) \/ (Head(q).type = type /\ Head(q).who = i)
<1> DEFINE c == Tail(q)
<1>1. /\ Len(q) \in Nat /\ Len(q) >= 1 /\ DOMAIN q = 1..Len(q) /\ DOMAIN c = 1..(Len(q) - 1)
      /\ q[1] = Head(q) /\ \A k \in 1..(Len(q) - 1) : c[k] = q[k+1]
  OBVIOUS
<1> HIDE DEF c
<1>2. \A k \in DOMAIN q : k = 1 \/ (k - 1 \in DOMAIN c /\ c[k-1] = q[k])
  <2>1. \A k \in 1..Len(q) : k = 1 \/ (k - 1 \in 1..(Len(q) - 1) /\ (k - 1) + 1 = k) BY <1>1
  <2> QED BY <1>1, <2>1
<1>3. \A k \in DOMAIN c : k + 1 \in DOMAIN q /\ c[k] = q[k+1] BY <1>1
<1>4. 1 \in DOMAIN q BY <1>1
<1>5. Says(c, type, i) => Says(q, type, i) BY <1>3 DEF Says
<1>6. Head(q).type = type /\ Head(q).who = i => Says(q, type, i) BY <1>1, <1>4 DEF Says
<1>7. Says(q, type, i) => Says(c, type, i) \/ (Head(q).type = type /\ Head(q).who = i) BY <1>1, <1>2 DEF Says
<1>8. Says(q, type, i) <=> Says(c, type, i) \/ (Head(q).type = type /\ Head(q).who = i) BY <1>5, <1>6, <1>7
<1> QED BY <1>8 DEF c

LEMMA EndsAppend ==
  ASSUME NEW q \in Seq(Event), NEW e \in Event, NEW x, NEW S, NEW on, NEW off, on # off, NEW i
  PROVE  /\ e.type = off /\ e.who = i => ~Ends(x, S, on, off, i, Append(q, e))
         /\ Ends(x, S, on, off, i, Append(q, e)) => Ends(x, S, on, off, i, q) \/ (e.type = on /\ e.who = i)
<1> DEFINE c == Append(q, e)
<1>1. /\ Len(q) \in Nat /\ DOMAIN q = 1..Len(q) /\ DOMAIN c = 1..(Len(q) + 1)
      /\ c[Len(q)+1] = e /\ \A k \in 1..Len(q) : c[k] = q[k]
  OBVIOUS
<1>2. Says(c, off, i) <=> Says(q, off, i) \/ (e.type = off /\ e.who = i) BY SaysAppend
<1> HIDE DEF c
<1>3. \A k \in DOMAIN c : (k \in DOMAIN q /\ k < Len(q) + 1) \/ k = Len(q) + 1
  BY <1>1
<1>4. Len(q) + 1 \in DOMAIN c /\ \A k \in DOMAIN q : k \in DOMAIN c /\ c[k] = q[k] BY <1>1
<1>5. ASSUME e.type = off, e.who = i PROVE ~Ends(x, S, on, off, i, c)
  <2>1. \A k \in DOMAIN c : c[k].type = on => Len(q) + 1 > k
    <3>1. \A k \in DOMAIN q : Len(q) + 1 > k BY <1>1
    <3> QED BY <1>1, <1>3, <1>5, <3>1
  <2> QED BY <1>1, <1>2, <1>4, <1>5, <2>1 DEF Ends
<1>6. ASSUME Ends(x, S, on, off, i, c), ~(e.type = on /\ e.who = i) PROVE Ends(x, S, on, off, i, q)
  <2>1. CASE x \in S /\ ~Says(c, off, i) BY <1>2, <2>1 DEF Ends
  <2>2. ASSUME NEW k \in DOMAIN c, c[k].type = on, c[k].who = i,
               \A j \in DOMAIN c : j > k => ~(c[j].type = off /\ c[j].who = i)
        PROVE  Ends(x, S, on, off, i, q)
    <3>1. k \in DOMAIN q BY <1>1, <1>3, <1>6, <2>2
    <3>2. q[k].type = on /\ q[k].who = i BY <1>4, <2>2, <3>1
    <3>3. \A j \in DOMAIN q : j > k => ~(q[j].type = off /\ q[j].who = i) BY <1>4, <2>2
    <3> QED BY <3>1, <3>2, <3>3 DEF Ends
  <2> QED BY <1>6, <2>1, <2>2 DEF Ends
<1>7. \/ ~Ends(x, S, on, off, i, c) \/ Ends(x, S, on, off, i, q) \/ (e.type = on /\ e.who = i) BY <1>6
<1> QED BY <1>5, <1>7 DEF c

(* T is what there is of S after the first event.                          *)
LEMMA EndsTail ==
  ASSUME NEW q \in Seq(Event), q # <<>>, NEW x, NEW S, NEW T, NEW on, NEW off, on # off, NEW i,
         Ends(x, T, on, off, i, Tail(q)),
         x \in T => (x \in S /\ ~(Head(q).type = off /\ Head(q).who = i)) \/ (Head(q).type = on /\ Head(q).who = i)
  PROVE  Ends(x, S, on, off, i, q)
<1> DEFINE c == Tail(q)
<1>1. /\ Len(q) \in Nat /\ Len(q) >= 1 /\ DOMAIN q = 1..Len(q) /\ DOMAIN c = 1..(Len(q) - 1)
      /\ q[1] = Head(q) /\ \A k \in 1..(Len(q) - 1) : c[k] = q[k+1]
  OBVIOUS
<1>2. Says(q, off, i) <=> Says(c, off, i) \/ (Head(q).type = off /\ Head(q).who = i) BY SaysTail
<1>3. Ends(x, T, on, off, i, c) OBVIOUS
<1> HIDE DEF c
<1>4. \A j \in DOMAIN q : j > 1 => j - 1 \in DOMAIN c /\ c[j-1] = q[j]
  <2>1. \A j \in 1..Len(q) : j > 1 => j - 1 \in 1..(Len(q) - 1) /\ (j - 1) + 1 = j BY <1>1
  <2> QED BY <1>1, <2>1
<1>5. CASE x \in T /\ ~Says(c, off, i)
  <2>1. CASE x \in S /\ ~(Head(q).type = off /\ Head(q).who = i) BY <1>2, <1>5, <2>1 DEF Ends
  <2>2. CASE Head(q).type = on /\ Head(q).who = i
    <3>1. 1 \in DOMAIN q /\ q[1].type = on /\ q[1].who = i BY <1>1, <2>2
    <3>2. \A j \in DOMAIN q : j > 1 => ~(q[j].type = off /\ q[j].who = i) BY <1>4, <1>5 DEF Says
    <3> QED BY <3>1, <3>2 DEF Ends
  <2> QED BY <1>5, <2>1, <2>2
<1>6. ASSUME NEW k \in DOMAIN c, c[k].type = on, c[k].who = i,
             \A j \in DOMAIN c : j > k => ~(c[j].type = off /\ c[j].who = i)
      PROVE  Ends(x, S, on, off, i, q)
  <2>1. k + 1 \in DOMAIN q /\ q[k+1].type = on /\ q[k+1].who = i BY <1>1, <1>6
  <2>2. ASSUME NEW j \in DOMAIN q, j > k + 1 PROVE ~(q[j].type = off /\ q[j].who = i)
    <3>1. j > 1 /\ j - 1 > k BY <1>1, <2>2
    <3>2. j - 1 \in DOMAIN c /\ c[j-1] = q[j] BY <1>4, <3>1
    <3> QED BY <1>6, <3>1, <3>2
  <2> QED BY <2>1, <2>2 DEF Ends
<1> QED BY <1>3, <1>5, <1>6 DEF Ends

LEMMA EndsLess ==
  ASSUME NEW x, NEW S, NEW T, x \in T => x \in S, NEW on, NEW off, NEW i, NEW q, Ends(x, T, on, off, i, q)
  PROVE  Ends(x, S, on, off, i, q)
BY DEF Ends

LEMMA EndsNone ==
  ASSUME NEW x, NEW S, x \notin S, NEW on, NEW off, NEW i
  PROVE  ~Ends(x, S, on, off, i, <<>>)
BY DEF Ends

(* A channel that is empty ends with what the page shows.                  *)
LEMMA EndsQuiet ==
  ASSUME NEW x, NEW S, NEW on, NEW off, NEW i
  PROVE  Ends(x, S, on, off, i, <<>>) <=> x \in S
BY DEF Ends, Says

(* The stages of a handler; and the steps that change no consumer's stage, *)
(* no channel and nobody's presence.                                       *)
SameStage(g, h) ==
  /\ (Before(g) <=> Before(h)) /\ (Unsaid(g) <=> Unsaid(h)) /\ (Unseen(g) <=> Unseen(h))
  /\ (Departing(g) <=> Departing(h)) /\ (Quit(g) <=> Quit(h)) /\ (Left(g) <=> Left(h)) /\ (Parted(g) <=> Parted(h))
Bare(h) == ~Unseen(h) /\ ~Departing(h)
Passing(ev) == ev.type \notin {"join", "leave", "typing_stop", "recording_stop"}
SameView(v) == page'[v].members = page[v].members /\ page'[v].signs \subseteq page[v].signs
Calm ==
  /\ UNCHANGED <<st, hash, faded, chan>>
  /\ DOMAIN page' = DOMAIN page /\ \A v \in DOMAIN page : SameView(v)
  /\ \A v \in Socket : SameStage(hand[v], hand'[v])

LEMMA Stages ==
  ASSUME NEW s \in Socket
  PROVE  LET i == Who[s] IN
         /\ Bare(<<>>) /\ \A f : Bare(Reports(f)) /\ (Passing(f) => Bare(Sends(f)) /\ Bare(Tells(f)))
         /\ Before(Joining1(i)) /\ Before(Joining2(i))
         /\ ~Before(Joining3(i)) /\ Unsaid(Joining3(i)) /\ ~Unsaid(Joining4(i)) /\ Unseen(Joining4(i))
         /\ ~Departing(Joining1(i)) /\ ~Departing(Joining2(i)) /\ ~Departing(Joining3(i)) /\ ~Departing(Joining4(i))
         /\ Departing(Leaving2(i)) /\ ~Quit(Leaving2(i)) /\ Quit(Leaving3(i)) /\ ~Left(Leaving3(i))
         /\ Left(Leaving4(i)) /\ ~Parted(Leaving4(i)) /\ Parted(Leaving5(i))
         /\ ~Unseen(Leaving2(i)) /\ ~Unseen(Leaving3(i)) /\ ~Unseen(Leaving4(i)) /\ ~Unseen(Leaving5(i))
<1> USE DEF Before, Unsaid, Unseen, Departing, Quit, Left, Parted, Awaits, Casts
<1>1. \A h : h = <<>> => Bare(h) BY DEF Bare
<1>2. \A h : Head(h).await = "status" => Bare(h) BY DEF Bare
<1>3. \A h : Head(h).await = "cast" /\ Passing(Head(h).ev) => Bare(h) BY DEF Bare, Passing
<1>4. \A f : Bare(Reports(f)) /\ (Passing(f) => Bare(Sends(f)) /\ Bare(Tells(f)))
  BY <1>2, <1>3, FrameShapes
<1>5. LET i == Who[s] IN
      /\ Before(Joining1(i)) /\ Before(Joining2(i))
      /\ ~Before(Joining3(i)) /\ Unsaid(Joining3(i)) /\ ~Unsaid(Joining4(i)) /\ Unseen(Joining4(i))
      /\ ~Departing(Joining1(i)) /\ ~Departing(Joining2(i)) /\ ~Departing(Joining3(i)) /\ ~Departing(Joining4(i))
  BY HandShapes, JoiningHands
<1>6. LET i == Who[s] IN
      /\ Departing(Leaving2(i)) /\ ~Quit(Leaving2(i)) /\ Quit(Leaving3(i)) /\ ~Left(Leaving3(i))
      /\ Left(Leaving4(i)) /\ ~Parted(Leaving4(i)) /\ Parted(Leaving5(i))
      /\ ~Unseen(Leaving2(i)) /\ ~Unseen(Leaving3(i)) /\ ~Unseen(Leaving4(i)) /\ ~Unseen(Leaving5(i))
  BY HandShapes, LeavingHands
<1> QED BY <1>1, <1>4, <1>5, <1>6

(* One stage includes another.                                             *)
LEMMA StageOrder ==
  ASSUME NEW h
  PROVE  /\ Before(h) => Unsaid(h)
         /\ Unsaid(h) => Unseen(h)
         /\ Parted(h) => Left(h)
         /\ Left(h) => Quit(h)
         /\ Quit(h) => Departing(h)
         /\ Unseen(h) => ~Departing(h)
BY DEF Before, Unsaid, Unseen, Departing, Quit, Left, Parted, Awaits, Casts

LEMMA BareStage == ASSUME NEW g, NEW h, Bare(g), Bare(h) PROVE SameStage(g, h)
BY StageOrder DEF Bare, SameStage

LEMMA CalmMove ==
  ASSUME Types, NEW s \in Socket, NEW h, NEW b, Move(s, h, b), SameStage(hand[s], h), UNCHANGED <<st, hash, faded, chan>>,
         DOMAIN page' = DOMAIN page, \A v \in DOMAIN page : SameView(v)
  PROVE  Calm
<1>1. HandTypes BY DEF Types
<1>2. hand'[s] = h /\ \A v \in Socket \ {s} : hand'[v] = hand[v] BY <1>1, MoveParts
<1>3. \A v \in Socket : SameStage(hand[v], hand'[v])
  <2>1. \A v \in Socket \ {s} : SameStage(hand[v], hand'[v]) BY <1>2 DEF SameStage
  <2>2. SameStage(hand[s], hand'[s])
    <3>1. hand'[s] = h BY <1>2
    <3> QED BY <3>1
  <2> QED BY <2>1, <2>2
<1> QED BY <1>3 DEF Calm

LEMMA CalmPage ==
  ASSUME Types, NEW s \in DOMAIN page, NEW q, page' = [page EXCEPT ![s] = q], q.members = page[s].members,
         q.signs \subseteq page[s].signs
  PROVE  DOMAIN page' = DOMAIN page /\ \A v \in DOMAIN page : SameView(v)
<1>1. DOMAIN page' = DOMAIN page /\ page'[s] = q /\ \A v \in DOMAIN page \ {s} : page'[v] = page[v]
  BY PageParts DEF Types
<1>2. \A v \in DOMAIN page \ {s} : SameView(v) BY <1>1 DEF SameView
<1>3. SameView(s) BY <1>1 DEF SameView
<1> QED BY <1>1, <1>2, <1>3

LEMMA CalmConsumer ==
  ASSUME Types, NEW s \in Socket,
         \/ History(s) \/ Allow(s) \/ CreateMessage(s) \/ Status(s) \/ ReadMessages(s) \/ PlayMessage(s)
         \/ (Toggle(s) /\ ~Tombstone(s)) \/ EditMessage(s) \/ DeleteMessage(s)
  PROVE  Calm
<1>1. HandTypes /\ PageTypes BY DEF Types
<1>2. UNCHANGED <<st, hash, faded, chan>>
  <2>1. CASE Toggle(s) /\ ~Tombstone(s) BY <2>1, TypesToggle DEF Toggle
  <2> QED BY <2>1 DEF History, Allow, CreateMessage, Status, ReadMessages, PlayMessage, EditMessage, DeleteMessage, ghosts
<1>3. DOMAIN page' = DOMAIN page /\ \A v \in DOMAIN page : SameView(v)
  <2>1. CASE History(s)
    <3>1. /\ DOMAIN page' = DOMAIN page /\ \A v \in DOMAIN page \ {s} : page'[v] = page[v]
          /\ s \in DOMAIN page => page'[s].members = page[s].members /\ page'[s].signs = page[s].signs
      BY <2>1, HistoryShows
    <3> QED BY <3>1 DEF SameView
  <2>2. CASE Status(s) /\ s \in DOMAIN page
    <3>1. PICK q : page' = [page EXCEPT ![s] = q] /\ q.members = page[s].members /\ q.signs = page[s].signs
      BY <2>2, TypesStatus
    <3> QED BY <2>2, <3>1, CalmPage
  <2>3. CASE page' = page BY <2>3 DEF SameView
  <2>4. Toggle(s) /\ ~Tombstone(s) => page' = page BY TypesToggle
  <2>5. Status(s) /\ s \notin DOMAIN page => page' = page BY TypesStatus
  <2> QED BY <2>1, <2>2, <2>3, <2>4, <2>5
          DEF Allow, CreateMessage, ReadMessages, PlayMessage, EditMessage, DeleteMessage
<1>4. \E h, b : Move(s, h, b) /\ SameStage(hand[s], h)
  <2>1. ASSUME Begins(s, Arg(s)), NEW g, Passing(g),
               \/ Move(s, <<>>, Tail(inbox[s])) \/ Move(s, Tells(g), Tail(inbox[s]))
               \/ Move(s, Sends(g), Tail(inbox[s]))
        PROVE  \E h, b : Move(s, h, b) /\ SameStage(hand[s], h)
    <3>1. hand[s] = <<>> BY <2>1 DEF Begins
    <3>2. Bare(hand[s]) /\ Bare(Tells(g)) /\ Bare(Sends(g)) /\ Bare(<<>>) BY <2>1, <3>1, Stages
    <3>3. SameStage(hand[s], <<>>) /\ SameStage(hand[s], Tells(g)) /\ SameStage(hand[s], Sends(g)) BY <3>2, BareStage
    <3> QED BY <2>1, <3>3
  <2>2. \A g : g.type \in Kinds \cup Named \cup {"message"} => Passing(g) BY DEF Kinds, Named, Passing
  <2>3. "read" \in Named /\ "played" \in Named /\ "reaction" \in Named /\ "edit" \in Named /\ "delete" \in Named BY DEF Named
  <2>4. CASE History(s)
    <3>1. PICK b : Move(s, Joining2(Who[s]), b) BY <2>4, HistoryShows
    <3>2. hand[s] = Joining1(Who[s]) BY <2>4, HistoryShows
    <3>3. SameStage(Joining1(Who[s]), Joining2(Who[s])) BY Stages, StageOrder DEF SameStage
    <3> QED BY <3>1, <3>2, <3>3
  <2>5. CASE Status(s)
    <3>1. hand[s] = Reports(Arg(s)) /\ Move(s, <<>>, inbox[s]) BY <2>5, TypesStatus DEF StatusMove
    <3>2. Bare(hand[s]) /\ Bare(<<>>) BY <3>1, Stages
    <3>3. SameStage(hand[s], <<>>) BY <3>2, BareStage
    <3> QED BY <3>1, <3>3
  <2>6. CASE Allow(s)
    <3>1. Begins(s, Arg(s)) /\ Arg(s).type \in Kinds
          /\ (Move(s, <<>>, Tail(inbox[s])) \/ Move(s, Tells(Arg(s)), Tail(inbox[s])))
      BY <2>6, TypesAllow DEF TellMove
    <3> QED BY <2>1, <2>2, <3>1
  <2>7. CASE CreateMessage(s)
    <3>1. PICK g : g = AsStored(Arg(s)) OBVIOUS
    <3>2. Begins(s, Arg(s)) /\ Arg(s).type = "message" /\ Move(s, Sends(g), Tail(inbox[s])) /\ Own(drawn, s, Arg(s))
      BY <2>7, <3>1, TypesCreate DEF CreateMove
    <3>3. g.type = "message" BY <3>1, <3>2, StoredFrame DEF Types, HandTypes
    <3> QED BY <2>1, <2>2, <3>2, <3>3
  <2>8. CASE ReadMessages(s)
    <3>1. Begins(s, Arg(s)) /\ ReadEvent(s).type = "read"
          /\ (Move(s, <<>>, Tail(inbox[s])) \/ Move(s, Tells(ReadEvent(s)), Tail(inbox[s])))
      BY <2>8, TypesRead DEF TellMove
    <3>2. Passing(ReadEvent(s)) BY <2>2, <2>3, <3>1
    <3> QED BY <2>1, <3>1, <3>2
  <2>9. CASE PlayMessage(s)
    <3>1. Begins(s, Arg(s)) /\ Arg(s).type = "played"
          /\ (Move(s, <<>>, Tail(inbox[s])) \/ Move(s, Tells(Arg(s)), Tail(inbox[s])))
      BY <2>9, TypesPlay DEF TellMove
    <3> QED BY <2>1, <2>2, <2>3, <3>1
  <2>10. CASE Toggle(s) /\ ~Tombstone(s)
    <3>1. Begins(s, Arg(s)) /\ \/ Move(s, <<>>, Tail(inbox[s]))
                               \/ Move(s, Tells(ReactEvent(s)), Tail(inbox[s])) /\ ReactEvent(s).type = "reaction"
      BY <2>10, TypesToggle
    <3>2. CASE Move(s, Tells(ReactEvent(s)), Tail(inbox[s])) /\ ReactEvent(s).type = "reaction"
      <4>1. Passing(ReactEvent(s)) BY <2>2, <2>3, <3>2
      <4> QED BY <2>1, <3>1, <3>2, <4>1
    <3>3. CASE Move(s, <<>>, Tail(inbox[s]))
      <4>1. hand[s] = <<>> BY <3>1 DEF Begins
      <4>2. SameStage(hand[s], <<>>) BY <4>1, Stages, BareStage
      <4> QED BY <3>3, <4>2
    <3> QED BY <3>1, <3>2, <3>3
  <2>11. CASE EditMessage(s)
    <3>1. Begins(s, Arg(s)) /\ Arg(s).type = "edit"
          /\ (Move(s, <<>>, Tail(inbox[s])) \/ Move(s, Tells(Arg(s)), Tail(inbox[s])))
      BY <2>11, TypesEdit
    <3> QED BY <2>1, <2>2, <2>3, <3>1
  <2>12. CASE DeleteMessage(s)
    <3>1. Begins(s, Arg(s)) /\ Arg(s).type = "delete"
          /\ (Move(s, <<>>, Tail(inbox[s])) \/ Move(s, Tells(Arg(s)), Tail(inbox[s])))
      BY <2>12, TypesDelete
    <3> QED BY <2>1, <2>2, <2>3, <3>1
  <2> QED BY <2>4, <2>5, <2>6, <2>7, <2>8, <2>9, <2>10, <2>11, <2>12
<1>5. PICK h, b : Move(s, h, b) /\ SameStage(hand[s], h) BY <1>4
<1> QED BY <1>2, <1>3, <1>5, CalmMove

LEMMA CalmStill ==
  ASSUME UNCHANGED <<st, hash, faded, chan, hand>>, DOMAIN page' = DOMAIN page, \A v \in DOMAIN page : SameView(v)
  PROVE  Calm
<1>1. \A v \in Socket : SameStage(hand[v], hand'[v]) BY DEF SameStage
<1> QED BY <1>1 DEF Calm

LEMMA CalmSays ==
  ASSUME Types, UNCHANGED <<st, hash, faded, chan, hand>>, NEW s \in DOMAIN page, NEW q, NEW f, SaysOne(s, q, f)
  PROVE  Calm
<1>1. DOMAIN page' = DOMAIN page /\ \A v \in DOMAIN page : SameView(v) BY CalmPage DEF SaysOne
<1> QED BY <1>1, CalmStill

LEMMA CalmPageStep ==
  ASSUME Types, NEW s \in DOMAIN page, PageStep(s), ~CloseSocket(s)
  PROVE  Calm
<1> DEFINE Still == UNCHANGED <<st, hash, faded, chan, hand>>
<1>1. CASE Send(s)
  <2>1. PICK q : page' = [page EXCEPT ![s] = q] /\ q.members = page[s].members /\ q.signs = page[s].signs
    BY <1>1, TypesSend
  <2>2. Still BY <1>1 DEF Send, ghosts
  <2>3. DOMAIN page' = DOMAIN page /\ \A v \in DOMAIN page : SameView(v) BY <2>1, CalmPage
  <2> QED BY <2>2, <2>3, CalmStill
<1>2. CASE SendVoice(s)
  <2>1. PICK q : SaysOne(s, q, Asks(s, "recording_stop", 0, 0)) BY <1>2, TypesSendVoice
  <2>2. Still BY <1>2 DEF SendVoice, ghosts
  <2> QED BY <2>1, <2>2, CalmSays
<1>3. ASSUME NEW type \in {"typing", "recording"}, Start(s, type) \/ Stop(s, type) PROVE Calm
  <2>1. PICK q, f : SaysOne(s, q, f) BY <1>3, TypesStart DEF Kinds
  <2>2. Still BY <1>3 DEF Start, Stop, ghosts
  <2> QED BY <2>1, <2>2, CalmSays
<1>4. ASSUME NEW m \in DOMAIN page[s].shown, React(s, m) \/ CommitEdit(s, m) \/ Del(s, m) \/ Play(s, m) PROVE Calm
  <2>1. \E q, f : SaysOne(s, q, f)
    <3>1. CASE React(s, m) BY <3>1, TypesReact
    <3>2. CASE CommitEdit(s, m) BY <3>2, TypesCommitEdit
    <3>3. CASE Del(s, m) BY <3>3, TypesDel
    <3>4. CASE Play(s, m) BY <3>4, TypesPlayed
    <3> QED BY <1>4, <3>1, <3>2, <3>3, <3>4
  <2>2. Still BY <1>4 DEF React, CommitEdit, Del, Play, ghosts
  <2> QED BY <2>1, <2>2, CalmSays
<1> QED BY <1>1, <1>2, <1>3, <1>4 DEF PageStep

(* The rest of the steps that are calm: of uploads and of signs timing out.*)
LEMMA CalmRest ==
  ASSUME Types,
         \/ UNCHANGED vars
         \/ \E s \in DOMAIN page : SignTimeout(s)
         \/ \E m \in DOMAIN uploads : Store(m) \/ Refuse(m)
         \/ \E s \in DOMAIN page : \E m \in DOMAIN page[s].shown : LoseAnswer(s, m)
  PROVE  Calm
<1> DEFINE Still == UNCHANGED <<st, hash, faded, chan, hand>>
<1>1. ASSUME page' = page, Still PROVE Calm
  <2>1. \A v \in DOMAIN page : SameView(v) BY <1>1 DEF SameView
  <2> QED BY <1>1, <2>1, CalmStill
<1>2. ASSUME NEW s \in DOMAIN page, SignTimeout(s) PROVE Calm
  <2>1. PICK q : page' = [page EXCEPT ![s] = q] /\ q.members = page[s].members /\ q.signs \subseteq page[s].signs
    BY <1>2, TypesSign
  <2>2. Still BY <1>2 DEF SignTimeout, ghosts
  <2>3. DOMAIN page' = DOMAIN page /\ \A v \in DOMAIN page : SameView(v) BY <2>1, CalmPage
  <2> QED BY <2>2, <2>3, CalmStill
<1>3. ASSUME NEW s, NEW m, FailMove(s, m), Still PROVE Calm
  <2>1. s \in DOMAIN page BY <1>3 DEF FailMove
  <2>2. PICK q : page' = [page EXCEPT ![s] = q] /\ q.members = page[s].members /\ q.signs = page[s].signs
    BY <1>3 DEF FailMove
  <2>3. DOMAIN page' = DOMAIN page /\ \A v \in DOMAIN page : SameView(v) BY <2>1, <2>2, CalmPage
  <2> QED BY <1>3, <2>3, CalmStill
<1>4. ASSUME NEW m \in DOMAIN uploads, Store(m) PROVE Calm BY <1>1, <1>4 DEF Store, ghosts
<1>5. ASSUME NEW m \in DOMAIN uploads, Refuse(m) PROVE Calm
  <2>1. Still BY <1>5 DEF Refuse, ghosts
  <2>2. page' = page \/ FailMove(uploads[m].by, m) BY <1>5, TypesRefuse
  <2> QED BY <1>1, <1>3, <2>1, <2>2
<1>6. ASSUME NEW s \in DOMAIN page, NEW m \in DOMAIN page[s].shown, LoseAnswer(s, m) PROVE Calm
  <2>1. Still BY <1>6 DEF LoseAnswer, ghosts
  <2>2. FailMove(s, m) BY <1>6, TypesLoseAnswer
  <2> QED BY <1>3, <2>1, <2>2
<1>7. CASE UNCHANGED vars BY <1>1, <1>7 DEF vars
<1> QED BY <1>2, <1>4, <1>5, <1>6, <1>7

(* The steps of presence are those that are not calm.                      *)
LEMMA PresenceSteps ==
  ASSUME Types, [Next]_vars
  PROVE  \/ Calm \/ Restart \/ Fade
         \/ \E s \in Socket : Connect(s) \/ Join(s) \/ Snapshot(s) \/ Leave(s) \/ Discard(s) \/ Broadcast(s) \/ Fanout(s)
         \/ \E s \in Socket : Toggle(s) /\ Tombstone(s)
         \/ \E s \in DOMAIN page : CloseSocket(s)
         \/ \E m \in DOMAIN uploads : Announce(m)
<1>1. ASSUME NEW s \in Socket, ConsumerStep(s)
      PROVE  \/ Calm \/ Connect(s) \/ Join(s) \/ Snapshot(s) \/ Leave(s) \/ Discard(s) \/ Broadcast(s) \/ Fanout(s)
             \/ (Toggle(s) /\ Tombstone(s))
  BY <1>1, CalmConsumer DEF ConsumerStep
<1>2. ASSUME NEW s \in DOMAIN page, PageStep(s) PROVE Calm \/ CloseSocket(s) BY <1>2, CalmPageStep
<1>3. CASE UNCHANGED vars BY <1>3, CalmRest
<1>4. ASSUME NEW s \in DOMAIN page, SignTimeout(s) PROVE Calm BY <1>4, CalmRest
<1>5. CASE UploadStep BY <1>5, CalmRest DEF UploadStep
<1> QED BY <1>1, <1>2, <1>3, <1>4, <1>5 DEF Next

LEMMA CalmPresence ==
  ASSUME Types, Presence, Calm
  PROVE  Presence'
<1>1. UNCHANGED <<st, hash, faded, chan>> /\ DOMAIN page' = DOMAIN page /\ DOMAIN page \subseteq Socket
  BY DEF Calm, Types, PageTypes
<1>2. \A v \in Socket : SameStage(hand[v], hand'[v]) BY DEF Calm
<1>3. \A v \in DOMAIN page : page'[v].members = page[v].members /\ page'[v].signs \subseteq page[v].signs
  BY DEF Calm, SameView
<1>4. HashHeld'
  <2>1. \A v \in Socket : Holds(v) => Holds(v)' BY <1>1, <1>2 DEF Holds, SameStage
  <2> QED BY <1>1, <2>1 DEF Presence, HashHeld
<1>5. LeaveKnown' BY <1>1 DEF Presence, LeaveKnown
<1>6. \A u \in Socket : Only(u)' <=> Only(u) BY <1>1 DEF Only
<1>7. OnlyHere'
  <2>1. ASSUME NEW u \in Socket, HereIn(u) PROVE HereIn(u)' BY <1>1, <1>2, <2>1 DEF HereIn, SameStage
  <2>2. ASSUME NEW u \in Socket, NEW s \in DOMAIN page, HereOn(u, s) PROVE HereOn(u, s)'
    <3>1. s \in Socket BY <1>1
    <3> QED BY <1>1, <1>2, <1>3, <2>2, <3>1 DEF HereOn, SameStage
  <2> QED BY <1>1, <1>6, <2>1, <2>2 DEF Presence, OnlyHere
<1>8. OnlyGone'
  <2>1. \A u \in Socket : Away(u)' => Away(u) BY <1>1, <1>2 DEF Away, SameStage
  <2>2. ASSUME NEW u \in Socket, NEW s \in DOMAIN page, ~Ends(Who[u], page[s].members, "join", "leave", Who[u], chan[s])
        PROVE  ~Ends(Who[u], page'[s].members, "join", "leave", Who[u], chan'[s])
    BY <1>1, <1>3, <2>2
  <2> QED BY <1>1, <1>6, <2>1, <2>2 DEF Presence, OnlyGone
<1>9. ASSUME NEW type, NEW off, SignHeld(type, off) PROVE SignHeld(type, off)'
  <2>1. \A v \in Socket : Signals(type, v) => Signals(type, v)' BY <1>1, <1>2 DEF Signals, Stopped, SameStage
  <2>2. ASSUME NEW s \in DOMAIN page, NEW i, Ends(<<type, i>>, page'[s].signs, type, off, i, chan[s])
        PROVE  Ends(<<type, i>>, page[s].signs, type, off, i, chan[s])
    BY <1>3, <2>2, EndsLess
  <2> QED BY <1>1, <1>9, <2>1, <2>2 DEF SignHeld
<1>10. SignsHeld' BY <1>9 DEF Presence, SignsHeld
<1> QED BY <1>4, <1>5, <1>7, <1>8, <1>10 DEF Presence

(* The steps that are not calm, one by one.                                *)
LEMMA PresenceConnect ==
  ASSUME Types, Presence, NEW s \in Socket, Connect(s)
  PROVE  Presence'
<1>1. /\ st[s] = "new" /\ UNCHANGED <<hash, faded>> /\ st' = [st EXCEPT ![s] = "open"]
      /\ chan' = Put(chan, s, <<>>) /\ page' = Put(page, s, NewPage) /\ hand' = [hand EXCEPT ![s] = Joining1(Who[s])]
  BY DEF Connect, ghosts, Joining1
<1>2. /\ st'[s] = "open" /\ hand'[s] = Joining1(Who[s])
      /\ \A v \in Socket \ {s} : st'[v] = st[v] /\ hand'[v] = hand[v]
  BY <1>1 DEF Types, HandTypes
<1>3. /\ DOMAIN chan' = DOMAIN chan \cup {s} /\ chan'[s] = <<>> /\ \A v \in DOMAIN chan \ {s} : chan'[v] = chan[v]
      /\ DOMAIN page' = DOMAIN page \cup {s} /\ page'[s] = NewPage /\ \A v \in DOMAIN page \ {s} : page'[v] = page[v]
      /\ DOMAIN page \subseteq DOMAIN chan /\ DOMAIN page \subseteq Socket /\ s \notin DOMAIN chan
  BY <1>1 DEF Put, Types, ChanTypes, PageTypes
<1>4. NewPage.members = {} /\ NewPage.signs = {} BY DEF NewPage
<1>5. Before(hand'[s]) /\ Unsaid(hand'[s]) /\ Unseen(hand'[s])
  <2>1. Before(Joining1(Who[s])) /\ Unsaid(Joining1(Who[s])) /\ Unseen(Joining1(Who[s])) BY Stages, StageOrder
  <2> QED BY <1>2, <2>1
<1>6. \A u \in Socket \ {s} : Only(u)' => Only(u)
  BY <1>1, <1>2 DEF Only
<1>7. HashHeld'
  <2>1. \A v \in Socket : Holds(v) => Holds(v)' BY <1>1, <1>2 DEF Holds
  <2> QED BY <1>1, <2>1 DEF Presence, HashHeld
<1>8. LeaveKnown'
  <2>1. \A v \in Socket : st[v] \notin {"new", "open"} => st'[v] \notin {"new", "open"} BY <1>1, <1>2
  <2>2. Range(chan'[s]) = {} BY <1>3, RangeEmpty
  <2> QED BY <1>3, <2>1, <2>2 DEF Presence, LeaveKnown
<1>9. OnlyHere'
  <2>1. HereIn(s)' /\ \A v \in DOMAIN page' : HereOn(s, v)' BY <1>5 DEF HereIn, HereOn
  <2>2. ASSUME NEW u \in Socket \ {s}, Only(u)', st'[u] = "open", Who[u] \notin faded'
        PROVE  HereIn(u)' /\ \A v \in DOMAIN page' : HereOn(u, v)'
    <3>1. HereIn(u) /\ \A v \in DOMAIN page : HereOn(u, v) BY <1>1, <1>2, <1>6, <2>2 DEF Presence, OnlyHere
    <3>2. HereOn(u, s)' BY <1>5 DEF HereOn
    <3>3. \A v \in DOMAIN page \ {s} : HereOn(u, v)' BY <1>2, <1>3, <3>1 DEF HereOn
    <3> QED BY <1>1, <1>2, <1>3, <3>1, <3>2, <3>3 DEF HereIn
  <2> QED BY <2>1, <2>2 DEF OnlyHere
<1>10. OnlyGone'
  <2>1. ASSUME NEW u \in Socket, Only(u)', Away(u)', NEW v \in DOMAIN page'
        PROVE  ~Ends(Who[u], page'[v].members, "join", "leave", Who[u], chan'[v])
    <3>1. u # s BY <1>2, <2>1 DEF Away
    <3>2. Only(u) /\ Away(u) BY <1>2, <1>6, <2>1, <3>1 DEF Away
    <3>3. CASE v = s
      <4>1. ~Ends(Who[u], {}, "join", "leave", Who[u], <<>>) BY EndsNone
      <4>2. page'[v].members = {} /\ chan'[v] = <<>> BY <1>3, <1>4, <3>3
      <4> QED BY <4>1, <4>2
    <3>4. CASE v # s
      <4>1. v \in DOMAIN page /\ page'[v] = page[v] /\ chan'[v] = chan[v] BY <1>3, <2>1, <3>4
      <4> QED BY <3>2, <4>1 DEF Presence, OnlyGone
    <3> QED BY <3>3, <3>4
  <2> QED BY <2>1 DEF OnlyGone
<1>11. ASSUME NEW type, NEW off, SignHeld(type, off) PROVE SignHeld(type, off)'
  <2>1. \A v \in Socket : Signals(type, v) => Signals(type, v)' BY <1>1, <1>2 DEF Signals
  <2>2. ASSUME NEW v \in DOMAIN page', NEW i \in Person \ {Who[v]},
               Ends(<<type, i>>, page'[v].signs, type, off, i, chan'[v])
        PROVE  \E w \in Socket : Who[w] = i /\ Signals(type, w)
    <3>1. v # s
      <4>1. ~Ends(<<type, i>>, {}, type, off, i, <<>>) BY EndsNone
      <4>2. page'[s].signs = {} /\ chan'[s] = <<>> BY <1>3, <1>4
      <4> QED BY <2>2, <4>1, <4>2
    <3>2. v \in DOMAIN page /\ page'[v] = page[v] /\ chan'[v] = chan[v] BY <1>3, <2>2, <3>1
    <3> QED BY <1>11, <2>2, <3>2 DEF SignHeld
  <2> QED BY <2>1, <2>2 DEF SignHeld
<1>12. SignsHeld' BY <1>11 DEF Presence, SignsHeld
<1> QED BY <1>7, <1>8, <1>9, <1>10, <1>12 DEF Presence

LEMMA PresenceJoin ==
  ASSUME Types, Presence, NEW s \in Socket, Join(s)
  PROVE  Presence'
<1>1. /\ hand[s] = Joining2(Who[s]) /\ Move(s, Joining3(Who[s]), inbox[s]) /\ st[s] \in {"open", "closing"}
      /\ hash' = hash \cup {Who[s]} /\ UNCHANGED <<st, faded, chan, page>>
  BY TypesJoin DEF JoinMove, Join, ghosts
<1>2. hand'[s] = Joining3(Who[s]) /\ \A v \in Socket \ {s} : hand'[v] = hand[v] BY <1>1, MoveParts DEF Types
<1>3. /\ ~Departing(hand[s]) /\ ~Departing(hand'[s]) /\ Unsaid(hand'[s]) /\ Unseen(hand'[s])
  <2>1. ~Departing(Joining2(Who[s])) /\ ~Departing(Joining3(Who[s])) /\ Unsaid(Joining3(Who[s])) BY Stages
  <2> QED BY <1>1, <1>2, <2>1, StageOrder
<1>4. ~Left(hand'[s]) /\ ~Parted(hand'[s]) /\ ~Quit(hand'[s]) BY <1>3, StageOrder
<1>5. HashHeld'
  <2>1. \A v \in Socket : Holds(v) => Holds(v)' BY <1>1, <1>2, <1>4 DEF Holds
  <2>2. Holds(s)' BY <1>1, <1>4 DEF Holds
  <2> QED BY <1>1, <2>1, <2>2 DEF Presence, HashHeld
<1>6. LeaveKnown' BY <1>1 DEF Presence, LeaveKnown
<1>7. \A u \in Socket : Only(u)' <=> Only(u) BY <1>1 DEF Only
<1>8. OnlyHere'
  <2>1. ASSUME NEW u \in Socket, HereIn(u) PROVE HereIn(u)' BY <1>1, <1>2, <2>1 DEF HereIn
  <2>2. ASSUME NEW u \in Socket, NEW v \in DOMAIN page, HereOn(u, v) PROVE HereOn(u, v)'
    <3>1. v \in Socket BY DEF Types, PageTypes
    <3> QED BY <1>1, <1>2, <1>3, <2>2, <3>1 DEF HereOn
  <2> QED BY <1>1, <1>7, <2>1, <2>2 DEF Presence, OnlyHere
<1>9. OnlyGone'
  <2>1. \A u \in Socket : Away(u)' => Away(u) BY <1>1, <1>2, <1>4 DEF Away
  <2> QED BY <1>1, <1>7, <2>1 DEF Presence, OnlyGone
<1>10. ASSUME NEW type, NEW off, SignHeld(type, off) PROVE SignHeld(type, off)'
  <2>1. \A v \in Socket : Signals(type, v) => Signals(type, v)' BY <1>1, <1>2, <1>3, <1>4 DEF Signals, Stopped
  <2> QED BY <1>1, <1>10, <2>1 DEF SignHeld
<1>11. SignsHeld' BY <1>10 DEF Presence, SignsHeld
<1> QED BY <1>5, <1>6, <1>8, <1>9, <1>11 DEF Presence

LEMMA PresenceLeave ==
  ASSUME Types, Presence, NEW s \in Socket, Leave(s)
  PROVE  Presence'
<1>1. /\ hand[s] = Leaving3(Who[s]) /\ Move(s, Leaving4(Who[s]), inbox[s]) /\ st[s] = "closing"
      /\ hash' = hash \ {Who[s]} /\ UNCHANGED <<st, faded, chan, page>>
  BY TypesLeave DEF LeaveMove, Leave, ghosts
<1>2. hand'[s] = Leaving4(Who[s]) /\ \A v \in Socket \ {s} : hand'[v] = hand[v] BY <1>1, MoveParts DEF Types
<1>3. /\ Quit(hand[s]) /\ Quit(hand'[s]) /\ ~Parted(hand'[s]) /\ Departing(hand[s]) /\ ~Unseen(hand[s])
  <2>1. Quit(Leaving3(Who[s])) /\ Left(Leaving4(Who[s])) /\ ~Parted(Leaving4(Who[s])) BY Stages
  <2> QED BY <1>1, <1>2, <2>1, StageOrder
<1>5. HashHeld'
  <2>1. ASSUME NEW i \in hash, i # Who[s] PROVE \E v \in Socket : Who[v] = i /\ Holds(v)'
    <3>1. PICK v \in Socket : Who[v] = i /\ Holds(v) BY DEF Presence, HashHeld
    <3> QED BY <1>1, <1>2, <2>1, <3>1 DEF Holds
  <2> QED BY <1>1, <2>1 DEF HashHeld
<1>6. LeaveKnown' BY <1>1 DEF Presence, LeaveKnown
<1>7. \A u \in Socket : Only(u)' <=> Only(u) BY <1>1 DEF Only
<1>8. OnlyHere'
  <2>1. ASSUME NEW u \in Socket, Only(u), st[u] = "open", HereIn(u) PROVE HereIn(u)'
    <3>1. u # s /\ Who[u] # Who[s] BY <1>1, <2>1 DEF Only
    <3> QED BY <1>1, <1>2, <2>1, <3>1 DEF HereIn
  <2>2. ASSUME NEW u \in Socket, NEW v \in DOMAIN page, HereOn(u, v) PROVE HereOn(u, v)'
    <3>1. v \in Socket BY DEF Types, PageTypes
    <3>2. ~Unsaid(hand[s]) BY <1>3, StageOrder
    <3> QED BY <1>1, <1>2, <1>3, <2>2, <3>1, <3>2 DEF HereOn
  <2> QED BY <1>1, <1>7, <2>1, <2>2 DEF Presence, OnlyHere
<1>9. OnlyGone'
  <2>1. \A u \in Socket : Away(u)' => Away(u) BY <1>1, <1>2, <1>3 DEF Away
  <2> QED BY <1>1, <1>7, <2>1 DEF Presence, OnlyGone
<1>10. ASSUME NEW type, NEW off, SignHeld(type, off) PROVE SignHeld(type, off)'
  <2>1. \A v \in Socket : Signals(type, v) => Signals(type, v)' BY <1>1, <1>2, <1>3 DEF Signals, Stopped
  <2> QED BY <1>1, <1>10, <2>1 DEF SignHeld
<1>11. SignsHeld' BY <1>10 DEF Presence, SignsHeld
<1> QED BY <1>5, <1>6, <1>8, <1>9, <1>11 DEF Presence

LEMMA PresenceSnapshot ==
  ASSUME Types, Presence, NEW s \in Socket, Snapshot(s)
  PROVE  Presence'
<1>1. /\ hand[s] = Joining4(Who[s]) /\ Move(s, <<>>, inbox[s]) /\ st[s] \in {"open", "closing"}
      /\ UNCHANGED <<st, hash, faded, chan>>
  BY TypesSnapshot DEF SnapshotMove, Snapshot, ghosts
<1>2. hand'[s] = <<>> /\ \A v \in Socket \ {s} : hand'[v] = hand[v] BY <1>1, MoveParts DEF Types
<1>3. /\ ~Departing(hand[s]) /\ ~Departing(hand'[s]) /\ ~Unsaid(hand[s])
  <2>1. ~Departing(Joining4(Who[s])) /\ ~Unsaid(Joining4(Who[s])) /\ ~Departing(<<>>) BY Stages DEF Bare
  <2> QED BY <1>1, <1>2, <2>1
<1>4. ~Left(hand'[s]) /\ ~Parted(hand'[s]) /\ ~Quit(hand'[s]) /\ ~Before(hand[s]) BY <1>3, StageOrder
<1>5. /\ DOMAIN page' = DOMAIN page /\ \A v \in DOMAIN page \ {s} : page'[v] = page[v]
      /\ s \in DOMAIN page => page'[s].members = hash \cup {Who[s]} /\ page'[s].signs = page[s].signs
  <2>1. CASE s \notin DOMAIN page
    <3>1. page' = page BY <2>1 DEF Snapshot
    <3> QED BY <2>1, <3>1
  <2>2. CASE s \in DOMAIN page
    <3> DEFINE q == [page[s] EXCEPT !.members = hash \cup {Who[s]}]
    <3>1. page' = [page EXCEPT ![s] = q] BY <2>2 DEF Snapshot
    <3>2. page[s] \in Pages(drawn) BY <2>2, PageAt DEF Types
    <3>3. q.members = hash \cup {Who[s]} /\ q.signs = page[s].signs BY <3>2 DEF Pages
    <3> HIDE DEF q
    <3>4. DOMAIN page' = DOMAIN page /\ page'[s] = q /\ \A v \in DOMAIN page \ {s} : page'[v] = page[v]
      BY <2>2, <3>1, PageParts DEF Types
    <3> QED BY <3>3, <3>4
  <2> QED BY <2>1, <2>2
<1>6. HashHeld'
  <2>1. \A v \in Socket : Holds(v) => Holds(v)' BY <1>1, <1>2, <1>4 DEF Holds
  <2> QED BY <1>1, <2>1 DEF Presence, HashHeld
<1>7. LeaveKnown' BY <1>1 DEF Presence, LeaveKnown
<1>8. \A u \in Socket : Only(u)' <=> Only(u) BY <1>1 DEF Only
<1>9. OnlyHere'
  <2>1. ASSUME NEW u \in Socket, HereIn(u) PROVE HereIn(u)' BY <1>1, <1>2, <1>4, <2>1 DEF HereIn
  <2>2. ASSUME NEW u \in Socket, NEW v \in DOMAIN page, v # s, HereOn(u, v) PROVE HereOn(u, v)'
    <3>1. v \in Socket BY DEF Types, PageTypes
    <3> QED BY <1>1, <1>2, <1>3, <1>5, <2>2, <3>1 DEF HereOn
  <2>3. ASSUME NEW u \in Socket, HereIn(u), s \in DOMAIN page PROVE HereOn(u, s)'
    <3>1. CASE u = s BY <1>5, <2>3, <3>1 DEF HereOn
    <3>2. CASE u # s /\ Before(hand[u])
      <4>1. Unsaid(hand'[u]) BY <1>2, <3>2, StageOrder
      <4> QED BY <4>1 DEF HereOn
    <3>3. CASE Who[u] \in hash BY <1>5, <2>3, <3>3 DEF HereOn
    <3> QED BY <2>3, <3>1, <3>2, <3>3 DEF HereIn
  <2> QED BY <1>1, <1>5, <1>8, <2>1, <2>2, <2>3 DEF Presence, OnlyHere
<1>10. OnlyGone'
  <2>1. ASSUME NEW u \in Socket, Only(u), Away(u)', NEW v \in DOMAIN page
        PROVE  ~Ends(Who[u], page'[v].members, "join", "leave", Who[u], chan[v])
    <3>1. u # s /\ Away(u) BY <1>1, <1>2, <1>4, <2>1 DEF Away
    <3>2. Who[u] # Who[s] BY <1>1, <2>1, <3>1 DEF Only
    <3>3. ~Ends(Who[u], page[v].members, "join", "leave", Who[u], chan[v]) BY <2>1, <3>1 DEF Presence, OnlyGone
    <3>4. Who[u] \notin hash
      <4>1. ASSUME NEW w \in Socket, Who[w] = Who[u], Holds(w) PROVE FALSE
        <5>1. st[w] # "new" BY <4>1 DEF Holds
        <5>2. w = u BY <2>1, <4>1, <5>1 DEF Only
        <5>3. Parted(hand[u]) => Left(hand[u]) BY StageOrder
        <5> QED BY <3>1, <4>1, <5>2, <5>3 DEF Holds, Away
      <4> QED BY <4>1 DEF Presence, HashHeld
    <3>5. v = s => Who[u] \notin page'[v].members BY <1>5, <2>1, <3>2, <3>4
    <3>6. Who[u] \in page'[v].members => Who[u] \in page[v].members BY <1>5, <2>1, <3>5
    <3> QED BY <3>3, <3>6, EndsLess
  <2> QED BY <1>1, <1>5, <1>8, <2>1 DEF OnlyGone
<1>11. ASSUME NEW type, NEW off, SignHeld(type, off) PROVE SignHeld(type, off)'
  <2>1. \A v \in Socket : Signals(type, v) => Signals(type, v)' BY <1>1, <1>2, <1>3, <1>4 DEF Signals, Stopped
  <2>2. \A v \in DOMAIN page : page'[v].signs = page[v].signs BY <1>5
  <2> QED BY <1>1, <1>5, <1>11, <2>1, <2>2 DEF SignHeld
<1>12. SignsHeld' BY <1>11 DEF Presence, SignsHeld
<1> QED BY <1>6, <1>7, <1>9, <1>10, <1>12 DEF Presence

LEMMA PresenceDiscard ==
  ASSUME Types, Presence, NEW s \in Socket, Discard(s)
  PROVE  Presence'
<1>1. /\ hand[s] = Leaving5(Who[s]) /\ Move(s, <<>>, inbox[s]) /\ st[s] = "closing" /\ st' = [st EXCEPT ![s] = "gone"]
      /\ UNCHANGED <<hash, faded, page>> /\ chan' = Restrict(chan, DOMAIN chan \ {s})
  BY TypesDiscard DEF DiscardMove, Discard, ghosts
<1>2. \A v \in Socket \ {s} : hand'[v] = hand[v] /\ st'[v] = st[v] BY <1>1, MoveParts DEF Types, HandTypes
<1>3. st'[s] = "gone" BY <1>1 DEF Types, HandTypes
<1>4. Parted(hand[s]) /\ Left(hand[s]) /\ Quit(hand[s]) /\ Departing(hand[s])
  <2>1. Parted(Leaving5(Who[s])) BY Stages
  <2> QED BY <1>1, <2>1, StageOrder
<1>5. /\ DOMAIN chan' \subseteq DOMAIN chan /\ \A v \in DOMAIN chan' : chan'[v] = chan[v]
      /\ DOMAIN page \subseteq Socket \ {s} /\ DOMAIN page \subseteq DOMAIN chan'
  BY <1>1 DEF Restrict, Types, ChanTypes, PageTypes
<1>6. HashHeld'
  <2>1. \A v \in Socket : Holds(v) => Holds(v)' BY <1>1, <1>2, <1>4 DEF Holds
  <2> QED BY <1>1, <2>1 DEF Presence, HashHeld
<1>7. LeaveKnown'
  <2>1. \A v \in Socket : st[v] \notin {"new", "open"} => st'[v] \notin {"new", "open"} BY <1>2, <1>3
  <2> QED BY <1>5, <2>1 DEF Presence, LeaveKnown
<1>8. \A u \in Socket : Only(u)' => Only(u) BY <1>1, <1>2, <1>3 DEF Only
<1>9. OnlyHere'
  <2>1. ASSUME NEW u \in Socket, Only(u)', st'[u] = "open", Who[u] \notin faded
        PROVE  HereIn(u)' /\ \A v \in DOMAIN page : HereOn(u, v)'
    <3>1. u # s /\ hand'[u] = hand[u] /\ st[u] = "open" BY <1>2, <1>3, <2>1
    <3>2. HereIn(u) /\ \A v \in DOMAIN page : HereOn(u, v) BY <1>8, <2>1, <3>1 DEF Presence, OnlyHere
    <3>3. \A v \in DOMAIN page : chan'[v] = chan[v] /\ hand'[v] = hand[v] BY <1>2, <1>5
    <3> QED BY <1>1, <3>1, <3>2, <3>3 DEF HereIn, HereOn
  <2> QED BY <1>1, <2>1 DEF OnlyHere
<1>10. OnlyGone'
  <2>1. \A u \in Socket : Away(u)' => Away(u) BY <1>1, <1>2, <1>4 DEF Away
  <2>2. \A v \in DOMAIN page : chan'[v] = chan[v] BY <1>5
  <2> QED BY <1>1, <1>8, <2>1, <2>2 DEF Presence, OnlyGone
<1>11. ASSUME NEW type, NEW off, SignHeld(type, off) PROVE SignHeld(type, off)'
  <2>1. \A v \in Socket : Signals(type, v) => Signals(type, v)' BY <1>1, <1>2, <1>4 DEF Signals, Stopped
  <2>2. \A v \in DOMAIN page : chan'[v] = chan[v] BY <1>5
  <2> QED BY <1>1, <1>11, <2>1, <2>2 DEF SignHeld
<1>12. SignsHeld' BY <1>11 DEF Presence, SignsHeld
<1> QED BY <1>6, <1>7, <1>9, <1>10, <1>12 DEF Presence

(* A consumer that dies of an exception, and all of them in a restart.     *)
LEMMA PresenceCrash ==
  ASSUME Types, Presence, NEW S \in SUBSET Socket, Crashed(S), S \subseteq Living, UNCHANGED <<hash, faded>>
  PROVE  Presence'
<1>1. /\ \A v \in S : st'[v] = "crashed" /\ st[v] # "new"
      /\ \A v \in Socket \ S : st'[v] = st[v] /\ hand'[v] = hand[v]
      /\ DOMAIN chan' \subseteq DOMAIN chan /\ \A v \in DOMAIN chan' : chan'[v] = chan[v]
      /\ DOMAIN page' = DOMAIN page \ S /\ DOMAIN page' \subseteq Socket \ S /\ DOMAIN page' \subseteq DOMAIN chan'
      /\ \A v \in DOMAIN page' : page'[v] = page[v]
  BY DEF Crashed, Living, Types, ChanTypes, PageTypes
<1>2. HashHeld'
  <2>1. \A v \in Socket : Holds(v) => Holds(v)' BY <1>1 DEF Holds
  <2> QED BY <2>1 DEF Presence, HashHeld
<1>3. LeaveKnown'
  <2>1. \A v \in Socket : st[v] \notin {"new", "open"} => st'[v] \notin {"new", "open"} BY <1>1
  <2> QED BY <1>1, <2>1 DEF Presence, LeaveKnown
<1>4. \A u \in Socket : Only(u)' => Only(u) BY <1>1 DEF Only
<1>5. OnlyHere'
  <2>1. ASSUME NEW u \in Socket, Only(u)', st'[u] = "open", Who[u] \notin faded
        PROVE  HereIn(u)' /\ \A v \in DOMAIN page' : HereOn(u, v)'
    <3>1. u \notin S /\ hand'[u] = hand[u] /\ st[u] = "open" BY <1>1, <2>1
    <3>2. HereIn(u) /\ \A v \in DOMAIN page : HereOn(u, v) BY <1>4, <2>1, <3>1 DEF Presence, OnlyHere
    <3>3. \A v \in DOMAIN page' : v \in DOMAIN page /\ page'[v] = page[v] /\ chan'[v] = chan[v] /\ hand'[v] = hand[v] BY <1>1
    <3> QED BY <3>1, <3>2, <3>3 DEF HereIn, HereOn
  <2> QED BY <2>1 DEF OnlyHere
<1>6. OnlyGone'
  <2>1. \A u \in Socket : Away(u)' => Away(u) BY <1>1 DEF Away
  <2>2. \A v \in DOMAIN page' : v \in DOMAIN page /\ page'[v] = page[v] /\ chan'[v] = chan[v] BY <1>1
  <2> QED BY <1>4, <2>1, <2>2 DEF Presence, OnlyGone
<1>7. ASSUME NEW type, NEW off, SignHeld(type, off) PROVE SignHeld(type, off)'
  <2>1. \A v \in Socket : Signals(type, v) => Signals(type, v)' BY <1>1 DEF Signals
  <2>2. \A v \in DOMAIN page' : v \in DOMAIN page /\ page'[v] = page[v] /\ chan'[v] = chan[v] BY <1>1
  <2> QED BY <1>7, <2>1, <2>2 DEF SignHeld
<1>8. SignsHeld' BY <1>7 DEF Presence, SignsHeld
<1> QED BY <1>2, <1>3, <1>5, <1>6, <1>8 DEF Presence

LEMMA PresenceClose ==
  ASSUME Types, Presence, NEW s \in DOMAIN page, CloseSocket(s)
  PROVE  Presence'
<1>1. /\ s \in Socket /\ st[s] = "open" /\ st' = [st EXCEPT ![s] = "closing"] /\ UNCHANGED <<hash, faded, hand, chan>>
      /\ DOMAIN page' = DOMAIN page \ {s} /\ \A v \in DOMAIN page' : page'[v] = page[v]
  BY TypesClose DEF CloseSocket, ghosts
<1>2. st'[s] = "closing" /\ \A v \in Socket \ {s} : st'[v] = st[v] BY <1>1 DEF Types, HandTypes
<1>3. ~Departing(hand[s]) /\ ~Left(hand[s]) /\ ~Parted(hand[s]) /\ ~Quit(hand[s])
  <2>1. Fine(drawn, s, st[s], hand[s], inbox[s]) BY <1>1 DEF Types, HandTypes
  <2> QED BY <1>1, <2>1, StageOrder DEF Fine
<1>4. HashHeld'
  <2>1. \A v \in Socket : Holds(v) => Holds(v)' BY <1>1, <1>2, <1>3 DEF Holds
  <2> QED BY <1>1, <2>1 DEF Presence, HashHeld
<1>5. LeaveKnown'
  <2>1. \A v \in Socket : st[v] \notin {"new", "open"} => st'[v] \notin {"new", "open"} BY <1>2
  <2> QED BY <1>1, <2>1 DEF Presence, LeaveKnown
<1>6. \A u \in Socket : Only(u)' => Only(u) BY <1>1, <1>2 DEF Only
<1>7. OnlyHere'
  <2>1. \A u \in Socket : st'[u] = "open" => st[u] = "open" BY <1>2
  <2>2. ASSUME NEW u \in Socket, HereIn(u) PROVE HereIn(u)' BY <1>1, <2>2 DEF HereIn
  <2>3. ASSUME NEW u \in Socket, NEW v \in DOMAIN page', HereOn(u, v) PROVE HereOn(u, v)' BY <1>1, <2>3 DEF HereOn
  <2> QED BY <1>1, <1>6, <2>1, <2>2, <2>3 DEF Presence, OnlyHere
<1>8. OnlyGone'
  <2>1. \A u \in Socket : Away(u)' => Away(u) BY <1>1, <1>2, <1>3 DEF Away
  <2> QED BY <1>1, <1>6, <2>1 DEF Presence, OnlyGone
<1>9. ASSUME NEW type, NEW off, SignHeld(type, off) PROVE SignHeld(type, off)'
  <2>1. \A v \in Socket : Signals(type, v) => Signals(type, v)' BY <1>1, <1>2, <1>3 DEF Signals, Stopped
  <2> QED BY <1>1, <1>9, <2>1 DEF SignHeld
<1>10. SignsHeld' BY <1>9 DEF Presence, SignsHeld
<1> QED BY <1>4, <1>5, <1>7, <1>8, <1>10 DEF Presence

(* An event that goes to every channel of the group.                       *)
LEMMA SentEach ==
  ASSUME Types, NEW ev \in Event, chan' = Everyone(ev)
  PROVE  /\ DOMAIN chan' = DOMAIN chan
         /\ \A v \in DOMAIN chan : chan[v] \in Seq(Event) /\ chan'[v] = Append(chan[v], ev)
                                /\ Range(chan'[v]) = Range(chan[v]) \cup {ev}
<1>1. \A v \in DOMAIN chan : chan[v] \in Seq(Event) 
  <2>1. \A v \in DOMAIN chan : Queue(drawn, chan[v]) BY DEF Types, ChanTypes
  <2> QED BY <2>1 DEF Queue
<1>2. DOMAIN chan' = DOMAIN chan /\ \A v \in DOMAIN chan : chan'[v] = Append(chan[v], ev) BY DEF Everyone
<1>3. ASSUME NEW v \in DOMAIN chan PROVE Range(chan'[v]) = Range(chan[v]) \cup {ev}
  <2>1. chan[v] \in Seq(Event) /\ chan'[v] = Append(chan[v], ev) BY <1>1, <1>2
  <2>2. Range(Append(chan[v], ev)) = Range(chan[v]) \cup {ev} BY <2>1, RangeAppend
  <2> QED BY <2>1, <2>2
<1> QED BY <1>1, <1>2, <1>3

LEMMA PresenceAnnounce ==
  ASSUME Types, Presence, NEW m \in DOMAIN uploads, Announce(m)
  PROVE  Presence'
<1>1. UNCHANGED <<hash, faded, st, hand, page>> /\ DOMAIN page \subseteq DOMAIN chan
  BY DEF Announce, Types, ChanTypes, PageTypes
<1>2. CASE chan' = chan
  <2>1. DOMAIN page' = DOMAIN page /\ \A v \in DOMAIN page : SameView(v) BY <1>1 DEF SameView
  <2>2. Calm BY <1>1, <1>2, <2>1, CalmStill
  <2> QED BY <2>2, CalmPresence
<1>3. CASE chan' = Everyone(VoiceEvent(m))
  <2>1. PICK ev \in Event : ev.type = "message" /\ chan' = Everyone(ev)
    <3>1. VoiceEvent(m) \in Event /\ VoiceEvent(m).type = "message" BY TypesAnnounce DEF EventIn
    <3> QED BY <1>3, <3>1
  <2>2. /\ DOMAIN chan' = DOMAIN chan
        /\ \A v \in DOMAIN chan : chan[v] \in Seq(Event) /\ chan'[v] = Append(chan[v], ev)
                               /\ Range(chan'[v]) = Range(chan[v]) \cup {ev}
    BY <2>1, SentEach
  <2>3. HashHeld' BY <1>1 DEF Presence, HashHeld, Holds
  <2>4. LeaveKnown' BY <1>1, <2>1, <2>2 DEF Presence, LeaveKnown
  <2>5. \A u \in Socket : Only(u)' <=> Only(u) BY <1>1 DEF Only
  <2>6. OnlyHere'
    <3>1. ASSUME NEW u \in Socket, HereIn(u) PROVE HereIn(u)' BY <1>1, <3>1 DEF HereIn
    <3>2. ASSUME NEW u \in Socket, NEW v \in DOMAIN page, HereOn(u, v) PROVE HereOn(u, v)'
      <4>1. v \in DOMAIN chan BY <1>1
      <4>2. chan[v] \in Seq(Event) /\ chan'[v] = Append(chan[v], ev) BY <2>2, <4>1
      <4>3. Says(chan[v], "join", Who[u]) => Says(Append(chan[v], ev), "join", Who[u]) BY <4>2, SaysAppend
      <4> QED BY <1>1, <3>2, <4>2, <4>3 DEF HereOn
    <3> QED BY <1>1, <2>5, <3>1, <3>2 DEF Presence, OnlyHere
  <2>7. ASSUME NEW v \in DOMAIN page, NEW x, NEW S, NEW on, NEW off, on # off, on # "message", NEW i,
               Ends(x, S, on, off, i, chan'[v])
        PROVE  Ends(x, S, on, off, i, chan[v])
    <3>1. v \in DOMAIN chan BY <1>1
    <3>2. chan[v] \in Seq(Event) /\ Ends(x, S, on, off, i, Append(chan[v], ev)) BY <2>2, <2>7, <3>1
    <3> QED BY <2>1, <2>7, <3>2, EndsAppend
  <2>8. OnlyGone' BY <1>1, <2>5, <2>7 DEF Presence, OnlyGone, Away
  <2>9. ASSUME NEW type, NEW off, type # off, type # "message", SignHeld(type, off) PROVE SignHeld(type, off)'
    BY <1>1, <2>7, <2>9 DEF SignHeld, Signals
  <2>10. SignsHeld' BY <2>9 DEF Presence, SignsHeld
  <2> QED BY <2>3, <2>4, <2>6, <2>8, <2>10 DEF Presence
<1> QED BY <1>2, <1>3, TypesAnnounce

(* What a broadcast means: where the consumer is, before and after it.     *)
CastStage(s, ev, g, h) ==
  /\ (Left(h) <=> Left(g)) /\ (Before(h) <=> Before(g)) /\ (Unseen(h) <=> Unseen(g))
  /\ Unsaid(g) => Unsaid(h) \/ ev.type = "join"
  /\ ~Parted(g)
  /\ Parted(h) => ev.type = "leave"
  /\ ev.type = "leave" => st[s] = "closing"
  /\ ev.type \in Kinds => ~Departing(h)
  /\ Departing(h) /\ ~Departing(g) => ev.type = "typing_stop"
  /\ Quit(h) /\ ~Quit(g) => ev.type = "recording_stop"

LEMMA BareCast ==
  ASSUME NEW s, NEW ev, NEW g, NEW h, Bare(g), Bare(h), Passing(ev) \/ ev.type \in {"typing_stop", "recording_stop"}
  PROVE  CastStage(s, ev, g, h)
<1>1. ev.type # "leave" BY DEF Passing
<1> QED BY <1>1, StageOrder DEF Bare, CastStage

LEMMA CastStages ==
  ASSUME Types, NEW s \in Socket, NEW ev, NEW h, NEW b, CastCase(s, ev, h, b)
  PROVE  CastStage(s, ev, hand[s], h)
<1> DEFINE i == Who[s]
<1>1. /\ Hello(i).type = "join" /\ As(Bye(i), "recording_stop").type = "recording_stop" /\ As(Bye(i), "leave").type = "leave"
      /\ As(Bye(i), "typing_stop").type = "typing_stop"
  BY DEF Hello, Bye, As, Ev
<1>2. CASE hand[s] = Joining3(i) /\ ev = Hello(i) /\ h = Joining4(i)
  <2>1. CastStage(s, Hello(i), Joining3(i), Joining4(i)) BY <1>1, Stages, StageOrder DEF CastStage, Kinds
  <2> QED BY <1>2, <2>1
<1>3. CASE hand[s] = Leaving2(i) /\ ev = As(Bye(i), "recording_stop") /\ h = Leaving3(i)
  <2>1. CastStage(s, As(Bye(i), "recording_stop"), Leaving2(i), Leaving3(i)) BY <1>1, Stages, StageOrder DEF CastStage, Kinds
  <2> QED BY <1>3, <2>1
<1>4. CASE hand[s] = Leaving4(i) /\ ev = As(Bye(i), "leave") /\ h = Leaving5(i)
  <2>1. st[s] = "closing"
    <3>1. Departing(Leaving4(i)) BY Stages, StageOrder
    <3>0. Departing(hand[s]) /\ hand[s] # <<>> BY <1>4, <3>1 DEF Departing, Awaits, Casts
    <3>2. Fine(drawn, s, st[s], hand[s], inbox[s]) BY DEF Types, HandTypes
    <3> QED BY <3>0, <3>2 DEF Fine, States
  <2>2. CastStage(s, As(Bye(i), "leave"), Leaving4(i), Leaving5(i)) BY <1>1, <2>1, Stages, StageOrder DEF CastStage, Kinds
  <2> QED BY <1>4, <2>2
<1>5. CASE ev.type = "message" /\ hand[s] = Sends(ev) /\ h = Reports(ev)
  <2>1. Passing(ev) BY <1>5 DEF Passing
  <2>2. Bare(hand[s]) /\ Bare(h) BY <1>5, <2>1, Stages
  <2> QED BY <2>1, <2>2, BareCast
<1>6. CASE ev.type \in Kinds \cup Named /\ hand[s] = Tells(ev) /\ h = <<>>
  <2>1. Passing(ev) BY <1>6 DEF Passing, Kinds, Named
  <2>2. Bare(hand[s]) /\ Bare(h) BY <1>6, <2>1, Stages
  <2> QED BY <2>1, <2>2, BareCast
<1>7. CASE Begins(s, ev) /\ ev.type \in {"typing_stop", "recording_stop"} /\ h = <<>>
  <2>1. Bare(hand[s]) /\ Bare(h) BY <1>7, Stages DEF Begins
  <2> QED BY <1>7, <2>1, BareCast
<1>8. CASE Begins(s, Bye(i)) /\ ev = As(Bye(i), "typing_stop") /\ h = Leaving2(i)
  <2>1. CastStage(s, As(Bye(i), "typing_stop"), <<>>, Leaving2(i)) BY <1>1, Stages, StageOrder DEF CastStage, Kinds, Bare
  <2>2. hand[s] = <<>> BY <1>8 DEF Begins
  <2> QED BY <1>8, <2>1, <2>2
<1> QED BY <1>2, <1>3, <1>4, <1>5, <1>6, <1>7, <1>8 DEF CastCase

LEMMA PresenceBroadcast ==
  ASSUME Types, Presence, NEW s \in Socket, Broadcast(s)
  PROVE  Presence'
<1>1. PICK ev, h, b : CastCase(s, ev, h, b) /\ Move(s, h, b) /\ EventIn(drawn, ev) /\ ev.who = Who[s] /\ ev = Arg(s)
  BY TypesBroadcast
<1>2. CastStage(s, ev, hand[s], h) BY <1>1, CastStages
<1>3. /\ st[s] \in {"open", "closing"} /\ UNCHANGED <<hash, faded, st, page>> /\ chan' = Everyone(ev)
      /\ DOMAIN page \subseteq DOMAIN chan /\ DOMAIN page \subseteq Socket /\ ev \in Event
  BY <1>1, TypesBroadcast DEF Broadcast, ghosts, Types, ChanTypes, PageTypes, EventIn
<1>4. CastStage(s, ev, hand[s], hand'[s]) /\ \A v \in Socket \ {s} : hand'[v] = hand[v]
  <2>1. hand'[s] = h /\ \A v \in Socket \ {s} : hand'[v] = hand[v] BY <1>1, MoveParts DEF Types
  <2> QED BY <1>2, <2>1
<1>5. /\ DOMAIN chan' = DOMAIN chan
      /\ \A v \in DOMAIN chan : chan[v] \in Seq(Event) /\ chan'[v] = Append(chan[v], ev)
                             /\ Range(chan'[v]) = Range(chan[v]) \cup {ev}
  BY <1>3, SentEach
<1>6. HashHeld'
  <2>1. \A v \in Socket : Holds(v) => Holds(v)' BY <1>3, <1>4 DEF Holds, CastStage
  <2> QED BY <1>3, <2>1 DEF Presence, HashHeld
<1>7. LeaveKnown'
  <2>1. ev.type = "leave" => st[s] \notin {"new", "open"} BY <1>4 DEF CastStage
  <2> QED BY <1>1, <1>3, <1>5, <2>1 DEF Presence, LeaveKnown
<1>8. \A u \in Socket : Only(u)' <=> Only(u) BY <1>3 DEF Only
<1>9. OnlyHere'
  <2>1. ASSUME NEW u \in Socket, HereIn(u) PROVE HereIn(u)' BY <1>3, <1>4, <2>1 DEF HereIn, CastStage
  <2>2. ASSUME NEW u \in Socket, NEW v \in DOMAIN page, HereOn(u, v) PROVE HereOn(u, v)'
    <3>1. v \in DOMAIN chan /\ v \in Socket BY <1>3
    <3>5. chan[v] \in Seq(Event) /\ chan'[v] = Append(chan[v], ev) BY <1>5, <3>1
    <3>6. Says(Append(chan[v], ev), "join", Who[u]) <=> Says(chan[v], "join", Who[u]) \/ (ev.type = "join" /\ ev.who = Who[u])
      BY <1>3, <3>5, SaysAppend
    <3>2. Says(chan'[v], "join", Who[u]) <=> Says(chan[v], "join", Who[u]) \/ (ev.type = "join" /\ ev.who = Who[u])
      BY <3>5, <3>6
    <3>3. Unsaid(hand[u]) => Unsaid(hand'[u]) \/ (ev.type = "join" /\ ev.who = Who[u]) BY <1>1, <1>4 DEF CastStage
    <3>4. Unseen(hand[v]) => Unseen(hand'[v]) BY <1>4, <3>1 DEF CastStage
    <3> QED BY <1>3, <2>2, <3>2, <3>3, <3>4 DEF HereOn
  <2> QED BY <1>3, <1>8, <2>1, <2>2 DEF Presence, OnlyHere
<1>10. OnlyGone'
  <2>1. ASSUME NEW u \in Socket, Only(u), Away(u)', NEW v \in DOMAIN page
        PROVE  ~Ends(Who[u], page[v].members, "join", "leave", Who[u], chan'[v])
    <3>1. chan[v] \in Seq(Event) /\ chan'[v] = Append(chan[v], ev) BY <1>3, <1>5
    <3>2. CASE u = s
      <4>1. ev.type = "leave" /\ ev.who = Who[u] BY <1>1, <1>3, <1>4, <2>1, <3>2 DEF Away, CastStage
      <4>2. ~Ends(Who[u], page[v].members, "join", "leave", Who[u], Append(chan[v], ev)) BY <1>3, <3>1, <4>1, EndsAppend
      <4> QED BY <3>1, <4>2
    <3>3. CASE u # s
      <4>1. Away(u) /\ Who[u] # Who[s] BY <1>3, <1>4, <2>1, <3>3 DEF Away, Only
      <4>2. ~Ends(Who[u], page[v].members, "join", "leave", Who[u], chan[v]) BY <2>1, <4>1 DEF Presence, OnlyGone
      <4>3. ~Ends(Who[u], page[v].members, "join", "leave", Who[u], Append(chan[v], ev))
        BY <1>1, <1>3, <3>1, <4>1, <4>2, EndsAppend
      <4> QED BY <3>1, <4>3
    <3> QED BY <3>2, <3>3
  <2> QED BY <1>3, <1>8, <2>1 DEF OnlyGone
<1>11. ASSUME NEW type \in Kinds, NEW off, off = StopSign[type], SignHeld(type, off) PROVE SignHeld(type, off)'
  <2>1. type # off /\ off = IF type = "typing" THEN "typing_stop" ELSE "recording_stop" BY <1>11 DEF Kinds, StopSign
  <2>2. \A v \in Socket \ {s} : Signals(type, v) => Signals(type, v)' BY <1>3, <1>4 DEF Signals
  <2>3. Signals(type, s) => Signals(type, s)' \/ ev.type = off
    BY <1>3, <1>4, <1>11, <2>1 DEF Signals, Stopped, CastStage
  <2>4. ev.type = type => Signals(type, s)'
    <3>1. ev.type = type => ~Departing(hand'[s]) BY <1>4, <1>11 DEF CastStage
    <3>2. ev.type = type => ~Quit(hand'[s]) BY <3>1, StageOrder
    <3> QED BY <1>3, <3>1, <3>2 DEF Signals, Stopped
  <2>5. ASSUME NEW v \in DOMAIN page, NEW i \in Person \ {Who[v]}, Ends(<<type, i>>, page[v].signs, type, off, i, chan'[v])
        PROVE  \E w \in Socket : Who[w] = i /\ Signals(type, w)'
    <3>1. chan[v] \in Seq(Event) /\ Ends(<<type, i>>, page[v].signs, type, off, i, Append(chan[v], ev)) BY <1>3, <1>5, <2>5
    <3>2. ~(ev.type = off /\ ev.who = i) /\ (Ends(<<type, i>>, page[v].signs, type, off, i, chan[v]) \/ (ev.type = type /\ ev.who = i))
      BY <1>3, <2>1, <3>1, EndsAppend
    <3>3. CASE ev.type = type /\ ev.who = i BY <1>1, <2>4, <3>3
    <3>4. CASE Ends(<<type, i>>, page[v].signs, type, off, i, chan[v])
      <4>1. PICK w \in Socket : Who[w] = i /\ Signals(type, w) BY <1>11, <3>4 DEF SignHeld
      <4> QED BY <1>1, <2>2, <2>3, <3>2, <4>1
    <3> QED BY <3>2, <3>3, <3>4
  <2> QED BY <1>3, <2>5 DEF SignHeld
<1>12. SignsHeld' BY <1>11 DEF Presence, SignsHeld, Kinds, StopSign
<1> QED BY <1>6, <1>7, <1>9, <1>10, <1>12 DEF Presence

LEMMA PresenceFanout ==
  ASSUME Types, Presence, NEW s \in Socket, Fanout(s)
  PROVE  Presence'
<1> DEFINE ev == Head(chan[s])
<1>1. /\ UNCHANGED <<st, hash, faded, hand>> /\ s \in DOMAIN chan /\ hand[s] = <<>>
      /\ DOMAIN chan' = DOMAIN chan /\ Range(chan[s]) = {ev} \cup Range(chan'[s]) /\ ev \in Range(chan[s])
      /\ chan[s] # <<>> /\ chan'[s] = Tail(chan[s]) /\ \A v \in DOMAIN chan \ {s} : chan'[v] = chan[v]
      /\ DOMAIN page' = DOMAIN page /\ \A v \in DOMAIN page \ {s} : page'[v] = page[v]
  BY FanoutShows DEF Fanout, ghosts
<1>2. s \in DOMAIN page =>
        page'[s].members = MembersAfter(page[s], ev) /\ page'[s].signs = SignsAfter(s, page[s], ev)
  BY FanoutShows
<1>3. chan[s] \in Seq(Event) /\ DOMAIN page \subseteq DOMAIN chan /\ DOMAIN page \subseteq Socket
  <2>1. \A v \in DOMAIN chan : Queue(drawn, chan[v]) BY DEF Types, ChanTypes
  <2>2. DOMAIN page \subseteq DOMAIN chan /\ DOMAIN page \subseteq Socket BY DEF Types, ChanTypes, PageTypes
  <2> QED BY <1>1, <2>1, <2>2 DEF Queue
<1> HIDE DEF ev
<1>4. HashHeld' BY <1>1 DEF Presence, HashHeld, Holds
<1>5. LeaveKnown'
  <2>1. \A v \in DOMAIN chan : Range(chan'[v]) \subseteq Range(chan[v]) BY <1>1
  <2> QED BY <1>1, <2>1 DEF Presence, LeaveKnown
<1>6. \A u \in Socket : Only(u)' <=> Only(u) BY <1>1 DEF Only
<1>7. OnlyHere'
  <2>1. ASSUME NEW u \in Socket, HereIn(u) PROVE HereIn(u)' BY <1>1, <2>1 DEF HereIn
  <2>2. ASSUME NEW u \in Socket, NEW v \in DOMAIN page, v # s, HereOn(u, v) PROVE HereOn(u, v)'
    <3>1. v \in DOMAIN chan BY <1>3
    <3> QED BY <1>1, <2>2, <3>1 DEF HereOn
  <2>3. ASSUME NEW u \in Socket, Only(u), st[u] = "open", s \in DOMAIN page, HereOn(u, s) PROVE HereOn(u, s)'
    <3>1. ~(ev.type = "leave" /\ ev.who = Who[u])
      <4>1. ev.type = "leave" => \E v \in Socket : Who[v] = ev.who /\ st[v] \notin {"new", "open"}
        BY <1>1 DEF Presence, LeaveKnown
      <4> QED BY <2>3, <4>1 DEF Only
    <3>2. Who[u] \in page[s].members => Who[u] \in page'[s].members BY <1>2, <2>3, <3>1 DEF MembersAfter
    <3>3. ev.type = "join" /\ ev.who = Who[u] => Who[u] \in page'[s].members BY <1>2, <2>3 DEF MembersAfter
    <3>4. Says(chan[s], "join", Who[u]) <=> Says(Tail(chan[s]), "join", Who[u]) \/ (ev.type = "join" /\ ev.who = Who[u])
      BY <1>1, <1>3, SaysTail DEF ev
    <3> QED BY <1>1, <2>3, <3>2, <3>3, <3>4 DEF HereOn
  <2> QED BY <1>1, <1>6, <2>1, <2>2, <2>3 DEF Presence, OnlyHere
<1>8. OnlyGone'
  <2>1. ASSUME NEW u \in Socket, NEW v \in DOMAIN page, ~Ends(Who[u], page[v].members, "join", "leave", Who[u], chan[v]),
               Ends(Who[u], page'[v].members, "join", "leave", Who[u], chan'[v])
        PROVE  FALSE
    <3>1. v = s BY <1>1, <1>3, <2>1
    <3>2. Who[u] \in page'[s].members =>
            (Who[u] \in page[s].members /\ ~(ev.type = "leave" /\ ev.who = Who[u])) \/ (ev.type = "join" /\ ev.who = Who[u])
      BY <1>2, <2>1, <3>1 DEF MembersAfter
    <3>3. Ends(Who[u], page'[s].members, "join", "leave", Who[u], Tail(chan[s])) BY <1>1, <2>1, <3>1
    <3>4. Ends(Who[u], page[s].members, "join", "leave", Who[u], chan[s]) BY <1>1, <1>3, <3>2, <3>3, EndsTail DEF ev
    <3> QED BY <2>1, <3>1, <3>4
  <2> QED BY <1>1, <1>6, <2>1 DEF Presence, OnlyGone, Away
<1>9. ASSUME NEW type \in Kinds, NEW off, off = StopSign[type], SignHeld(type, off) PROVE SignHeld(type, off)'
  <2>1. type # off /\ off = IF type = "typing" THEN "typing_stop" ELSE "recording_stop" BY <1>9 DEF Kinds, StopSign
  <2>2. ASSUME NEW v \in DOMAIN page, NEW i \in Person \ {Who[v]}, Ends(<<type, i>>, page'[v].signs, type, off, i, chan'[v])
        PROVE  Ends(<<type, i>>, page[v].signs, type, off, i, chan[v])
    <3>1. CASE v # s BY <1>1, <1>3, <2>2, <3>1
    <3>2. CASE v = s
      <4>1. <<type, i>> \in page'[s].signs =>
              (<<type, i>> \in page[s].signs /\ ~(ev.type = off /\ ev.who = i)) \/ (ev.type = type /\ ev.who = i)
        <5>1. <<type, i>> \in SignsAfter(s, page[s], ev) =>
                (<<type, i>> \in page[s].signs /\ ~(ev.type = off /\ ev.who = i)) \/ (ev.type = type /\ ev.who = i)
          BY <1>9, <2>1, <2>2, <3>2 DEF SignsAfter, Kinds
        <5> QED BY <1>2, <2>2, <3>2, <5>1
      <4>2. Ends(<<type, i>>, page'[s].signs, type, off, i, Tail(chan[s])) BY <1>1, <2>2, <3>2
      <4> QED BY <1>1, <1>3, <2>1, <3>2, <4>1, <4>2, EndsTail DEF ev
    <3> QED BY <3>1, <3>2
  <2>3. \A w \in Socket : Signals(type, w)' <=> Signals(type, w) BY <1>1 DEF Signals
  <2> QED BY <1>1, <1>9, <2>2, <2>3 DEF SignHeld
<1>10. SignsHeld' BY <1>9 DEF Presence, SignsHeld, Kinds, StopSign
<1> QED BY <1>4, <1>5, <1>7, <1>8, <1>10 DEF Presence

LEMMA PresenceFade ==
  ASSUME Types, Presence, Fade
  PROVE  Presence'
<1>1. UNCHANGED <<st, hand, chan, page>> /\ hash' = {} /\ faded' = faded \cup hash BY DEF Fade
<1>2. HashHeld' BY <1>1 DEF HashHeld
<1>3. LeaveKnown' BY <1>1 DEF Presence, LeaveKnown
<1>4. \A u \in Socket : Only(u)' <=> Only(u) BY <1>1 DEF Only
<1>5. OnlyHere'
  <2>1. ASSUME NEW u \in Socket, Who[u] \notin faded', HereIn(u) PROVE HereIn(u)' BY <1>1, <2>1 DEF HereIn
  <2>2. ASSUME NEW u \in Socket, NEW v \in DOMAIN page, HereOn(u, v) PROVE HereOn(u, v)' BY <1>1, <2>2 DEF HereOn
  <2> QED BY <1>1, <1>4, <2>1, <2>2 DEF Presence, OnlyHere
<1>6. OnlyGone' BY <1>1, <1>4 DEF Presence, OnlyGone, Away
<1>7. SignsHeld' BY <1>1 DEF Presence, SignsHeld, SignHeld, Signals
<1> QED BY <1>2, <1>3, <1>5, <1>6, <1>7 DEF Presence

LEMMA PresenceNext ==
  ASSUME Types, Presence, [Next]_vars
  PROVE  Presence'
<1>1. ASSUME NEW s \in Socket, Toggle(s), Tombstone(s) PROVE Presence'
  <2>1. Crash({s}) BY <1>1, TypesToggle
  <2>2. Crashed({s}) BY <2>1, CrashParts
  <2>3. {s} \subseteq Living
    <3>1. Begins(s, Arg(s)) BY <1>1, TypesToggle
    <3>2. Fine(drawn, s, st[s], hand[s], inbox[s]) BY DEF Types, HandTypes
    <3> QED BY <3>1, <3>2 DEF Begins, Fine, Living, States
  <2>4. UNCHANGED <<hash, faded>> BY <1>1 DEF Toggle
  <2> QED BY <2>2, <2>3, <2>4, PresenceCrash
<1>2. CASE Restart
  <2>1. Crash(Living) /\ UNCHANGED <<hash, faded>> BY <1>2 DEF Restart, Living, ghosts
  <2>2. Living \in SUBSET Socket BY DEF Living
  <2>3. Crashed(Living) BY <2>1, <2>2, CrashParts
  <2> QED BY <2>1, <2>2, <2>3, PresenceCrash
<1>3. ASSUME NEW s \in Socket,
             Connect(s) \/ Join(s) \/ Snapshot(s) \/ Leave(s) \/ Discard(s) \/ Broadcast(s) \/ Fanout(s)
      PROVE  Presence'
  BY <1>3, PresenceConnect, PresenceJoin, PresenceSnapshot, PresenceLeave, PresenceDiscard, PresenceBroadcast, PresenceFanout
<1>4. CASE Fade BY <1>4, PresenceFade
<1>5. CASE Calm BY <1>5, CalmPresence
<1>6. ASSUME NEW s \in DOMAIN page, CloseSocket(s) PROVE Presence' BY <1>6, PresenceClose
<1>7. ASSUME NEW m \in DOMAIN uploads, Announce(m) PROVE Presence' BY <1>7, PresenceAnnounce
<1> QED BY <1>1, <1>2, <1>3, <1>4, <1>5, <1>6, <1>7, PresenceSteps

LEMMA PresenceInit == ASSUME Init PROVE Presence
<1>1. /\ \A s \in Socket : hand[s] = <<>> /\ st[s] = IF s \in mix.on THEN "open" ELSE "new"
      /\ DOMAIN chan = mix.on /\ DOMAIN page = mix.on /\ mix.on \subseteq Socket
      /\ \A s \in mix.on : chan[s] = <<>> /\ page[s].members = hash /\ page[s].signs = {}
  BY InitFacts
<1>2. hash = {Who[s] : s \in mix.on} BY DEF Init
<1>3. HashHeld BY <1>1, <1>2 DEF HashHeld, Holds
<1>4. LeaveKnown
  <2>1. \A s \in DOMAIN chan : Range(chan[s]) = {} BY <1>1, RangeEmpty
  <2> QED BY <2>1 DEF LeaveKnown
<1>5. OnlyHere
  <2>1. ASSUME NEW u \in Socket, st[u] = "open" PROVE HereIn(u) /\ \A s \in DOMAIN page : HereOn(u, s)
    <3>1. Who[u] \in hash BY <1>1, <1>2, <2>1
    <3> QED BY <1>1, <3>1 DEF HereIn, HereOn
  <2> QED BY <2>1 DEF OnlyHere
<1>6. OnlyGone BY <1>1 DEF OnlyGone, Away
<1>7. ASSUME NEW type, NEW off PROVE SignHeld(type, off)
  <2>1. ASSUME NEW s \in DOMAIN page, NEW i, Ends(<<type, i>>, page[s].signs, type, off, i, chan[s]) PROVE FALSE
    <3>1. ~Ends(<<type, i>>, {}, type, off, i, <<>>) BY EndsNone
    <3> QED BY <1>1, <2>1, <3>1
  <2> QED BY <2>1 DEF SignHeld
<1>8. SignsHeld BY <1>7 DEF SignsHeld
<1> QED BY <1>3, <1>4, <1>5, <1>6, <1>8 DEF Presence

LEMMA PresenceHold == Spec => []Presence
<1>1. Init => Presence BY PresenceInit
<1>2. Types /\ Presence /\ [Next]_vars => Presence' BY PresenceNext
<1> QED BY <1>1, <1>2, TypesHold, PTL DEF Spec

(* Someone with one connection has a socket no other of his shadows.       *)
LEMMA LoneOnly ==
  ASSUME NEW i \in Person, Lone(i)
  PROVE  \E u \in Socket : Who[u] = i /\ Only(u)
<1> DEFINE S == {s \in Socket : Who[s] = i /\ st[s] # "new"}
<1>1. IsFiniteSet(S) BY FiniteAssumption, FS_Subset
<1>2. Cardinality(S) = 1 BY DEF Lone
<1>3. \E u : S = {u} BY <1>1, <1>2, FS_Singleton
<1>4. PICK u : S = {u} BY <1>3
<1>5. u \in Socket /\ Who[u] = i /\ st[u] # "new" BY <1>4
<1>6. \A v \in Socket : Who[v] = Who[u] /\ st[v] # "new" => v = u BY <1>4, <1>5
<1> QED BY <1>5, <1>6 DEF Only

(* When all is quiet nobody is on his way in or out.                       *)
LEMMA QuietStages ==
  ASSUME Types, Quiet, NEW s \in Socket
  PROVE  hand[s] = <<>> /\ inbox[s] = <<>> /\ st[s] # "closing" /\ ~Unseen(hand[s]) /\ ~Unsaid(hand[s]) /\ ~Before(hand[s])
<1>1. Fine(drawn, s, st[s], hand[s], inbox[s]) BY DEF Types, HandTypes
<1>2. hand[s] = <<>> /\ inbox[s] = <<>>
  <2>1. Todo(s) = <<>> BY DEF Quiet
  <2>2. hand[s] = <<>> BY <2>1 DEF Todo
  <2>3. ASSUME inbox[s] # <<>> PROVE FALSE
    <3>1. Todo(s) = Handler(Head(inbox[s])) BY <2>2, <2>3 DEF Todo
    <3>2. FrameIn(drawn, s, Head(inbox[s])) BY <1>1, <2>3, HeadTail DEF Fine, Box
    <3>3. drawn \in Nat /\ Head(inbox[s]).type \in FrameTypes BY <3>2 DEF Types, HandTypes, FrameIn
    <3>4. Handler(Head(inbox[s])) # <<>> BY <3>2, <3>3, Handlers, LeavingHands, WhoTyped DEF FrameTypes
    <3> QED BY <2>1, <3>1, <3>4
  <2> QED BY <2>2, <2>3
<1>3. st[s] # "closing"
  <2>1. ~Departing(hand[s]) BY <1>2 DEF Departing, Awaits, Casts
  <2> QED BY <1>1, <1>2, <2>1 DEF Fine
<1>4. ~Unseen(hand[s]) /\ ~Unsaid(hand[s]) /\ ~Before(hand[s])
  <2>1. Bare(hand[s]) BY <1>2, Stages
  <2> QED BY <2>1, StageOrder DEF Bare
<1> QED BY <1>2, <1>3, <1>4

LEMMA PresenceSays ==
  ASSUME Types, Presence
  PROVE  PresenceTrue
<1> SUFFICES ASSUME Quiet
             PROVE  /\ \A i \in hash : Here(i) \/ Ghost(i)
                    /\ \A i \in Person : \A s \in DOMAIN page :
                         /\ Lone(i) /\ Here(i) /\ i \notin faded => i \in hash \cap page[s].members
                         /\ ~Here(i) /\ ~Ghost(i) => page[s].signs \cap ({"typing", "recording"} \X {i}) = {}
                         /\ Lone(i) /\ ~Here(i) /\ ~Ghost(i) => i \notin page[s].members
  BY DEF PresenceTrue
<1>1. \A s \in Socket : st[s] # "closing" /\ ~Unseen(hand[s]) /\ ~Unsaid(hand[s]) /\ ~Before(hand[s])
  BY QuietStages
<1>2. /\ DOMAIN page \subseteq Socket /\ \A s \in DOMAIN page : chan[s] = <<>> /\ st[s] = "open"
      /\ \A s \in Socket : st[s] \in States
  BY DEF Quiet, Types, HandTypes, ChanTypes, PageTypes
<1>3. ASSUME NEW i \in hash PROVE Here(i) \/ Ghost(i)
  <2>1. PICK v \in Socket : Who[v] = i /\ Holds(v) BY DEF Presence, HashHeld
  <2> QED BY <1>1, <2>1 DEF Holds, Here, Ghost
<1>4. ASSUME NEW i \in Person, NEW s \in DOMAIN page, Lone(i), Here(i), i \notin faded
      PROVE  i \in hash \cap page[s].members
  <2>1. PICK u \in Socket : Who[u] = i /\ Only(u) BY <1>4, LoneOnly
  <2>2. st[u] = "open" BY <1>4, <2>1 DEF Here, Only
  <2>3. HereIn(u) /\ HereOn(u, s) BY <1>4, <2>1, <2>2 DEF Presence, OnlyHere
  <2>4. ~Says(chan[s], "join", Who[u]) BY <1>2 DEF Says
  <2> QED BY <1>1, <1>2, <2>1, <2>3, <2>4 DEF HereIn, HereOn
<1>5. ASSUME NEW i \in Person, NEW s \in DOMAIN page, ~Here(i), ~Ghost(i)
      PROVE  page[s].signs \cap ({"typing", "recording"} \X {i}) = {}
  <2>1. ASSUME NEW type, NEW off, SignHeld(type, off), <<type, i>> \in page[s].signs PROVE FALSE
    <3>1. i # Who[s] BY <1>2, <1>5 DEF Here
    <3>2. Ends(<<type, i>>, page[s].signs, type, off, i, <<>>) BY <2>1, EndsQuiet
    <3>3. Ends(<<type, i>>, page[s].signs, type, off, i, chan[s]) BY <1>2, <3>2
    <3>4. PICK v \in Socket : Who[v] = i /\ Signals(type, v) BY <2>1, <3>1, <3>3 DEF SignHeld
    <3> QED BY <1>1, <1>5, <3>4 DEF Signals, Here, Ghost
  <2>2. SignHeld("typing", "typing_stop") /\ SignHeld("recording", "recording_stop") BY DEF Presence, SignsHeld
  <2>3. <<"typing", i>> \notin page[s].signs /\ <<"recording", i>> \notin page[s].signs BY <2>1, <2>2
  <2> QED BY <2>3
<1>6. ASSUME NEW i \in Person, NEW s \in DOMAIN page, Lone(i), ~Here(i), ~Ghost(i)
      PROVE  i \notin page[s].members
  <2>1. PICK u \in Socket : Who[u] = i /\ Only(u) BY <1>6, LoneOnly
  <2>2. st[u] = "gone" BY <1>1, <1>2, <1>6, <2>1 DEF Here, Ghost, Only, States
  <2>3. ~Ends(Who[u], page[s].members, "join", "leave", Who[u], chan[s]) BY <2>1, <2>2 DEF Presence, OnlyGone, Away
  <2>4. ~Ends(Who[u], page[s].members, "join", "leave", Who[u], <<>>) BY <1>2, <2>3
  <2> QED BY <2>1, <2>4, EndsQuiet
<1> QED BY <1>3, <1>4, <1>5, <1>6

(* In any room, once no handler runs and every event has been shown: the   *)
(* hash holds nobody but those who are connected or whose consumer died    *)
(* without its disconnect handler; and whoever has one connection only is  *)
(* on every page while it is open, unless the TTL took him, and after it   *)
(* has closed on none, nor seen typing or recording.                       *)
THEOREM PresenceTrueHolds == Spec => []PresenceTrue
<1>1. Types /\ Presence => PresenceTrue BY PresenceSays
<1> QED BY <1>1, TypesHold, PresenceHold, PTL

-----------------------------------------------------------------------------
(* Pages follow the rows.  What will still be told of m: by the handler    *)
(* that wrote it, by its upload, or on the way to a page; and what the     *)
(* page of s has asked its consumer to write.                              *)
Writes == {"reaction", "edit", "delete"}
News == Writes \cup {"message"}
TellsOf(h, type, m) == Casts(h, type) /\ Head(h).ev.m = m
Casting(type, m) == \E v \in Socket : TellsOf(hand[v], type, m)
Stored(m) == m \in DOMAIN uploads /\ uploads[m].stored
Announcing(m) == Casting("message", m) \/ Stored(m)
Asked(s, type, m) == \E f \in Range(inbox[s]) : f.type = type /\ f.m = m
About(types, m) == {ev \in Event : ev.type \in types /\ ev.m = m}
(* q has an event of E; the last one it has is in G.                       *)
Brings(q, E) == \E k \in DOMAIN q : q[k] \in E
LastIn(q, E, G) == \E k \in DOMAIN q : q[k] \in G /\ \A j \in DOMAIN q : j > k => q[j] \notin E
(* The events that leave m with n reactions, and with text t; those that   *)
(* show m with another text than t.                                        *)
Counted(m, n) == {ev \in About({"message", "reaction"}, m) : IF ev.type = "message" THEN n = 0 ELSE ev.val = n}
Edited(m, t) == {ev \in About({"edit"}, m) : Cut(ev.val) = t}
Stale(m, t) == {ev \in About({"message"}, m) : Cut(ev.val) # t}
(* What page s shows of m once it has taken what is on its way is what the *)
(* rows have: the count, the text, the deletion - and no other deletion.   *)
Fresh(s, m) == m \in DOMAIN page[s].shown /\ ~page[s].shown[m].deleted
CountSure(s, m) ==
  \/ Asked(s, "reaction", m) \/ Casting("reaction", m) \/ Announcing(m)
  \/ LastIn(chan[s], About({"message", "reaction"}, m), Counted(m, Summary(m)))
  \/ /\ ~Brings(chan[s], About({"message", "reaction"}, m))
     /\ Fresh(s, m) => page[s].shown[m].count = Summary(m)
TextSure(s, m) ==
  \/ Asked(s, "edit", m) \/ Casting("edit", m)
  \/ LastIn(chan[s], About({"message", "edit"}, m), Edited(m, msgs[m].text))
  \/ /\ ~Brings(chan[s], About({"edit"}, m) \cup Stale(m, msgs[m].text))
     /\ Fresh(s, m) => Cut(page[s].shown[m].text) = msgs[m].text
GoneSure(s, m) ==
  \/ Casting("delete", m)
  \/ LastIn(chan[s], About({"message", "delete"}, m), About({"delete"}, m))
  \/ ~Fresh(s, m) /\ ~Brings(chan[s], About({"message"}, m))
BackSure(s, m) == m \in DOMAIN page[s].shown /\ page[s].shown[m].deleted => Asked(s, "delete", m)
Sure(s, m) ==
  /\ msgs[m].deleted => GoneSure(s, m)
  /\ ~msgs[m].deleted => CountSure(s, m) /\ TextSure(s, m) /\ BackSure(s, m)
Tracked == DOMAIN msgs \ (raced \cup lost)
(* A write that is about to be told is what the rows have.  A message that *)
(* is about to be told has only been written.                              *)
NewsTrue(ev, m) ==
  /\ ev.type = "edit" => Cut(ev.val) = msgs[m].text
  /\ ev.type = "reaction" => ev.val = Summary(m)
  /\ ev.type = "delete" => msgs[m].deleted
  /\ ev.type = "message" => Cut(ev.val) = msgs[m].text
HandTrue(m) == \A v \in Socket : \A type \in News : TellsOf(hand[v], type, m) => NewsTrue(Head(hand[v]).ev, m)
Untouched(m) ==
  /\ ~msgs[m].deleted /\ Summary(m) = 0 /\ \A type \in Writes : ~Casting(type, m)
  /\ \A s \in DOMAIN chan : ~Brings(chan[s], About(Writes, m))
(* What writes are about: messages there are, and one's own; a deletion    *)
(* that is told of is in the rows.                                         *)
FrameMeant(s, f) ==
  /\ f.type = "message" => f.val = f.m
  /\ f.type \in {"edit", "delete"} /\ f.m # 0 => f.m \in DOMAIN msgs /\ msgs[f.m].by = Who[s]
FramesMeant == \A s \in Socket : \A f \in Range(inbox[s]) : FrameMeant(s, f)
EventMeant(ev) == ev.m \in DOMAIN msgs /\ (ev.type = "delete" => msgs[ev.m].deleted)
EventsMeant ==
  /\ \A v \in Socket : \A type \in Writes : Casts(hand[v], type) => EventMeant(Head(hand[v]).ev)
  /\ \A s \in DOMAIN chan : \A ev \in Range(chan[s]) : ev.type \in Writes => EventMeant(ev)
(* A bubble is unconfirmed until its message is announced, and until the   *)
(* message is there it says what its page sent.                            *)
BubbleTrue(s, m) ==
  LET e == page[s].shown[m] IN
  /\ m \notin DOMAIN msgs => e.bubble = "unconfirmed" /\ (m \notin raced => e.text = m /\ ~e.deleted)
  /\ e.bubble = "unconfirmed" /\ m \in DOMAIN msgs \ lost => Announcing(m) \/ Brings(chan[s], About({"message"}, m))
Right(m) ==
  /\ m \in Tracked => HandTrue(m) /\ (Announcing(m) => Untouched(m))
  /\ \A v \in DOMAIN page :
       /\ m \in DOMAIN page[v].shown => BubbleTrue(v, m)
       /\ m \in Tracked => Sure(v, m)
Follows == FramesMeant /\ EventsMeant /\ \A m \in Nat : Right(m)

LEMMA LastAppend ==
  ASSUME NEW q \in Seq(Event), NEW x \in Event, NEW E, NEW G
  PROVE  /\ Brings(Append(q, x), E) <=> Brings(q, E) \/ x \in E
         /\ x \notin E /\ LastIn(q, E, G) => LastIn(Append(q, x), E, G)
         /\ x \in G => LastIn(Append(q, x), E, G)
<1> DEFINE r == Append(q, x)
<1>1. /\ DOMAIN q = 1..Len(q) /\ Len(q) \in Nat /\ DOMAIN r = 1..(Len(q) + 1)
      /\ \A k \in DOMAIN q : r[k] = q[k] /\ k \in DOMAIN r
      /\ r[Len(q) + 1] = x
  OBVIOUS
<1> HIDE DEF r
<1>2. \A k \in DOMAIN r : k \in DOMAIN q \/ k = Len(q) + 1 BY <1>1
<1>3. Brings(r, E) <=> Brings(q, E) \/ x \in E BY <1>1, <1>2 DEF Brings
<1>4. ASSUME x \notin E, LastIn(q, E, G) PROVE LastIn(r, E, G) BY <1>1, <1>2, <1>4 DEF LastIn
<1>5. ASSUME x \in G PROVE LastIn(r, E, G)
  <2>1. Len(q) + 1 \in DOMAIN r /\ \A j \in DOMAIN r : ~(j > Len(q) + 1) BY <1>1
  <2> QED BY <1>1, <1>5, <2>1 DEF LastIn
<1> QED BY <1>3, <1>4, <1>5 DEF r

LEMMA LastTail ==
  ASSUME NEW q \in Seq(Event), q # <<>>, NEW E, NEW G
  PROVE  /\ Brings(q, E) <=> Brings(Tail(q), E) \/ Head(q) \in E
         /\ LastIn(q, E, G) => LastIn(Tail(q), E, G) \/ (Head(q) \in G /\ ~Brings(Tail(q), E))
<1> DEFINE r == Tail(q)
<1>1. /\ Head(q) = q[1] /\ Len(q) \in Nat \ {0} /\ DOMAIN q = 1..Len(q) /\ DOMAIN r = 1..(Len(q) - 1)
      /\ \A k \in DOMAIN r : k+1 \in DOMAIN q /\ r[k] = q[k+1]
  BY HeadTail
<1> HIDE DEF r
<1>2. \A k \in DOMAIN q : k = 1 \/ (k-1 \in DOMAIN r /\ r[k-1] = q[k])
  <2> SUFFICES ASSUME NEW k \in DOMAIN q, k # 1 PROVE k-1 \in DOMAIN r /\ r[k-1] = q[k] OBVIOUS
  <2>1. k-1 \in DOMAIN r /\ (k-1)+1 = k BY <1>1
  <2> QED BY <1>1, <2>1
<1>3. Brings(q, E) <=> Brings(r, E) \/ Head(q) \in E BY <1>1, <1>2 DEF Brings
<1>4. ASSUME LastIn(q, E, G) PROVE LastIn(r, E, G) \/ (Head(q) \in G /\ ~Brings(r, E))
  <2>1. PICK k \in DOMAIN q : q[k] \in G /\ \A j \in DOMAIN q : j > k => q[j] \notin E BY <1>4 DEF LastIn
  <2>2. CASE k = 1
    <3>1. \A j \in DOMAIN r : j+1 \in DOMAIN q /\ j+1 > k BY <1>1, <2>2
    <3> QED BY <1>1, <2>1, <2>2, <3>1 DEF Brings
  <2>3. CASE k # 1
    <3>1. k-1 \in DOMAIN r /\ r[k-1] \in G BY <1>2, <2>1, <2>3
    <3>2. \A j \in DOMAIN r : j > k-1 => j+1 \in DOMAIN q /\ j+1 > k BY <1>1
    <3> QED BY <1>1, <2>1, <3>1, <3>2 DEF LastIn
  <2> QED BY <2>2, <2>3
<1> QED BY <1>3, <1>4 DEF r

LEMMA LastNone ==
  ASSUME NEW E, NEW G
  PROVE  ~Brings(<<>>, E) /\ ~LastIn(<<>>, E, G)
BY DEF Brings, LastIn

(* A channel changes aside of m: in no event that tells of m.              *)
Aside(q, r, m) ==
  \/ r = q
  \/ \E ev \in Event \ About(News, m) : r = Append(q, ev)
  \/ q # <<>> /\ Head(q) \notin About(News, m) /\ r = Tail(q)
LEMMA AsideLike ==
  ASSUME NEW q \in Seq(Event), NEW r, NEW m, Aside(q, r, m), NEW E \in SUBSET About(News, m), NEW G \in SUBSET E
  PROVE  (Brings(r, E) <=> Brings(q, E)) /\ (LastIn(q, E, G) => LastIn(r, E, G))
<1>1. CASE r = q BY <1>1
<1>2. ASSUME NEW ev \in Event \ About(News, m), r = Append(q, ev)
      PROVE  (Brings(r, E) <=> Brings(q, E)) /\ (LastIn(q, E, G) => LastIn(r, E, G))
  BY <1>2, LastAppend
<1>3. CASE q # <<>> /\ Head(q) \notin About(News, m) /\ r = Tail(q)
  BY <1>3, LastTail
<1> QED BY <1>1, <1>2, <1>3 DEF Aside

(* The sets of events that decide what is shown of m.                      *)
LEMMA AboutParts ==
  ASSUME NEW m, NEW n, NEW t
  PROVE  /\ \A types \in SUBSET News : About(types, m) \in SUBSET About(News, m)
         /\ About({"message", "reaction"}, m) \in SUBSET About(News, m)
         /\ About({"message", "edit"}, m) \in SUBSET About(News, m)
         /\ About({"message", "delete"}, m) \in SUBSET About(News, m)
         /\ About({"message"}, m) \in SUBSET About(News, m)
         /\ About(Writes, m) \in SUBSET About(News, m)
         /\ About({"edit"}, m) \cup Stale(m, t) \in SUBSET About(News, m)
         /\ Counted(m, n) \in SUBSET About({"message", "reaction"}, m)
         /\ Edited(m, t) \in SUBSET About({"message", "edit"}, m)
         /\ About({"delete"}, m) \in SUBSET About({"message", "delete"}, m)
BY DEF About, News, Writes, Counted, Edited, Stale

(* A row is told whole.                                                    *)
LEMMA CutTwice == ASSUME NEW m \in Nat PROVE Cut(Cut(m)) = Cut(m)
BY LongAssumption DEF Cut

LEMMA RowCut == ASSUME Types, NEW m \in DOMAIN msgs PROVE Cut(msgs[m].text) = msgs[m].text
<1>1. drawn \in Nat /\ msgs[m] \in MessageType BY DEF Types, HandTypes, RowTypes
<1>2. msgs[m].text \in RowTexts(drawn) BY <1>1 DEF MessageType
<1> QED BY <1>1, <1>2, CutTexts

(* What a step leaves of m: its row; who will tell of it; its events in a  *)
(* channel; what page v shows of it and what v has still to be asked.      *)
SameRow(m) ==
  /\ m \in DOMAIN msgs /\ m \in DOMAIN msgs'
  /\ msgs'[m].text = msgs[m].text /\ msgs'[m].deleted = msgs[m].deleted /\ Summary(m)' = Summary(m)
SameHopes(m) ==
  /\ \A v \in Socket : hand'[v] = hand[v] \/ \A type \in News : ~TellsOf(hand[v], type, m) /\ ~TellsOf(hand'[v], type, m)
  /\ Stored(m)' <=> Stored(m)
SameWay(v, m) == v \in DOMAIN chan /\ Aside(chan[v], chan'[v], m)
SameEntry(e, f) == f.text = e.text /\ f.deleted = e.deleted /\ f.count = e.count /\ f.bubble = e.bubble
SameLook(v, m) ==
  /\ v \in DOMAIN page /\ (m \in DOMAIN page'[v].shown <=> m \in DOMAIN page[v].shown)
  /\ m \in DOMAIN page[v].shown => SameEntry(page[v].shown[m], page'[v].shown[m])
SameAsked(v, m) == \A type \in Writes : Asked(v, type, m) => Asked(v, type, m)' \/ m \notin Alive

LEMMA HopesKept ==
  ASSUME NEW m, SameHopes(m)
  PROVE  (\A type \in News : Casting(type, m)' <=> Casting(type, m)) /\ (Announcing(m)' <=> Announcing(m))
<1>1. ASSUME NEW type \in News PROVE Casting(type, m)' <=> Casting(type, m)
  <2>1. ASSUME NEW v \in Socket PROVE TellsOf(hand'[v], type, m) <=> TellsOf(hand[v], type, m) BY DEF SameHopes
  <2> QED BY <2>1 DEF Casting
<1>2. "message" \in News BY DEF News
<1> QED BY <1>1, <1>2 DEF Announcing, SameHopes

LEMMA WayKept ==
  ASSUME ChanTypes, NEW v, NEW m, SameWay(v, m), NEW E \in SUBSET About(News, m), NEW G \in SUBSET E
  PROVE  (Brings(chan'[v], E) <=> Brings(chan[v], E)) /\ (LastIn(chan[v], E, G) => LastIn(chan'[v], E, G))
BY Queued, AsideLike DEF SameWay

LEMMA SureSame ==
  ASSUME ChanTypes, NEW v, NEW m, SameRow(m), SameHopes(m), SameWay(v, m), SameLook(v, m), SameAsked(v, m), Sure(v, m)
  PROVE  Sure(v, m)'
<1> DEFINE n == Summary(m)
           t == msgs[m].text
<1>0. n' = n /\ t' = t /\ (msgs'[m].deleted <=> msgs[m].deleted) BY DEF SameRow
<1>1. /\ \A type \in Writes : Casting(type, m)' <=> Casting(type, m)
      /\ Announcing(m)' <=> Announcing(m)
  BY HopesKept DEF News
<1>2. /\ Brings(chan'[v], About({"message", "reaction"}, m)) <=> Brings(chan[v], About({"message", "reaction"}, m))
      /\ LastIn(chan[v], About({"message", "reaction"}, m), Counted(m, n))
           => LastIn(chan'[v], About({"message", "reaction"}, m), Counted(m, n))
  BY WayKept, AboutParts
<1>3. /\ Brings(chan'[v], About({"edit"}, m) \cup Stale(m, t)) <=> Brings(chan[v], About({"edit"}, m) \cup Stale(m, t))
      /\ LastIn(chan[v], About({"message", "edit"}, m), Edited(m, t))
           => LastIn(chan'[v], About({"message", "edit"}, m), Edited(m, t))
  BY WayKept, AboutParts
<1>4. /\ Brings(chan'[v], About({"message"}, m)) <=> Brings(chan[v], About({"message"}, m))
      /\ LastIn(chan[v], About({"message", "delete"}, m), About({"delete"}, m))
           => LastIn(chan'[v], About({"message", "delete"}, m), About({"delete"}, m))
  BY WayKept, AboutParts
<1>5. (Fresh(v, m)' <=> Fresh(v, m)) BY DEF Fresh, SameLook, SameEntry
<1>6. Fresh(v, m) => page'[v].shown[m].count = page[v].shown[m].count /\ page'[v].shown[m].text = page[v].shown[m].text
  BY DEF Fresh, SameLook, SameEntry
<1> HIDE DEF n, t
<1>7. GoneSure(v, m) => GoneSure(v, m)' BY <1>1, <1>4, <1>5 DEF GoneSure, Writes
<1>8. ASSUME ~msgs[m].deleted, CountSure(v, m) PROVE CountSure(v, m)'
  <2>1. CASE Asked(v, "reaction", m) BY <1>8, <2>1 DEF CountSure, SameAsked, Writes, Alive, SameRow
  <2>2. CASE Casting("reaction", m) \/ Announcing(m) BY <1>1, <2>2 DEF CountSure, Writes
  <2>3. CASE LastIn(chan[v], About({"message", "reaction"}, m), Counted(m, n))
    <3>1. LastIn(chan'[v], About({"message", "reaction"}, m), Counted(m, n')) BY <1>0, <1>2, <2>3
    <3> QED BY <3>1 DEF CountSure, n
  <2>4. CASE /\ ~Brings(chan[v], About({"message", "reaction"}, m))
             /\ Fresh(v, m) => page[v].shown[m].count = n
    <3>1. /\ ~Brings(chan'[v], About({"message", "reaction"}, m))
          /\ Fresh(v, m)' => page'[v].shown[m].count = n'
      BY <1>0, <1>2, <1>5, <1>6, <2>4
    <3> QED BY <3>1 DEF CountSure, n
  <2> QED BY <1>8, <2>1, <2>2, <2>3, <2>4 DEF CountSure, n
<1>9. ASSUME ~msgs[m].deleted, TextSure(v, m) PROVE TextSure(v, m)'
  <2>1. CASE Asked(v, "edit", m) BY <1>9, <2>1 DEF TextSure, SameAsked, Writes, Alive, SameRow
  <2>2. CASE Casting("edit", m) BY <1>1, <2>2 DEF TextSure, Writes
  <2>3. CASE LastIn(chan[v], About({"message", "edit"}, m), Edited(m, t))
    <3>1. LastIn(chan'[v], About({"message", "edit"}, m), Edited(m, t')) BY <1>0, <1>3, <2>3
    <3> QED BY <3>1 DEF TextSure, t
  <2>4. CASE /\ ~Brings(chan[v], About({"edit"}, m) \cup Stale(m, t))
             /\ Fresh(v, m) => Cut(page[v].shown[m].text) = t
    <3>1. /\ ~Brings(chan'[v], About({"edit"}, m) \cup Stale(m, t'))
          /\ Fresh(v, m)' => Cut(page'[v].shown[m].text) = t'
      BY <1>0, <1>3, <1>5, <1>6, <2>4
    <3> QED BY <3>1 DEF TextSure, t
  <2> QED BY <1>9, <2>1, <2>2, <2>3, <2>4 DEF TextSure, t
<1>10. ASSUME ~msgs[m].deleted, BackSure(v, m) PROVE BackSure(v, m)'
  BY <1>10 DEF BackSure, SameLook, SameEntry, SameAsked, Writes, Alive, SameRow
<1> QED BY <1>0, <1>7, <1>8, <1>9, <1>10 DEF Sure

LEMMA BubbleSame ==
  ASSUME ChanTypes, NEW v, NEW m, SameHopes(m), SameWay(v, m), SameLook(v, m), m \in DOMAIN page[v].shown,
         BubbleTrue(v, m), m \in DOMAIN msgs' <=> m \in DOMAIN msgs, raced \subseteq raced', lost \subseteq lost'
  PROVE  BubbleTrue(v, m)'
<1>1. Announcing(m)' <=> Announcing(m) BY HopesKept
<1>2. Brings(chan'[v], About({"message"}, m)) <=> Brings(chan[v], About({"message"}, m)) BY WayKept, AboutParts
<1> QED BY <1>1, <1>2 DEF BubbleTrue, SameLook, SameEntry

LEMMA TrueSame ==
  ASSUME ChanTypes, NEW m, SameRow(m), SameHopes(m), \A v \in DOMAIN chan' : SameWay(v, m) \/ chan'[v] = <<>>,
         HandTrue(m), Announcing(m) => Untouched(m)
  PROVE  HandTrue(m)' /\ (Announcing(m)' => Untouched(m)')
<1>1. /\ \A type \in News : Casting(type, m)' <=> Casting(type, m)
      /\ Announcing(m)' <=> Announcing(m)
  BY HopesKept
<1>2. ASSUME NEW v \in Socket, NEW type \in News, TellsOf(hand[v], type, m)' PROVE NewsTrue(Head(hand[v]).ev, m)'
  <2>1. hand'[v] = hand[v] /\ TellsOf(hand[v], type, m) BY <1>2 DEF SameHopes
  <2>2. NewsTrue(Head(hand[v]).ev, m) BY <2>1 DEF HandTrue
  <2> QED BY <2>1, <2>2 DEF NewsTrue, SameRow
<1>3. ASSUME Untouched(m) PROVE Untouched(m)'
  <2>1. ASSUME NEW v \in DOMAIN chan' PROVE ~Brings(chan'[v], About(Writes, m))
    BY <1>3, LastNone, WayKept, AboutParts DEF Untouched, SameWay
  <2> QED BY <1>1, <1>3, <2>1 DEF Untouched, SameRow, News
<1> QED BY <1>1, <1>2, <1>3 DEF HandTrue

(* A step that leaves all of m keeps what is said of m.                    *)
Apart(m) ==
  /\ m \in DOMAIN msgs \cup DOMAIN msgs' => SameRow(m)
  /\ SameHopes(m) /\ raced \subseteq raced' /\ lost \subseteq lost'
  /\ \A v \in DOMAIN chan' : SameWay(v, m) \/ chan'[v] = <<>>
LEMMA ApartKeeps ==
  ASSUME ChanTypes, NEW m, Right(m), Apart(m)
  PROVE  /\ m \in Tracked' => HandTrue(m)' /\ (Announcing(m)' => Untouched(m)')
         /\ \A v \in DOMAIN page' : SameWay(v, m) /\ SameLook(v, m) =>
              /\ m \in DOMAIN page'[v].shown => BubbleTrue(v, m)'
              /\ SameAsked(v, m) /\ m \in Tracked' => Sure(v, m)'
<1>1. m \in Tracked' => m \in Tracked /\ SameRow(m) BY DEF Tracked, SameRow, Apart
<1>2. m \in DOMAIN msgs' <=> m \in DOMAIN msgs BY DEF SameRow, Apart
<1>3. ASSUME m \in Tracked' PROVE HandTrue(m)' /\ (Announcing(m)' => Untouched(m)')
  BY <1>1, <1>3, TrueSame DEF Right, Apart
<1>4. ASSUME NEW v \in DOMAIN page', SameWay(v, m), SameLook(v, m)
      PROVE  /\ m \in DOMAIN page'[v].shown => BubbleTrue(v, m)'
             /\ SameAsked(v, m) /\ m \in Tracked' => Sure(v, m)'
  <2>1. v \in DOMAIN page /\ (m \in DOMAIN page'[v].shown <=> m \in DOMAIN page[v].shown) BY <1>4 DEF SameLook
  <2>2. m \in DOMAIN page[v].shown => BubbleTrue(v, m) BY <2>1 DEF Right
  <2>3. m \in Tracked => Sure(v, m) BY <2>1 DEF Right
  <2> QED BY <1>1, <1>2, <1>4, <2>1, <2>2, <2>3, BubbleSame, SureSame DEF Apart
<1> QED BY <1>3, <1>4

LEMMA ApartRight ==
  ASSUME ChanTypes, NEW m, Right(m), Apart(m),
         \A v \in DOMAIN page' : SameWay(v, m) /\ SameLook(v, m) /\ SameAsked(v, m)
  PROVE  Right(m)'
BY ApartKeeps DEF Right

(* Steps that write nothing, tell of nothing and show nothing new.         *)
Hush(h) == \A type \in News : ~Casts(h, type)
SameShown(v) == v \in DOMAIN page /\ DOMAIN page'[v].shown = DOMAIN page[v].shown
                /\ \A m \in DOMAIN page[v].shown : SameEntry(page[v].shown[m], page'[v].shown[m])
Silent ==
  /\ UNCHANGED <<msgs, reacts, raced, lost>> /\ \A m : Stored(m)' <=> Stored(m)
  /\ \A v \in Socket : hand'[v] = hand[v] \/ (Hush(hand[v]) /\ Hush(hand'[v]))
  /\ \A v \in DOMAIN chan' : v \in DOMAIN chan /\ chan'[v] = chan[v]
  /\ \A v \in DOMAIN page' : SameShown(v)
  /\ \A v \in Socket : \A f \in Range(inbox'[v]) : f \in Range(inbox[v]) \/ f.type \notin News
  /\ \A v \in DOMAIN page' : \A f \in Range(inbox[v]) : f \in Range(inbox'[v]) \/ f.type \notin Writes \/ f.m \notin Alive
LEMMA SilentKeeps ==
  ASSUME Types, Types', Follows, Silent
  PROVE  Follows'
<1>0. ChanTypes BY DEF Types
<1>1. FramesMeant' BY DEF Silent, Follows, FramesMeant, FrameMeant, News, Writes
<1>2. EventsMeant'
  <2>1. \A ev : EventMeant(ev)' <=> EventMeant(ev) BY DEF Silent, EventMeant
  <2>2. ASSUME NEW v \in Socket, NEW type \in Writes, Casts(hand[v], type)' PROVE EventMeant(Head(hand[v]).ev)'
    <3>1. hand'[v] = hand[v] BY <2>2 DEF Silent, Hush, News
    <3>2. EventMeant(Head(hand[v]).ev) BY <2>2, <3>1 DEF Follows, EventsMeant
    <3> QED BY <3>1, <3>2 DEF Silent, EventMeant
  <2>3. ASSUME NEW v \in DOMAIN chan', NEW ev \in Range(chan'[v]), ev.type \in Writes PROVE EventMeant(ev)'
    BY <2>1, <2>3 DEF Silent, Follows, EventsMeant
  <2> QED BY <2>2, <2>3 DEF EventsMeant
<1>3. ASSUME NEW m \in Nat PROVE Right(m)'
  <2>1. SameHopes(m) BY DEF Silent, SameHopes, Hush, TellsOf
  <2>2. \A v \in DOMAIN chan' : SameWay(v, m) BY DEF Silent, SameWay, Aside
  <2>3. Summary(m)' = Summary(m) BY DEF Silent, Summary
  <2>4. Apart(m) BY <2>1, <2>2, <2>3 DEF Silent, Apart, SameRow
  <2>5. ASSUME NEW v \in DOMAIN page' PROVE SameWay(v, m) /\ SameLook(v, m) /\ SameAsked(v, m)
    <3>1. v \in DOMAIN chan' BY DEF Types, ChanTypes, PageTypes
    <3>2. SameLook(v, m) BY DEF Silent, SameLook, SameShown
    <3>3. ASSUME NEW type \in Writes, Asked(v, type, m) PROVE Asked(v, type, m)' \/ m \notin Alive
      <4>1. PICK f \in Range(inbox[v]) : f.type = type /\ f.m = m BY <3>3 DEF Asked
      <4>2. f \in Range(inbox'[v]) \/ m \notin Alive BY <4>1 DEF Silent
      <4> QED BY <4>1, <4>2 DEF Asked
    <3> QED BY <2>2, <3>1, <3>2, <3>3 DEF SameAsked
  <2> QED BY <1>0, <2>4, <2>5, ApartRight DEF Follows
<1> QED BY <1>1, <1>2, <1>3 DEF Follows

LEMMA Hushes ==
  ASSUME NEW s \in Socket
  PROVE  LET i == Who[s] IN
         /\ Hush(<<>>) /\ Hush(Joining1(i)) /\ Hush(Joining2(i)) /\ Hush(Joining3(i)) /\ Hush(Joining4(i))
         /\ Hush(Leaving2(i)) /\ Hush(Leaving3(i)) /\ Hush(Leaving4(i)) /\ Hush(Leaving5(i))
         /\ \A f : Hush(Reports(f)) /\ (f.type \notin News => Hush(Tells(f)))
BY HandShapes, FrameShapes DEF Hush, Casts, Awaits, News, Writes

LEMMA SilentMove ==
  ASSUME Types, NEW s \in Socket, NEW h, NEW b, Move(s, h, b), Hush(hand[s]), Hush(h),
         UNCHANGED <<msgs, reacts, raced, lost, uploads>>, \A v \in DOMAIN chan' : v \in DOMAIN chan /\ chan'[v] = chan[v],
         \A v \in DOMAIN page' : SameShown(v), Range(b) \subseteq Range(inbox[s]),
         \A f \in Range(inbox[s]) : f \in Range(b) \/ f.type \notin Writes \/ f.m \notin Alive
  PROVE  Silent
<1>1. HandTypes BY DEF Types
<1>2. hand'[s] = h /\ inbox'[s] = b /\ \A v \in Socket \ {s} : hand'[v] = hand[v] /\ inbox'[v] = inbox[v]
  BY <1>1, MoveParts
<1>3. \A v \in Socket : \A f \in Range(inbox'[v]) : f \in Range(inbox[v]) \/ f.type \notin News BY <1>2
<1>4. \A v \in DOMAIN page' : v \in Socket BY DEF SameShown, Types, PageTypes
<1>5. ASSUME NEW v \in DOMAIN page', NEW f \in Range(inbox[v])
      PROVE  f \in Range(inbox'[v]) \/ f.type \notin Writes \/ f.m \notin Alive
  <2>1. CASE v = s BY <1>2, <1>5, <2>1
  <2>2. CASE v # s BY <1>2, <1>4, <1>5, <2>2
  <2> QED BY <2>1, <2>2
<1>6. ASSUME NEW v \in Socket PROVE hand'[v] = hand[v] \/ (Hush(hand[v]) /\ Hush(hand'[v]))
  <2>1. CASE v = s
    <3>1. hand'[s] = h BY <1>2
    <3>2. Hush(hand'[s]) BY <3>1
    <3> QED BY <2>1, <3>2
  <2>2. CASE v # s BY <1>2, <2>2
  <2> QED BY <2>1, <2>2
<1>7. \A m : Stored(m)' <=> Stored(m) BY DEF Stored
<1> QED BY <1>3, <1>5, <1>6, <1>7 DEF Silent

LEMMA ShownSame == ASSUME page' = page PROVE \A v \in DOMAIN page' : SameShown(v)
BY DEF SameShown, SameEntry

(* A handler that takes a frame, and neither writes nor tells of messages. *)
LEMMA SilentTell ==
  ASSUME Types, NEW s \in Socket, Begins(s, Arg(s)), Arg(s).type \notin Writes \/ Arg(s).m \notin Alive,
         NEW g, g.type \notin News, Move(s, <<>>, Tail(inbox[s])) \/ Move(s, Tells(g), Tail(inbox[s])),
         UNCHANGED <<msgs, reacts, raced, lost, uploads, chan, page>>
  PROVE  Silent
<1>1. HandTypes BY DEF Types
<1>2. Hush(hand[s]) /\ Hush(<<>>) /\ Hush(Tells(g)) BY Hushes DEF Begins
<1>3. Range(inbox[s]) = {Arg(s)} \cup Range(Tail(inbox[s])) BY <1>1, BoxTail
<1>4. \A v \in DOMAIN chan' : v \in DOMAIN chan /\ chan'[v] = chan[v] OBVIOUS
<1>5. \A v \in DOMAIN page' : SameShown(v) BY ShownSame
<1> QED BY <1>2, <1>3, <1>4, <1>5, SilentMove

LEMMA SilentConsumer ==
  ASSUME Types, NEW s \in Socket,
         Join(s) \/ Leave(s) \/ Snapshot(s) \/ Discard(s) \/ Allow(s) \/ Status(s) \/ ReadMessages(s) \/ PlayMessage(s)
  PROVE  Silent
<1>1. HandTypes /\ PageTypes /\ ChanTypes BY DEF Types
<1>2. UNCHANGED <<msgs, reacts, raced, lost, uploads>>
  BY DEF Join, Leave, Snapshot, Discard, Allow, Status, ReadMessages, PlayMessage, rows, ghosts
<1>3. \A v \in DOMAIN chan' : v \in DOMAIN chan /\ chan'[v] = chan[v]
  <2>1. CASE Discard(s) BY <2>1 DEF Discard, Restrict
  <2> QED BY <2>1 DEF Join, Leave, Snapshot, Allow, Status, ReadMessages, PlayMessage
<1>4. \A v \in DOMAIN page' : SameShown(v)
  <2>1. CASE Snapshot(s) /\ s \in DOMAIN page
    <3> DEFINE q == [page[s] EXCEPT !.members = hash \cup {Who[s]}]
    <3>1. page' = [page EXCEPT ![s] = q] BY <2>1 DEF Snapshot
    <3>2. q.shown = page[s].shown BY <1>1, <2>1, PageAt DEF Pages
    <3> HIDE DEF q
    <3> QED BY <1>1, <2>1, <3>1, <3>2, PageParts DEF SameShown, SameEntry
  <2>2. CASE Status(s) /\ s \in DOMAIN page
    <3>1. PICK q \in Pages(drawn), new \in {"delivered", "sent"} :
            /\ page' = [page EXCEPT ![s] = q] /\ DOMAIN q.shown = DOMAIN page[s].shown
            /\ \A m \in DOMAIN q.shown :
                 q.shown[m] = IF m = Arg(s).m /\ page[s].shown[m].tick # "read"
                              THEN [page[s].shown[m] EXCEPT !.tick = new] ELSE page[s].shown[m]
      BY <2>2, TypesStatus, ZenonT(40)
    <3>2. page[s].shown \in Shown(drawn) BY <1>1, <2>2, PageAt, PageGet
    <3>3. \A m \in DOMAIN page[s].shown : page[s].shown[m] \in Entry BY <3>2, EntryGet
    <3>4. \A e \in Entry : SameEntry(e, [e EXCEPT !.tick = new]) /\ SameEntry(e, e) BY DEF SameEntry, Entry
    <3>5. \A m \in DOMAIN page[s].shown : SameEntry(page[s].shown[m], q.shown[m]) BY <3>1, <3>3, <3>4
    <3>6. DOMAIN page' = DOMAIN page /\ page'[s] = q /\ \A v \in DOMAIN page \ {s} : page'[v] = page[v]
      BY <1>1, <2>2, <3>1, PageParts
    <3>7. ASSUME NEW v \in DOMAIN page' PROVE SameShown(v)
      <4>1. CASE v = s BY <3>1, <3>5, <3>6, <4>1 DEF SameShown
      <4>2. CASE v # s BY <3>6, <4>2 DEF SameShown, SameEntry
      <4> QED BY <4>1, <4>2
    <3> QED BY <3>7
  <2>3. CASE (Snapshot(s) \/ Status(s)) /\ s \notin DOMAIN page BY <2>3, TypesStatus, ShownSame DEF Snapshot
  <2> QED BY <2>1, <2>2, <2>3, ShownSame DEF Join, Leave, Discard, Allow, ReadMessages, PlayMessage
<1>5. \/ \E h : Move(s, h, inbox[s]) /\ Hush(hand[s]) /\ Hush(h)
      \/ \E g : /\ Begins(s, Arg(s)) /\ Arg(s).type \notin Writes /\ g.type \notin News
                /\ Move(s, <<>>, Tail(inbox[s])) \/ Move(s, Tells(g), Tail(inbox[s]))
                /\ UNCHANGED <<chan, page>>
  <2>1. CASE Join(s) BY <2>1, TypesJoin, Hushes DEF JoinMove
  <2>2. CASE Leave(s) BY <2>2, TypesLeave, Hushes DEF LeaveMove
  <2>3. CASE Snapshot(s) BY <2>3, TypesSnapshot, Hushes DEF SnapshotMove
  <2>4. CASE Discard(s) BY <2>4, TypesDiscard, Hushes DEF DiscardMove
  <2>5. CASE Status(s) BY <2>5, TypesStatus, Hushes DEF StatusMove
  <2>6. CASE Allow(s)
    <3>1. TellMove(s, Kinds, Arg(s)) /\ UNCHANGED <<chan, page>> BY <2>6, TypesAllow DEF Allow
    <3> QED BY <3>1 DEF TellMove, Kinds, Writes, News
  <2>7. CASE ReadMessages(s)
    <3>1. TellMove(s, {"read"}, ReadEvent(s)) /\ UNCHANGED <<chan, page>> /\ ReadEvent(s).type = "read"
      BY <2>7, TypesRead DEF ReadMessages
    <3> QED BY <3>1 DEF TellMove, Writes, News
  <2>8. CASE PlayMessage(s)
    <3>1. TellMove(s, {"played"}, Arg(s)) /\ UNCHANGED <<chan, page>> BY <2>8, TypesPlay DEF PlayMessage
    <3> QED BY <3>1 DEF TellMove, Writes, News
  <2> QED BY <2>1, <2>2, <2>3, <2>4, <2>5, <2>6, <2>7, <2>8
<1> QED BY <1>2, <1>3, <1>4, <1>5, SilentMove, SilentTell

(* A write of a message that is not there, or is another's, does nothing;  *)
(* and a consumer that dies was telling nobody anything.                   *)
LEMMA NoZero == ASSUME Types PROVE 0 \notin Alive /\ DOMAIN msgs \subseteq Nat
BY DEF Types, RowTypes, Alive
LEMMA SilentWrite ==
  ASSUME Types, FramesMeant, NEW s \in Socket,
         (Toggle(s) /\ (Arg(s).m \notin Alive \/ Tombstone(s))) \/ (EditMessage(s) /\ ~Mine(s, Arg(s).m)) \/ (DeleteMessage(s) /\ ~Mine(s, Arg(s).m))
  PROVE  Silent
<1>1. HandTypes BY DEF Types
<1>2. UNCHANGED <<msgs, reacts, raced, lost, uploads>> /\ Begins(s, Arg(s))
  BY TypesToggle, TypesEdit, TypesDelete DEF Toggle, EditMessage, DeleteMessage
<1>3. ASSUME ~Tombstone(s) \/ ~Toggle(s) PROVE Silent
  <2>1. Move(s, <<>>, Tail(inbox[s])) /\ UNCHANGED <<chan, page>>
    BY <1>3, TypesToggle, TypesEdit, TypesDelete DEF EditMessage, DeleteMessage
  <2>2. Arg(s).m \notin Alive
    <3>1. CASE Toggle(s) /\ ~Tombstone(s) BY <3>1, TypesEdit, TypesDelete, TypesToggle
    <3>2. CASE EditMessage(s) \/ DeleteMessage(s)
      <4>1. Arg(s) \in Range(inbox[s]) BY <1>1, <1>2, BoxTail
      <4>2. Arg(s).type \in {"edit", "delete"} BY <3>2, TypesEdit, TypesDelete
      <4>3. Arg(s).m # 0 => msgs[Arg(s).m].by = Who[s] BY <4>1, <4>2 DEF FramesMeant, FrameMeant
      <4>4. ~Mine(s, Arg(s).m) BY <3>2, TypesToggle, <4>2
      <4> QED BY <4>3, <4>4, NoZero DEF Mine
    <3> QED BY <1>3, <3>1, <3>2
  <2>3. Hello(Who[s]).type \notin News BY WhoTyped, Events DEF News, Writes
  <2> QED BY <1>2, <2>1, <2>2, <2>3, SilentTell
<1>4. CASE Toggle(s) /\ Tombstone(s)
  <2>1. Crash({s}) BY <1>4, TypesToggle
  <2>2. Crashed({s}) BY <2>1, CrashParts
  <2>3. ASSUME NEW v \in Socket PROVE hand'[v] = hand[v] \/ (Hush(hand[v]) /\ Hush(hand'[v]))
    <3>1. CASE v = s BY <1>2, <2>2, <3>1, Hushes DEF Begins, Crashed
    <3>2. CASE v # s BY <2>2, <3>2 DEF Crashed
    <3> QED BY <3>1, <3>2
  <2>4. \A v \in Socket : v # s => inbox'[v] = inbox[v] BY <2>2 DEF Crashed
  <2>5. inbox'[s] = <<>> BY <2>2 DEF Crashed
  <2>6. \A v \in Socket : \A f \in Range(inbox'[v]) : f \in Range(inbox[v]) \/ f.type \notin News BY <2>4, <2>5, RangeEmpty
  <2>7. \A v \in DOMAIN page' : v \in Socket /\ v # s /\ SameShown(v) BY <2>2 DEF Crashed, SameShown, SameEntry, Types, PageTypes
  <2>8. \A m : Stored(m)' <=> Stored(m) BY <1>2 DEF Stored
  <2> QED BY <1>2, <2>2, <2>3, <2>4, <2>6, <2>7, <2>8 DEF Silent, Crashed
<1> QED BY <1>3, <1>4

LEMMA SilentSays ==
  ASSUME Types, NEW s \in DOMAIN page, NEW q, NEW f, SaysOne(s, q, f), f.type \notin News, q.shown = page[s].shown,
         UNCHANGED <<msgs, reacts, raced, lost, uploads, hand, chan>>
  PROVE  Silent
<1>1. HandTypes /\ PageTypes BY DEF Types
<1>2. s \in Socket BY <1>1, PageAt
<1>3. f \in Event /\ page' = [page EXCEPT ![s] = q] /\ inbox' = [inbox EXCEPT ![s] = Append(inbox[s], f)]
  BY DEF SaysOne, FrameIn, Own
<1>4. Range(Append(inbox[s], f)) = Range(inbox[s]) \cup {f} BY <1>1, <1>2, <1>3, BoxAppend
<1>5. inbox'[s] = Append(inbox[s], f) /\ \A v \in Socket \ {s} : inbox'[v] = inbox[v] BY <1>1, <1>2, <1>3, InboxParts
<1>6. DOMAIN page' = DOMAIN page /\ page'[s] = q /\ \A v \in DOMAIN page \ {s} : page'[v] = page[v]
  BY <1>1, <1>3, PageParts
<1>7. \A v \in Socket : Range(inbox[v]) \subseteq Range(inbox'[v])
                        /\ \A x \in Range(inbox'[v]) : x \in Range(inbox[v]) \/ x.type \notin News BY <1>4, <1>5
<1>8. \A v \in DOMAIN page' : v \in Socket /\ SameShown(v) BY <1>1, <1>6 DEF SameShown, SameEntry, PageTypes
<1>9. \A m : Stored(m)' <=> Stored(m) BY DEF Stored
<1> QED BY <1>7, <1>8, <1>9 DEF Silent

LEMMA SilentPage ==
  ASSUME Types, NEW s \in DOMAIN page,
         \/ \E type \in Kinds : Start(s, type) \/ Stop(s, type)
         \/ \E m \in DOMAIN page[s].shown : Play(s, m)
         \/ SignTimeout(s) \/ CloseSocket(s)
  PROVE  Silent
<1>1. HandTypes /\ PageTypes BY DEF Types
<1>2. s \in Socket BY <1>1, PageAt
<1>3. ASSUME NEW type \in Kinds, Start(s, type) \/ Stop(s, type) PROVE Silent
  <2>1. UNCHANGED <<msgs, reacts, raced, lost, uploads, hand, chan>> BY <1>3 DEF Start, Stop, rows, ghosts
  <2>2. PICK q, f : SaysOne(s, q, f) /\ q.shown = page[s].shown /\ f.type \notin Named \cup {"message"}
    BY <1>3, TypesStart
  <2> QED BY <2>1, <2>2, SilentSays DEF News, Writes, Named
<1>4. ASSUME NEW m \in DOMAIN page[s].shown, Play(s, m) PROVE Silent
  <2>1. UNCHANGED <<msgs, reacts, raced, lost, uploads, hand, chan>> BY <1>4 DEF Play, rows, ghosts
  <2>2. SaysOne(s, page[s], Asks(s, "played", m, 0)) BY <1>4, TypesPlayed
  <2>3. Asks(s, "played", m, 0).type = "played" BY DEF Asks, Ev
  <2> QED BY <2>1, <2>2, <2>3, SilentSays DEF News, Writes
<1>5. CASE SignTimeout(s)
  <2>1. UNCHANGED <<msgs, reacts, raced, lost, uploads, hand, chan, inbox>> BY <1>5 DEF SignTimeout, rows, ghosts
  <2>2. PICK q : page' = [page EXCEPT ![s] = q] /\ q.shown = page[s].shown BY <1>5, TypesSign
  <2>3. DOMAIN page' = DOMAIN page /\ page'[s] = q /\ \A v \in DOMAIN page \ {s} : page'[v] = page[v]
    BY <1>1, <2>2, PageParts
  <2>4. \A v \in DOMAIN page' : SameShown(v) BY <2>2, <2>3 DEF SameShown, SameEntry
  <2>5. \A m : Stored(m)' <=> Stored(m) BY <2>1 DEF Stored
  <2> QED BY <2>1, <2>4, <2>5 DEF Silent
<1>6. CASE CloseSocket(s)
  <2>1. UNCHANGED <<msgs, reacts, raced, lost, uploads, hand, chan>> BY <1>6 DEF CloseSocket, rows, ghosts
  <2>2. /\ DOMAIN page' = DOMAIN page \ {s} /\ \A v \in DOMAIN page' : page'[v] = page[v]
        /\ inbox' = [inbox EXCEPT ![s] = Append(inbox[s], Bye(Who[s]))]
    BY <1>6, TypesClose
  <2>3. Bye(Who[s]) \in Event /\ Bye(Who[s]).type \notin News BY <1>2, WhoTyped, Events DEF News, Writes
  <2>4. Range(Append(inbox[s], Bye(Who[s]))) = Range(inbox[s]) \cup {Bye(Who[s])} BY <1>1, <1>2, <2>3, BoxAppend
  <2>5. inbox'[s] = Append(inbox[s], Bye(Who[s])) /\ \A v \in Socket \ {s} : inbox'[v] = inbox[v]
    BY <1>1, <1>2, <2>2, InboxParts
  <2>6. \A v \in Socket : Range(inbox[v]) \subseteq Range(inbox'[v])
                          /\ \A x \in Range(inbox'[v]) : x \in Range(inbox[v]) \/ x.type \notin News BY <2>3, <2>4, <2>5
  <2>7. \A v \in DOMAIN page' : v \in Socket /\ SameShown(v) BY <1>1, <2>2 DEF SameShown, SameEntry, PageTypes
  <2>8. \A m : Stored(m)' <=> Stored(m) BY <2>1 DEF Stored
  <2> QED BY <2>1, <2>6, <2>7, <2>8 DEF Silent
<1> QED BY <1>3, <1>4, <1>5, <1>6

LEMMA SilentFail ==
  ASSUME Types, NEW s, NEW m, FailMove(s, m)
  PROVE  \A v \in DOMAIN page' : SameShown(v)
<1>1. PageTypes BY DEF Types
<1>2. PICK q \in Pages(drawn) :
        /\ page' = [page EXCEPT ![s] = q] /\ DOMAIN q.shown = DOMAIN page[s].shown
        /\ \A x \in DOMAIN page[s].shown : q.shown[x] = IF x = m THEN Failed(page[s].shown[x]) ELSE page[s].shown[x]
  BY DEF FailMove
<1>3. s \in DOMAIN page BY DEF FailMove
<1>4. page[s].shown \in Shown(drawn) BY <1>1, <1>3, PageAt, PageGet
<1>5. \A x \in DOMAIN page[s].shown : page[s].shown[x] \in Entry BY <1>4, EntryGet
<1>6. \A e \in Entry : SameEntry(e, Failed(e)) /\ SameEntry(e, e) BY DEF SameEntry, Failed, Entry
<1>7. \A x \in DOMAIN page[s].shown : SameEntry(page[s].shown[x], q.shown[x]) BY <1>2, <1>5, <1>6
<1>8. DOMAIN page' = DOMAIN page /\ page'[s] = q /\ \A v \in DOMAIN page \ {s} : page'[v] = page[v]
  BY <1>1, <1>2, <1>3, PageParts
<1>9. ASSUME NEW v \in DOMAIN page' PROVE SameShown(v)
  <2>1. CASE v = s BY <1>2, <1>3, <1>7, <1>8, <2>1 DEF SameShown
  <2>2. CASE v # s BY <1>8, <2>2 DEF SameShown, SameEntry
  <2> QED BY <2>1, <2>2
<1> QED BY <1>9

LEMMA SilentRest ==
  ASSUME Types,
         \/ Fade \/ UNCHANGED vars \/ \E m \in DOMAIN uploads : Refuse(m)
         \/ \E s \in DOMAIN page : \E m \in DOMAIN page[s].shown : LoseAnswer(s, m)
  PROVE  Silent
<1>1. UNCHANGED <<msgs, reacts, raced, lost, hand, chan, inbox>> BY DEF Fade, vars, Refuse, LoseAnswer, rows, ghosts
<1>2. \A v \in DOMAIN page' : SameShown(v)
  BY ShownSame, SilentFail, TypesRefuse, TypesLoseAnswer DEF Fade, vars
<1>3. \A m : Stored(m)' <=> Stored(m)
  <2>1. CASE UNCHANGED uploads BY <2>1 DEF Stored
  <2>2. ASSUME NEW x \in DOMAIN uploads, Refuse(x) PROVE \A m : Stored(m)' <=> Stored(m)
    <3>1. ~uploads[x].stored BY <2>2 DEF Refuse
    <3>2. DOMAIN uploads' = DOMAIN uploads \ {x} /\ \A y \in DOMAIN uploads' : uploads'[y] = uploads[y] BY <2>2, TypesRefuse
    <3> QED BY <3>1, <3>2 DEF Stored
  <2> QED BY <2>1, <2>2 DEF Fade, vars, LoseAnswer
<1> QED BY <1>1, <1>2, <1>3 DEF Silent

(* What frames and events mean is kept by steps that add only such.        *)
LEMMA MeantStep ==
  ASSUME FramesMeant, EventsMeant, DOMAIN msgs \subseteq DOMAIN msgs',
         \A m \in DOMAIN msgs : msgs'[m].by = msgs[m].by /\ (msgs[m].deleted => msgs'[m].deleted),
         \A v \in Socket : \A f \in Range(inbox'[v]) : f \in Range(inbox[v]) \/ FrameMeant(v, f)',
         \A v \in Socket : hand'[v] = hand[v] \/ \A type \in Writes : Casts(hand[v], type)' => EventMeant(Head(hand[v]).ev)',
         \A v \in DOMAIN chan' : \A ev \in Range(chan'[v]) :
           (v \in DOMAIN chan /\ ev \in Range(chan[v])) \/ (ev.type \in Writes => EventMeant(ev)')
  PROVE  FramesMeant' /\ EventsMeant'
<1>1. ASSUME NEW v \in Socket, NEW f \in Range(inbox'[v]) PROVE FrameMeant(v, f)'
  <2>1. CASE f \in Range(inbox[v])
    <3>1. FrameMeant(v, f) BY <2>1 DEF FramesMeant
    <3> QED BY <3>1 DEF FrameMeant
  <2> QED BY <1>1, <2>1
<1>2. \A ev : EventMeant(ev) => EventMeant(ev)' BY DEF EventMeant
<1>3. ASSUME NEW v \in Socket, NEW type \in Writes, Casts(hand[v], type)' PROVE EventMeant(Head(hand[v]).ev)'
  <2>1. CASE hand'[v] = hand[v]
    <3>1. EventMeant(Head(hand[v]).ev) BY <1>3, <2>1 DEF EventsMeant
    <3> QED BY <2>1, <3>1 DEF EventMeant
  <2> QED BY <1>3, <2>1
<1>4. ASSUME NEW v \in DOMAIN chan', NEW ev \in Range(chan'[v]), ev.type \in Writes PROVE EventMeant(ev)'
  BY <1>2, <1>4 DEF EventsMeant
<1> QED BY <1>1, <1>3, <1>4 DEF FramesMeant, EventsMeant

(* A page that is new has all before it: it will be sent the history.      *)
LEMMA FollowsConnect ==
  ASSUME Types, Types', Follows, NEW s \in Socket, Connect(s)
  PROVE  Follows'
<1>1. HandTypes /\ ChanTypes /\ PageTypes BY DEF Types
<1>2. UNCHANGED <<msgs, reacts, raced, lost, uploads, inbox>> /\ st[s] = "new" BY DEF Connect, rows, ghosts
<1>3. s \notin DOMAIN chan /\ s \notin DOMAIN page /\ hand[s] = <<>>
  BY <1>1, <1>2 DEF ChanTypes, PageTypes, HandTypes, Fine
<1>4. hand'[s] = Joining1(Who[s]) /\ \A v \in Socket \ {s} : hand'[v] = hand[v]
  BY <1>1, HandParts DEF Connect, Joining1
<1>5. /\ DOMAIN chan' = DOMAIN chan \cup {s} /\ chan'[s] = <<>> /\ \A v \in DOMAIN chan : chan'[v] = chan[v]
      /\ DOMAIN page' = DOMAIN page \cup {s} /\ page'[s] = NewPage /\ \A v \in DOMAIN page : page'[v] = page[v]
  BY <1>3 DEF Connect, Put
<1>6. Hush(hand[s]) /\ Hush(hand'[s])
  <2>1. Hush(<<>>) /\ Hush(Joining1(Who[s])) BY Hushes
  <2> QED BY <1>3, <1>4, <2>1
<1>7. \A v \in Socket : hand'[v] = hand[v] \/ (Hush(hand[v]) /\ Hush(hand'[v]))
  <2>1. \A v \in Socket : v = s \/ hand'[v] = hand[v] BY <1>4
  <2> QED BY <1>6, <2>1
<1>8. FramesMeant' /\ EventsMeant'
  <2>1. \A v \in Socket : hand'[v] = hand[v] \/ \A type \in Writes : Casts(hand[v], type)' => EventMeant(Head(hand[v]).ev)'
    BY <1>7 DEF Hush, News
  <2>2. \A v \in DOMAIN chan' : \A ev \in Range(chan'[v]) : v \in DOMAIN chan /\ ev \in Range(chan[v]) BY <1>5, RangeEmpty
  <2> QED BY <1>2, <2>1, <2>2, MeantStep DEF Follows
<1>9. ASSUME NEW m \in Nat PROVE Right(m)'
  <2>1. SameHopes(m) BY <1>2, <1>7 DEF SameHopes, Hush, TellsOf, Stored
  <2>2. \A v \in DOMAIN chan : SameWay(v, m) BY <1>5 DEF SameWay, Aside
  <2>3. Summary(m)' = Summary(m) BY <1>2 DEF Summary
  <2>4. Apart(m) BY <1>2, <1>5, <2>1, <2>2, <2>3 DEF Apart, SameRow
  <2>5. ASSUME NEW v \in DOMAIN page PROVE SameWay(v, m) /\ SameLook(v, m) /\ SameAsked(v, m)
    <3>1. v \in DOMAIN chan BY <1>1 DEF ChanTypes, PageTypes
    <3> QED BY <1>2, <1>5, <2>2, <3>1 DEF SameLook, SameEntry, SameAsked, Asked
  <2>6. DOMAIN page'[s].shown = {}
    <3>1. page'[s].shown = <<>> BY <1>5 DEF NewPage
    <3> QED BY <3>1
  <2>7. Sure(s, m)' BY <1>5, <2>6, LastNone DEF Sure, GoneSure, CountSure, TextSure, BackSure, Fresh
  <2> QED BY <1>1, <1>5, <2>4, <2>5, <2>6, <2>7, ApartKeeps DEF Right, Follows
<1> QED BY <1>8, <1>9 DEF Follows

(* The history shows each message that is there as the rows have it.       *)
LEMMA FollowsHistory ==
  ASSUME Types, Types', Follows, NEW s \in Socket, History(s)
  PROVE  Follows'
<1>1. HandTypes /\ ChanTypes /\ PageTypes /\ RowTypes BY DEF Types
<1>2. UNCHANGED <<msgs, reacts, raced, lost, uploads, chan>> BY DEF History, rows, ghosts
<1>3. /\ hand[s] = Joining1(Who[s])
      /\ \E b : Move(s, Joining2(Who[s]), b) /\ Range(inbox[s]) \subseteq Range(b)
                /\ \A f \in Range(b) : f \in Range(inbox[s]) \/ f.type = "read"
      /\ DOMAIN page' = DOMAIN page /\ \A v \in DOMAIN page \ {s} : page'[v] = page[v]
      /\ s \in DOMAIN page =>
           /\ DOMAIN page'[s].shown = Alive
           /\ \A m \in Alive : page'[s].shown[m] = FromServer(s, msgs[m].by, msgs[m].text, Summary(m))
  BY HistoryShows
<1>4. /\ hand'[s] = Joining2(Who[s]) /\ \A v \in Socket \ {s} : hand'[v] = hand[v]
      /\ \A v \in Socket : Range(inbox[v]) \subseteq Range(inbox'[v])
      /\ \A v \in Socket : \A f \in Range(inbox'[v]) : f \in Range(inbox[v]) \/ f.type = "read"
  BY <1>1, <1>3, MoveParts
<1>5. Hush(hand[s]) /\ Hush(hand'[s])
  <2>1. Hush(Joining1(Who[s])) /\ Hush(Joining2(Who[s])) BY Hushes
  <2> QED BY <1>3, <1>4, <2>1
<1>6. \A v \in Socket : hand'[v] = hand[v] \/ (Hush(hand[v]) /\ Hush(hand'[v]))
  <2>1. \A v \in Socket : v = s \/ hand'[v] = hand[v] BY <1>4
  <2> QED BY <1>5, <2>1
<1>7. FramesMeant' /\ EventsMeant'
  <2>1. \A v \in Socket : hand'[v] = hand[v] \/ \A type \in Writes : Casts(hand[v], type)' => EventMeant(Head(hand[v]).ev)'
    BY <1>6 DEF Hush, News
  <2>2. \A v, f : f.type = "read" => FrameMeant(v, f)' BY DEF FrameMeant
  <2> QED BY <1>2, <1>4, <2>1, <2>2, MeantStep DEF Follows
<1>8. ASSUME NEW m \in Nat PROVE Right(m)'
  <2>1. SameHopes(m) BY <1>2, <1>6 DEF SameHopes, Hush, TellsOf, Stored
  <2>2. \A v \in DOMAIN chan : SameWay(v, m) BY <1>2 DEF SameWay, Aside
  <2>3. Summary(m)' = Summary(m) BY <1>2 DEF Summary
  <2>4. Apart(m) BY <1>2, <2>1, <2>2, <2>3 DEF Apart, SameRow
  <2>5. \A v \in DOMAIN page : v \in Socket /\ v \in DOMAIN chan /\ SameWay(v, m) /\ SameAsked(v, m)
    BY <1>1, <1>4, <2>2 DEF ChanTypes, PageTypes, SameAsked, Asked
  <2>6. \A v \in DOMAIN page \ {s} : SameLook(v, m) BY <1>3 DEF SameLook, SameEntry
  <2>7. ASSUME s \in DOMAIN page PROVE (m \in DOMAIN page[s].shown => BubbleTrue(s, m))' /\ (m \in Tracked => Sure(s, m))'
    <3> DEFINE e == page'[s].shown[m]
    <3>1. m \in Alive => /\ m \in DOMAIN page'[s].shown /\ Cut(e.text) = msgs[m].text /\ ~e.deleted
                         /\ e.count = Summary(m) /\ e.bubble = "none"
      <4>2. ASSUME m \in Alive PROVE m \in DOMAIN page'[s].shown /\ e = FromServer(s, msgs[m].by, msgs[m].text, Summary(m))
        BY <1>3, <2>7, <4>2
      <4> HIDE DEF e
      <4>4. ASSUME m \in Alive PROVE e.text = msgs[m].text /\ ~e.deleted /\ e.count = Summary(m) /\ e.bubble = "none"
        BY <4>2, <4>4 DEF FromServer
      <4>5. m \in Alive => Cut(msgs[m].text) = msgs[m].text BY RowCut DEF Alive
      <4> QED BY <4>2, <4>4, <4>5
    <3>2. m \in DOMAIN page'[s].shown <=> m \in Alive BY <1>3, <2>7
    <3> HIDE DEF e
    <3>3. (m \in DOMAIN page[s].shown => BubbleTrue(s, m))' BY <1>2, <3>1, <3>2 DEF BubbleTrue, e, Alive
    <3>4. ASSUME m \in Tracked PROVE Sure(s, m)'
      <4>1. Sure(s, m) BY <2>7, <3>4 DEF Right, Follows
      <4>2. (\A type \in News : Casting(type, m)' <=> Casting(type, m)) /\ (Announcing(m)' <=> Announcing(m)) BY <2>1, HopesKept
      <4>3. m \in Alive <=> ~msgs[m].deleted BY <3>4 DEF Tracked, Alive
      <4>4. ASSUME msgs[m].deleted PROVE GoneSure(s, m)'
        BY <1>2, <3>2, <4>1, <4>2, <4>3, <4>4 DEF Sure, GoneSure, Fresh, News, Writes
      <4>5. ASSUME m \in Alive PROVE CountSure(s, m)'
        <5>1. Asked(s, "reaction", m) => Asked(s, "reaction", m)' BY <2>5, <2>7, <4>5 DEF SameAsked, Writes
        <5>2. CountSure(s, m) BY <4>1, <4>3, <4>5 DEF Sure
        <5> QED BY <1>2, <2>3, <3>1, <4>2, <4>5, <5>1, <5>2 DEF CountSure, News, Writes, e
      <4>6. ASSUME m \in Alive PROVE TextSure(s, m)'
        <5>1. Asked(s, "edit", m) => Asked(s, "edit", m)' BY <2>5, <2>7, <4>6 DEF SameAsked, Writes
        <5>2. TextSure(s, m) BY <4>1, <4>3, <4>6 DEF Sure
        <5> QED BY <1>2, <3>1, <4>2, <4>6, <5>1, <5>2 DEF TextSure, News, Writes, e
      <4>7. ASSUME m \in Alive PROVE BackSure(s, m)' BY <3>1, <4>7 DEF BackSure, e
      <4> QED BY <1>2, <4>3, <4>4, <4>5, <4>6, <4>7 DEF Sure
    <3> QED BY <1>2, <3>3, <3>4 DEF Tracked
  <2>8. Right(m) BY DEF Follows
  <2> QED BY <1>1, <1>3, <2>4, <2>5, <2>6, <2>7, <2>8, ApartKeeps DEF Right
<1> QED BY <1>7, <1>8 DEF Follows

(* A restart leaves no page, and nobody who could tell it anything.        *)
LEMMA FollowsRestart ==
  ASSUME Types, Types', Follows, Restart
  PROVE  Follows'
<1>1. DOMAIN page' = {} /\ DOMAIN chan' = {} /\ DOMAIN uploads' = {} BY TypesRestart
<1>2. \A v \in Socket : hand'[v] = <<>> /\ inbox'[v] = <<>>
  <2>1. ASSUME NEW v \in Socket PROVE hand'[v] = <<>> /\ inbox'[v] = <<>>
    <3>1. CASE v \in Living BY <3>1, TypesRestart
    <3>2. CASE v \notin Living
      <4>1. Fine(drawn, v, st[v], hand[v], inbox[v]) BY DEF Types, HandTypes
      <4>2. hand[v] = <<>> /\ inbox[v] = <<>> BY <3>2, <4>1 DEF Fine, States, Living
      <4> QED BY <3>2, <4>2, TypesRestart
    <3> QED BY <3>1, <3>2
  <2> QED BY <2>1
<1>3. \A v \in Socket, type \in News : ~Casts(hand[v], type)' BY <1>2 DEF Casts, Awaits
<1>4. FramesMeant' BY <1>2, RangeEmpty DEF FramesMeant
<1>5. EventsMeant' BY <1>1, <1>3 DEF EventsMeant, News
<1>6. ASSUME NEW m \in Nat PROVE Right(m)'
  <2>1. ~Stored(m)' BY <1>1 DEF Stored
  <2>2. \A type \in News : \A v \in Socket : ~TellsOf(hand[v], type, m)' BY <1>3 DEF TellsOf
  <2>3. "message" \in News BY DEF News
  <2>4. ~Announcing(m)' BY <2>1, <2>2, <2>3 DEF Announcing, Casting
  <2>5. HandTrue(m)' BY <2>2 DEF HandTrue
  <2> QED BY <1>1, <2>4, <2>5 DEF Right
<1> QED BY <1>4, <1>5, <1>6 DEF Follows

(* An event ev that tells of m goes to every channel.  Its handler, or its *)
(* upload, has then told of m.                                             *)
Heralds(ev, m) ==
  /\ ev \in Event /\ ev.type \in News /\ ev.m = m /\ (m \in Tracked => NewsTrue(ev, m))
  /\ IF ev.type = "message" THEN Announcing(m) ELSE Casting(ev.type, m)
  /\ UNCHANGED <<msgs, reacts, raced, lost, page>>
  /\ DOMAIN chan' = DOMAIN chan /\ \A v \in DOMAIN chan : chan'[v] = Append(chan[v], ev)
  /\ \A v \in Socket : hand'[v] = hand[v] \/ \A type \in News : ~TellsOf(hand[v], type, m)'
  /\ \A type \in News : Casting(type, m) => Casting(type, m)' \/ type = ev.type
  /\ Stored(m)' => Stored(m)
  /\ Announcing(m) => Announcing(m)' \/ ev.type = "message"
  /\ \A v \in DOMAIN page : SameAsked(v, m)

LEMMA HeraldsKeep ==
  ASSUME ChanTypes, NEW ev, NEW m, Heralds(ev, m), NEW v \in DOMAIN chan, NEW E \in SUBSET About(News, m), NEW G \in SUBSET E
  PROVE  /\ Brings(chan'[v], E) <=> Brings(chan[v], E) \/ ev \in E
         /\ ev \notin E /\ LastIn(chan[v], E, G) => LastIn(chan'[v], E, G)
         /\ ev \in G => LastIn(chan'[v], E, G)
<1>1. chan[v] \in Seq(Event) BY Queued
<1>2. ev \in Event /\ chan'[v] = Append(chan[v], ev) BY DEF Heralds
<1> QED BY <1>1, <1>2, LastAppend

LEMMA HeraldsHand ==
  ASSUME NEW ev, NEW m, Heralds(ev, m), m \in Tracked, HandTrue(m), Announcing(m) => Untouched(m), ChanTypes
  PROVE  HandTrue(m)' /\ (Announcing(m)' => Untouched(m)')
<1>1. ASSUME NEW v \in Socket, NEW type \in News, TellsOf(hand[v], type, m)'
      PROVE  NewsTrue(Head(hand[v]).ev, m)' /\ TellsOf(hand[v], type, m)
  <2>1. hand'[v] = hand[v] BY <1>1 DEF Heralds
  <2>2. TellsOf(hand[v], type, m) BY <1>1, <2>1
  <2>3. NewsTrue(Head(hand[v]).ev, m) BY <2>2 DEF HandTrue
  <2>4. Summary(m)' = Summary(m) BY DEF Heralds, Summary
  <2> QED BY <2>1, <2>2, <2>3, <2>4 DEF NewsTrue, Heralds
<1>2. \A type \in News : Casting(type, m)' => Casting(type, m) BY <1>1 DEF Casting
<1>3. Announcing(m)' => Announcing(m) BY <1>2 DEF Announcing, News, Heralds
<1>4. ASSUME Announcing(m)' PROVE Untouched(m)'
  <2>1. Untouched(m) BY <1>3, <1>4
  <2>2. ev.type = "message" BY <2>1 DEF Heralds, Untouched, News
  <2>3. ev \notin About(Writes, m) BY <2>2 DEF About, Writes
  <2>4. ASSUME NEW v \in DOMAIN chan' PROVE ~Brings(chan'[v], About(Writes, m))
    <3>1. v \in DOMAIN chan /\ ~Brings(chan[v], About(Writes, m)) BY <2>1 DEF Untouched, Heralds
    <3>2. PICK B \in SUBSET About(News, m) : B = About(Writes, m) BY AboutParts
    <3>3. Brings(chan'[v], B) <=> Brings(chan[v], B) \/ ev \in B BY <3>1, HeraldsKeep
    <3> QED BY <2>3, <3>1, <3>2, <3>3
  <2>5. Summary(m)' = Summary(m) BY DEF Heralds, Summary
  <2> QED BY <1>2, <2>1, <2>4, <2>5 DEF Untouched, News, Heralds
<1> QED BY <1>1, <1>4 DEF HandTrue

LEMMA HeraldsSure ==
  ASSUME ChanTypes, NEW ev, NEW m, Heralds(ev, m), m \in Tracked, Announcing(m) => Untouched(m),
         NEW v \in DOMAIN page, v \in DOMAIN chan, Sure(v, m)
  PROVE  Sure(v, m)'
<1> DEFINE n == Summary(m)
           t == msgs[m].text
<1>0. n' = n /\ t' = t /\ msgs' = msgs /\ page' = page BY DEF Heralds, Summary
<1>1. /\ ev \in Event /\ ev.type \in News /\ ev.m = m /\ NewsTrue(ev, m)
      /\ \A type \in News : Casting(type, m) => Casting(type, m)' \/ type = ev.type
      /\ Announcing(m) => Announcing(m)' \/ ev.type = "message"
      /\ \A type \in Writes : Asked(v, type, m) /\ m \in Alive => Asked(v, type, m)'
  BY DEF Heralds, SameAsked
<1>2. ev.type = "message" => Untouched(m) BY DEF Heralds
<1>3. \A types \in SUBSET News : ev \in About(types, m) <=> ev.type \in types BY <1>1 DEF About
<1>4. /\ Brings(chan'[v], About({"message", "reaction"}, m)) <=>
           Brings(chan[v], About({"message", "reaction"}, m)) \/ ev \in About({"message", "reaction"}, m)
      /\ ev \notin About({"message", "reaction"}, m) /\ LastIn(chan[v], About({"message", "reaction"}, m), Counted(m, n))
           => LastIn(chan'[v], About({"message", "reaction"}, m), Counted(m, n))
      /\ ev \in Counted(m, n) => LastIn(chan'[v], About({"message", "reaction"}, m), Counted(m, n))
  <2>1. About({"message", "reaction"}, m) \in SUBSET About(News, m) BY AboutParts
  <2>2. About({"message", "reaction"}, m) \in SUBSET About(News, m) /\ Counted(m, n) \in SUBSET About({"message", "reaction"}, m) BY AboutParts
  <2>3. PICK B \in SUBSET About(News, m) : B = About({"message", "reaction"}, m) BY <2>1
  <2>4. PICK E \in SUBSET About(News, m) : E = About({"message", "reaction"}, m) BY <2>2
  <2>5. PICK G \in SUBSET E : G = Counted(m, n) BY <2>2, <2>4
  <2>6. Brings(chan'[v], B) <=> Brings(chan[v], B) \/ ev \in B BY HeraldsKeep
  <2>7. /\ ev \notin E /\ LastIn(chan[v], E, G) => LastIn(chan'[v], E, G)
        /\ ev \in G => LastIn(chan'[v], E, G)
    BY HeraldsKeep
  <2> QED BY <2>3, <2>4, <2>5, <2>6, <2>7
<1>5. /\ Brings(chan'[v], About({"edit"}, m) \cup Stale(m, t)) <=>
           Brings(chan[v], About({"edit"}, m) \cup Stale(m, t)) \/ ev \in About({"edit"}, m) \cup Stale(m, t)
      /\ ev \notin About({"message", "edit"}, m) /\ LastIn(chan[v], About({"message", "edit"}, m), Edited(m, t))
           => LastIn(chan'[v], About({"message", "edit"}, m), Edited(m, t))
      /\ ev \in Edited(m, t) => LastIn(chan'[v], About({"message", "edit"}, m), Edited(m, t))
  <2>1. About({"edit"}, m) \cup Stale(m, t) \in SUBSET About(News, m) BY AboutParts
  <2>2. About({"message", "edit"}, m) \in SUBSET About(News, m) /\ Edited(m, t) \in SUBSET About({"message", "edit"}, m) BY AboutParts
  <2>3. PICK B \in SUBSET About(News, m) : B = About({"edit"}, m) \cup Stale(m, t) BY <2>1
  <2>4. PICK E \in SUBSET About(News, m) : E = About({"message", "edit"}, m) BY <2>2
  <2>5. PICK G \in SUBSET E : G = Edited(m, t) BY <2>2, <2>4
  <2>6. Brings(chan'[v], B) <=> Brings(chan[v], B) \/ ev \in B BY HeraldsKeep
  <2>7. /\ ev \notin E /\ LastIn(chan[v], E, G) => LastIn(chan'[v], E, G)
        /\ ev \in G => LastIn(chan'[v], E, G)
    BY HeraldsKeep
  <2> QED BY <2>3, <2>4, <2>5, <2>6, <2>7
<1>6. /\ Brings(chan'[v], About({"message"}, m)) <=> Brings(chan[v], About({"message"}, m)) \/ ev \in About({"message"}, m)
      /\ ev \notin About({"message", "delete"}, m) /\ LastIn(chan[v], About({"message", "delete"}, m), About({"delete"}, m))
           => LastIn(chan'[v], About({"message", "delete"}, m), About({"delete"}, m))
      /\ ev \in About({"delete"}, m) => LastIn(chan'[v], About({"message", "delete"}, m), About({"delete"}, m))
  <2>1. About({"message"}, m) \in SUBSET About(News, m) BY AboutParts
  <2>2. About({"message", "delete"}, m) \in SUBSET About(News, m) /\ About({"delete"}, m) \in SUBSET About({"message", "delete"}, m) BY AboutParts
  <2>3. PICK B \in SUBSET About(News, m) : B = About({"message"}, m) BY <2>1
  <2>4. PICK E \in SUBSET About(News, m) : E = About({"message", "delete"}, m) BY <2>2
  <2>5. PICK G \in SUBSET E : G = About({"delete"}, m) BY <2>2, <2>4
  <2>6. Brings(chan'[v], B) <=> Brings(chan[v], B) \/ ev \in B BY HeraldsKeep
  <2>7. /\ ev \notin E /\ LastIn(chan[v], E, G) => LastIn(chan'[v], E, G)
        /\ ev \in G => LastIn(chan'[v], E, G)
    BY HeraldsKeep
  <2> QED BY <2>3, <2>4, <2>5, <2>6, <2>7
<1>7. Fresh(v, m)' <=> Fresh(v, m) BY <1>0 DEF Fresh
<1>8. ev.type \in {"message", "reaction", "edit", "delete"} BY <1>1 DEF News, Writes
<1>9. m \in Alive <=> ~msgs[m].deleted BY DEF Tracked, Alive
<1>10. /\ "reaction" \in Writes /\ "edit" \in Writes /\ "delete" \in Writes /\ Writes \subseteq News
       /\ {"message", "reaction"} \in SUBSET News /\ {"message", "edit"} \in SUBSET News
       /\ {"message", "delete"} \in SUBSET News /\ {"message"} \in SUBSET News /\ {"edit"} \in SUBSET News
       /\ {"delete"} \in SUBSET News
  BY DEF News, Writes
<1>11. /\ ev.type = "message" => ~msgs[m].deleted /\ n = 0 /\ ~Casting("edit", m)
                                 /\ ~Brings(chan[v], About(Writes, m)) /\ Cut(ev.val) = t
       /\ ev.type = "reaction" => ev.val = n
       /\ ev.type = "edit" => Cut(ev.val) = t
  BY <1>1, <1>2, <1>10 DEF Untouched, NewsTrue
<1> HIDE DEF n, t
<1>12. ASSUME msgs[m].deleted, GoneSure(v, m) PROVE GoneSure(v, m)'
  <2>1. ev.type # "message" BY <1>11, <1>12
  <2>2. CASE ev.type = "delete" BY <1>3, <1>6, <1>10, <2>2 DEF GoneSure
  <2>3. CASE ev.type # "delete" BY <1>1, <1>3, <1>6, <1>7, <1>10, <1>12, <2>1, <2>3 DEF GoneSure
  <2> QED BY <2>2, <2>3
<1>13. ASSUME ~msgs[m].deleted, CountSure(v, m) PROVE CountSure(v, m)'
  <2>1. CASE ev.type \in {"message", "reaction"}
    <3>1. ev \in Counted(m, n) BY <1>3, <1>10, <1>11, <2>1 DEF Counted
    <3>2. LastIn(chan'[v], About({"message", "reaction"}, m), Counted(m, n')) BY <1>0, <1>4, <3>1
    <3> QED BY <3>2 DEF CountSure, n
  <2>2. CASE ev.type \notin {"message", "reaction"}
    <3>1. ev \notin About({"message", "reaction"}, m) BY <1>3, <1>10, <2>2
    <3>2. CASE Asked(v, "reaction", m) \/ Casting("reaction", m) \/ Announcing(m)
      BY <1>1, <1>9, <1>10, <1>13, <2>2, <3>2 DEF CountSure
    <3>3. CASE LastIn(chan[v], About({"message", "reaction"}, m), Counted(m, n))
      <4>1. LastIn(chan'[v], About({"message", "reaction"}, m), Counted(m, n')) BY <1>0, <1>4, <3>1, <3>3
      <4> QED BY <4>1 DEF CountSure, n
    <3>4. CASE ~Brings(chan[v], About({"message", "reaction"}, m)) /\ (Fresh(v, m) => page[v].shown[m].count = n)
      <4>1. ~Brings(chan'[v], About({"message", "reaction"}, m)) /\ (Fresh(v, m)' => page'[v].shown[m].count = n')
        BY <1>0, <1>4, <1>7, <3>1, <3>4
      <4> QED BY <4>1 DEF CountSure, n
    <3> QED BY <1>13, <3>2, <3>3, <3>4 DEF CountSure, n
  <2> QED BY <2>1, <2>2
<1>14. ASSUME ~msgs[m].deleted, TextSure(v, m) PROVE TextSure(v, m)'
  <2>1. CASE ev.type = "edit"
    <3>1. ev \in Edited(m, t) BY <1>3, <1>10, <1>11, <2>1 DEF Edited
    <3>2. LastIn(chan'[v], About({"message", "edit"}, m), Edited(m, t')) BY <1>0, <1>5, <3>1
    <3> QED BY <3>2 DEF TextSure, t
  <2>2. CASE ev.type # "edit"
    <3>1. ev \notin About({"edit"}, m) \cup Stale(m, t) BY <1>3, <1>10, <1>11, <2>2 DEF Stale, About
    <3>2. CASE Asked(v, "edit", m) \/ Casting("edit", m)
      BY <1>1, <1>9, <1>10, <1>14, <2>2, <3>2 DEF TextSure
    <3>3. CASE LastIn(chan[v], About({"message", "edit"}, m), Edited(m, t))
      <4>1. Brings(chan[v], About(Writes, m))
        <5>1. Edited(m, t) \subseteq About(Writes, m) BY DEF Edited, About, Writes
        <5> QED BY <3>3, <5>1 DEF LastIn, Brings
      <4>2. ev \notin About({"message", "edit"}, m) BY <1>3, <1>10, <1>11, <2>2, <4>1
      <4>3. LastIn(chan'[v], About({"message", "edit"}, m), Edited(m, t')) BY <1>0, <1>5, <3>3, <4>2
      <4> QED BY <4>3 DEF TextSure, t
    <3>4. CASE ~Brings(chan[v], About({"edit"}, m) \cup Stale(m, t)) /\ (Fresh(v, m) => Cut(page[v].shown[m].text) = t)
      <4>1. ~Brings(chan'[v], About({"edit"}, m) \cup Stale(m, t')) /\ (Fresh(v, m)' => Cut(page'[v].shown[m].text) = t')
        BY <1>0, <1>5, <1>7, <3>1, <3>4
      <4> QED BY <4>1 DEF TextSure, t
    <3> QED BY <1>14, <3>2, <3>3, <3>4 DEF TextSure, t
  <2> QED BY <2>1, <2>2
<1>15. ASSUME ~msgs[m].deleted, BackSure(v, m) PROVE BackSure(v, m)'
  BY <1>0, <1>1, <1>9, <1>10, <1>15 DEF BackSure
<1> QED BY <1>0, <1>12, <1>13, <1>14, <1>15 DEF Sure

LEMMA HeraldsRight ==
  ASSUME ChanTypes, DOMAIN page \subseteq DOMAIN chan, NEW ev, NEW m, Heralds(ev, m), Right(m)
  PROVE  Right(m)'
<1>1. Tracked' = Tracked /\ page' = page BY DEF Heralds, Tracked
<1>2. m \in Tracked => HandTrue(m)' /\ (Announcing(m)' => Untouched(m)') BY HeraldsHand DEF Right
<1>3. ASSUME NEW v \in DOMAIN page, m \in DOMAIN page[v].shown PROVE BubbleTrue(v, m)'
  <2>1. BubbleTrue(v, m) BY <1>3 DEF Right
  <2>2. Brings(chan'[v], About({"message"}, m)) <=> Brings(chan[v], About({"message"}, m)) \/ ev \in About({"message"}, m)
    BY HeraldsKeep, AboutParts
  <2>3. ev.type = "message" => ev \in About({"message"}, m) BY DEF Heralds, About
  <2>4. Announcing(m) => Announcing(m)' \/ Brings(chan'[v], About({"message"}, m)) BY <2>2, <2>3 DEF Heralds
  <2> QED BY <1>1, <2>1, <2>2, <2>4 DEF BubbleTrue, Heralds
<1>4. ASSUME NEW v \in DOMAIN page, m \in Tracked PROVE Sure(v, m)'
  <2>1. Sure(v, m) BY <1>4 DEF Right
  <2> QED BY <1>4, <2>1, HeraldsSure DEF Right
<1> QED BY <1>1, <1>2, <1>3, <1>4 DEF Right

(* A handler tells the group: of a write or of a message, or of nothing    *)
(* that concerns the messages.                                             *)
LEMMA CastAsked ==
  ASSUME HandTypes, NEW s \in Socket, NEW ev, NEW h, NEW b, CastCase(s, ev, h, b)
  PROVE  /\ Hush(h) /\ (ev.type \in News => Casts(hand[s], ev.type) /\ Head(hand[s]).ev = ev)
         /\ ev.type \notin News => Hush(hand[s])
         /\ \A f \in Range(inbox[s]) : f \in Range(b) \/ f.type \notin News
<1> DEFINE i == Who[s]
<1>1. /\ Hush(<<>>) /\ Hush(Joining4(i)) /\ Hush(Leaving2(i)) /\ Hush(Leaving3(i)) /\ Hush(Leaving4(i)) /\ Hush(Leaving5(i))
      /\ Hush(Joining3(i)) /\ \A f : Hush(Reports(f)) /\ (f.type \notin News => Hush(Tells(f)))
  BY Hushes
<1>2. /\ i \in Person /\ Hello(i).type \notin News /\ Bye(i).type \notin News
      /\ \A type \in {"recording_stop", "typing_stop", "leave"} : As(Bye(i), type).type \notin News
  BY WhoTyped, Events DEF News, Writes, FrameTypes, EventTypes, Kinds
<1> HIDE DEF i
<1>3. CASE hand[s] \in {Joining3(i), Leaving2(i), Leaving4(i)} /\ ev.type \notin News /\ Hush(h) /\ b = inbox[s]
  BY <1>1, <1>3
<1>4. CASE hand[s] = Joining3(i) /\ ev = Hello(i) /\ h = Joining4(i) /\ b = inbox[s] BY <1>1, <1>2, <1>3, <1>4
<1>5. CASE hand[s] = Leaving2(i) /\ ev = As(Bye(i), "recording_stop") /\ h = Leaving3(i) /\ b = inbox[s] BY <1>1, <1>2, <1>3, <1>5
<1>6. CASE hand[s] = Leaving4(i) /\ ev = As(Bye(i), "leave") /\ h = Leaving5(i) /\ b = inbox[s] BY <1>1, <1>2, <1>3, <1>6
<1>7. CASE ev.type = "message" /\ hand[s] = Sends(ev) /\ h = Reports(ev) /\ b = inbox[s]
  BY <1>1, <1>7, FrameShapes, SMTT(30) DEF Casts, Awaits, News
<1>8. CASE ev.type \in Kinds \cup Named /\ hand[s] = Tells(ev) /\ h = <<>> /\ b = inbox[s]
  <2>1. Casts(Tells(ev), ev.type) /\ Head(Tells(ev)).ev = ev BY FrameShapes DEF Casts, Awaits
  <2>2. ev.type \notin News => Hush(Tells(ev)) BY <1>1
  <2> QED BY <1>1, <1>8, <2>1, <2>2
<1>9. CASE Begins(s, ev) /\ ev.type \in {"typing_stop", "recording_stop"} /\ h = <<>> /\ b = Tail(inbox[s])
  <2>1. hand[s] = <<>> /\ ev.type \notin News BY <1>9 DEF Begins, News, Writes
  <2>2. Range(inbox[s]) = {ev} \cup Range(Tail(inbox[s])) BY <1>9, BoxTail
  <2> QED BY <1>1, <1>9, <2>1, <2>2
<1>10. CASE Begins(s, Bye(i)) /\ ev = As(Bye(i), "typing_stop") /\ h = Leaving2(i) /\ b = Tail(inbox[s])
  <2>1. hand[s] = <<>> /\ ev.type \notin News BY <1>2, <1>10 DEF Begins
  <2>2. Range(inbox[s]) = {Bye(i)} \cup Range(Tail(inbox[s])) BY <1>10, BoxTail
  <2> QED BY <1>1, <1>2, <1>10, <2>1, <2>2
<1> QED BY <1>4, <1>5, <1>6, <1>7, <1>8, <1>9, <1>10 DEF CastCase, i

LEMMA FollowsBroadcast ==
  ASSUME Types, Types', Follows, NEW s \in Socket, Broadcast(s)
  PROVE  Follows'
<1>0. PICK ev : ev = Arg(s) OBVIOUS
<1>1. HandTypes /\ ChanTypes /\ PageTypes BY DEF Types
<1>2. UNCHANGED <<msgs, reacts, raced, lost, uploads, page>> /\ chan' = Everyone(ev) BY <1>0 DEF Broadcast, rows, ghosts
<1>3. PICK h, b : CastCase(s, ev, h, b) /\ Move(s, h, b) BY <1>0, TypesBroadcast
<1>4. ev \in Event BY <1>0, TypesBroadcast DEF EventIn
<1>5. /\ Hush(h) /\ (ev.type \in News => Casts(hand[s], ev.type) /\ Head(hand[s]).ev = ev)
      /\ ev.type \notin News => Hush(hand[s])
      /\ \A f \in Range(inbox[s]) : f \in Range(b) \/ f.type \notin News
  BY <1>1, <1>3, CastAsked
<1>6. hand'[s] = h /\ inbox'[s] = b /\ \A v \in Socket \ {s} : hand'[v] = hand[v] /\ inbox'[v] = inbox[v] BY <1>1, <1>3, MoveParts
<1>7. Range(b) \subseteq Range(inbox[s]) BY <1>1, <1>3, CastFacts
<1>8. Hush(hand'[s]) BY <1>5, <1>6
<1>9. DOMAIN chan' = DOMAIN chan /\ \A v \in DOMAIN chan : Range(chan'[v]) = Range(chan[v]) \cup {ev} BY <1>1, <1>2, <1>4, ChanAppend
<1>10. \A v \in DOMAIN chan : chan'[v] = Append(chan[v], ev) BY <1>2 DEF Everyone
<1>11. DOMAIN page \subseteq DOMAIN chan BY <1>1 DEF ChanTypes, PageTypes
<1>12. DOMAIN page \subseteq Socket BY <1>1 DEF PageTypes
<1>13. \A v \in Socket : \A f \in Range(inbox[v]) : f \in Range(inbox'[v]) \/ f.type \notin News
  <2>1. \A v \in Socket : v = s \/ inbox'[v] = inbox[v] BY <1>6
  <2> QED BY <1>5, <1>6, <2>1
<1>14. \A m : \A v \in DOMAIN page : SameAsked(v, m) BY <1>12, <1>13 DEF SameAsked, Asked, News
<1>15. FramesMeant' /\ EventsMeant'
  <2>1. \A v \in Socket : v = s \/ (hand'[v] = hand[v] /\ inbox'[v] = inbox[v]) BY <1>6
  <2>2. \A v \in Socket : \A f \in Range(inbox'[v]) : f \in Range(inbox[v]) BY <1>6, <1>7, <2>1
  <2>3. \A v \in Socket : hand'[v] = hand[v] \/ \A type \in Writes : Casts(hand[v], type)' => EventMeant(Head(hand[v]).ev)'
    BY <1>8, <2>1 DEF Hush, News
  <2>4. ASSUME ev.type \in Writes PROVE EventMeant(ev)'
    <3>1. Casts(hand[s], ev.type) /\ Head(hand[s]).ev = ev BY <1>5, <2>4 DEF News
    <3>2. EventMeant(Head(hand[s]).ev) BY <2>4, <3>1 DEF Follows, EventsMeant
    <3>3. EventMeant(ev) BY <3>1, <3>2
    <3> QED BY <1>2, <3>3 DEF EventMeant
  <2>5. \A v \in DOMAIN chan' : \A f \in Range(chan'[v]) :
          (v \in DOMAIN chan /\ f \in Range(chan[v])) \/ (f.type \in Writes => EventMeant(f)')
    BY <1>9, <2>4
  <2>6. FramesMeant /\ EventsMeant BY DEF Follows
  <2> QED BY <1>2, <2>2, <2>3, <2>5, <2>6, MeantStep
<1>16. ASSUME NEW m \in Nat PROVE Right(m)'
  <2>1. Right(m) BY DEF Follows
  <2>2. CASE ev.type \in News /\ ev.m = m
    <3>1. TellsOf(hand[s], ev.type, m) BY <1>5, <2>2 DEF TellsOf
    <3>2. Casting(ev.type, m) BY <3>1 DEF Casting
    <3>3. m \in Tracked => NewsTrue(ev, m) BY <1>5, <2>1, <2>2, <3>1 DEF Right, HandTrue
    <3>4. \A type \in News : ~TellsOf(hand[s], type, m)' BY <1>8 DEF Hush, TellsOf
    <3>5. \A v \in Socket : hand'[v] = hand[v] \/ \A type \in News : ~TellsOf(hand[v], type, m)' BY <1>6, <3>4
    <3>6. ASSUME NEW type \in News, Casting(type, m) PROVE Casting(type, m)' \/ type = ev.type
      <4>1. PICK v \in Socket : TellsOf(hand[v], type, m) BY <3>6 DEF Casting
      <4>2. CASE v = s BY <1>5, <2>2, <4>1, <4>2 DEF TellsOf, Casts
      <4>3. CASE v # s
        <5>1. TellsOf(hand'[v], type, m) BY <1>6, <4>1, <4>3
        <5> QED BY <5>1 DEF Casting
      <4> QED BY <4>2, <4>3
    <3>7. Stored(m)' <=> Stored(m) BY <1>2 DEF Stored
    <3>8. Announcing(m) => Announcing(m)' \/ ev.type = "message" BY <3>6, <3>7 DEF Announcing, News
    <3>9. Heralds(ev, m) BY <1>2, <1>4, <1>9, <1>10, <1>14, <2>2, <3>2, <3>3, <3>5, <3>6, <3>7, <3>8 DEF Heralds, Announcing
    <3> QED BY <1>1, <1>11, <2>1, <3>9, HeraldsRight
  <2>3. CASE ~(ev.type \in News /\ ev.m = m)
    <3>1. \A type \in News : ~TellsOf(hand'[s], type, m) BY <1>8 DEF Hush, TellsOf
    <3>2. \A type \in News : ~TellsOf(hand[s], type, m) BY <1>5, <2>3 DEF Hush, TellsOf, Casts
    <3>3. \A v \in Socket : v = s \/ hand'[v] = hand[v] BY <1>6
    <3>4. SameHopes(m) BY <1>2, <3>1, <3>2, <3>3 DEF SameHopes, Stored
    <3>5. ev \in Event \ About(News, m) BY <1>4, <2>3 DEF About
    <3>6. \A v \in DOMAIN chan : SameWay(v, m) BY <1>10, <3>5 DEF SameWay, Aside
    <3>7. Summary(m)' = Summary(m) BY <1>2 DEF Summary
    <3>8. Apart(m) BY <1>2, <1>9, <3>4, <3>6, <3>7 DEF Apart, SameRow
    <3>9. \A v \in DOMAIN page' : SameWay(v, m) /\ SameLook(v, m) /\ SameAsked(v, m)
      BY <1>2, <1>11, <1>14, <3>6 DEF SameLook, SameEntry
    <3> QED BY <1>1, <2>1, <3>8, <3>9, ApartRight
  <2> QED BY <2>2, <2>3
<1> QED BY <1>15, <1>16 DEF Follows

(* The event of a voice note goes to every channel, or is lost.            *)
LEMMA FollowsAnnounce ==
  ASSUME Types, Types', Follows, NEW x \in DOMAIN uploads, Announce(x)
  PROVE  Follows'
<1>0. PICK ev : ev = VoiceEvent(x) OBVIOUS
<1>1. HandTypes /\ ChanTypes /\ PageTypes BY DEF Types
<1>2. UNCHANGED <<msgs, reacts, raced, hand, inbox, page>> /\ uploads[x].stored BY DEF Announce, rows
<1>3. /\ x \in DOMAIN msgs /\ DOMAIN uploads' = DOMAIN uploads \ {x} /\ \A y \in DOMAIN uploads' : uploads'[y] = uploads[y]
      /\ ev \in Event /\ ev.type = "message" /\ ev.m = x /\ ev.val = msgs[x].text
      /\ \/ chan' = Everyone(ev) /\ UNCHANGED lost
         \/ lost' = lost \cup {x} /\ UNCHANGED chan
  BY <1>0, TypesAnnounce DEF EventIn
<1>4. /\ DOMAIN chan' = DOMAIN chan
      /\ chan' # chan => UNCHANGED lost /\ \A v \in DOMAIN chan : chan'[v] = Append(chan[v], ev)
      /\ \A v \in DOMAIN chan : \A f \in Range(chan'[v]) : f \in Range(chan[v]) \/ f = ev
  <2>1. CASE chan' = Everyone(ev) /\ UNCHANGED lost BY <1>1, <1>3, <2>1, ChanAppend DEF Everyone
  <2>2. CASE UNCHANGED chan BY <2>2
  <2> QED BY <1>3, <2>1, <2>2
<1>5. DOMAIN page \subseteq DOMAIN chan BY <1>1 DEF ChanTypes, PageTypes
<1>6. \A m : \A v \in DOMAIN page : SameAsked(v, m) BY <1>2 DEF SameAsked, Asked
<1>7. FramesMeant' /\ EventsMeant'
  <2>1. ev.type \notin Writes BY <1>3 DEF Writes
  <2> QED BY <1>2, <1>4, <2>1, MeantStep DEF Follows
<1>8. \A m : m # x => (Stored(m)' <=> Stored(m)) BY <1>3 DEF Stored
<1>9. ~Stored(x)' /\ Stored(x) BY <1>2, <1>3 DEF Stored
<1>10. \A m, type : Casting(type, m)' <=> Casting(type, m) BY <1>2 DEF Casting
<1>11. ASSUME NEW m \in Nat, m # x PROVE Right(m)'
  <2>1. Right(m) BY DEF Follows
  <2>2. SameHopes(m) BY <1>2, <1>8, <1>11 DEF SameHopes
  <2>3. ev \in Event \ About(News, m) BY <1>3, <1>11 DEF About
  <2>4. \A v \in DOMAIN chan : SameWay(v, m) BY <1>4, <2>3 DEF SameWay, Aside
  <2>5. Summary(m)' = Summary(m) BY <1>2 DEF Summary
  <2>6. Apart(m) BY <1>2, <1>3, <1>4, <2>2, <2>4, <2>5 DEF Apart, SameRow
  <2>7. \A v \in DOMAIN page' : SameWay(v, m) /\ SameLook(v, m) /\ SameAsked(v, m)
    BY <1>2, <1>5, <1>6, <2>4 DEF SameLook, SameEntry
  <2> QED BY <1>1, <2>1, <2>6, <2>7, ApartRight
<1>12. CASE chan' = Everyone(ev) /\ UNCHANGED lost
  <2>1. x \in Nat /\ Right(x) BY <1>3, NoZero DEF Follows
  <2>2. \A v \in DOMAIN chan : chan'[v] = Append(chan[v], ev) BY <1>12 DEF Everyone
  <2>3. x \in Tracked => NewsTrue(ev, x) BY <1>3, RowCut DEF NewsTrue
  <2>4. Heralds(ev, x) BY <1>2, <1>3, <1>4, <1>6, <1>9, <1>10, <1>12, <2>2, <2>3 DEF Heralds, Announcing, News
  <2>5. Right(x)' BY <1>1, <1>5, <2>1, <2>4, HeraldsRight
  <2> QED BY <1>7, <1>11, <2>5 DEF Follows
<1>13. CASE lost' = lost \cup {x} /\ UNCHANGED chan
  <2>1. x \in Nat /\ Right(x) BY <1>3, NoZero DEF Follows
  <2>2. x \notin Tracked' BY <1>13 DEF Tracked
  <2>3. x \in lost' /\ x \in DOMAIN msgs' BY <1>2, <1>3, <1>13
  <2>4. \A v \in DOMAIN page' : BubbleTrue(v, x)' BY <2>3 DEF BubbleTrue
  <2>5. Right(x)' BY <2>2, <2>4 DEF Right
  <2> QED BY <1>7, <1>11, <2>5 DEF Follows
<1> QED BY <1>3, <1>12, <1>13

(* An event that tells of m comes to the page of s, which shows it.        *)
LEMMA EntryTold ==
  ASSUME NEW s \in Socket, NEW ev \in Event, NEW m, NEW e \in Entry
  PROVE  LET g == EntryAfter(s, ev, m, e) IN
         /\ ev.type \notin News \/ ev.m # m => SameEntry(e, g)
         /\ ev.type = "message" /\ ev.m = m => /\ g.text = e.text /\ g.deleted = e.deleted /\ g.count = 0
                                               /\ g.bubble # "unconfirmed"
         /\ ev.type # "message" /\ e.bubble = "unconfirmed" => SameEntry(e, g)
         /\ ev.m = m /\ e.bubble # "unconfirmed" =>
              /\ ev.type = "reaction" => g.text = e.text /\ g.deleted = e.deleted /\ g.count = ev.val /\ g.bubble = e.bubble
              /\ ev.type = "edit" => g.text = ev.val /\ g.deleted = e.deleted /\ g.count = e.count /\ g.bubble = e.bubble
              /\ ev.type = "delete" => g.text = e.text /\ g.deleted /\ g.bubble = e.bubble
<1> DEFINE g == EntryAfter(s, ev, m, e)
<1>1. CASE ev.type = "message" /\ ev.m = m
  <2>1. g = Echoed(e) BY <1>1 DEF EntryAfter
  <2> QED BY <1>1, <2>1, EchoedEntry DEF News
<1>0. CASE e.bubble = "unconfirmed" /\ ~(ev.type = "message" /\ ev.m = m)
  <2>1. g = e BY <1>0 DEF EntryAfter
  <2> QED BY <1>0, <2>1 DEF SameEntry
<1>2. CASE e.bubble # "unconfirmed" /\ (ev.type = "read" \/ ev.type = "played" \/ ev.m # m \/ ev.type \notin News)
  <2>1. \/ g = e \/ (ev.type = "read" /\ g = [e EXCEPT !.tick = "read"])
        \/ (ev.type = "played" /\ g = [e EXCEPT !.played = e.played \/ e.by = Who[s]])
    BY <1>2 DEF EntryAfter, News, Writes
  <2>2. SameEntry(e, g) BY <2>1 DEF Entry, SameEntry
  <2> QED BY <1>2, <2>2 DEF News, Writes
<1>3. CASE ev.type = "reaction" /\ ev.m = m /\ e.bubble # "unconfirmed"
  <2>1. g = [e EXCEPT !.count = ev.val] BY <1>3 DEF EntryAfter
  <2> QED BY <1>3, <2>1 DEF Entry, News, Writes
<1>4. CASE ev.type = "edit" /\ ev.m = m /\ e.bubble # "unconfirmed"
  <2>1. g = [e EXCEPT !.text = ev.val] BY <1>4 DEF EntryAfter
  <2> QED BY <1>4, <2>1 DEF Entry, News, Writes
<1>5. CASE ev.type = "delete" /\ ev.m = m /\ e.bubble # "unconfirmed"
  <2>1. g = [e EXCEPT !.deleted = TRUE, !.count = 0] BY <1>5 DEF EntryAfter
  <2> QED BY <1>5, <2>1 DEF Entry, News, Writes
<1> QED BY <1>0, <1>1, <1>2, <1>3, <1>4, <1>5 DEF News, Writes

(* What a page shows of m before and after the event.                      *)
Takes(s, ev, m) ==
  /\ ev \in Event /\ ev.type \in News /\ ev.m = m
  /\ s \in DOMAIN page /\ s \in DOMAIN page' /\ s \in DOMAIN chan
  /\ chan[s] # <<>> /\ Head(chan[s]) = ev /\ chan'[s] = Tail(chan[s])
  /\ m \in DOMAIN msgs /\ (ev.type = "delete" => msgs[m].deleted)
  /\ m \in DOMAIN page'[s].shown <=> m \in DOMAIN page[s].shown \/ ev.type = "message"
  /\ LET e == page[s].shown[m]
         g == page'[s].shown[m] IN
     /\ m \in DOMAIN page[s].shown =>
          /\ ev.type = "message" => g.text = e.text /\ g.deleted = e.deleted /\ g.count = 0 /\ g.bubble # "unconfirmed"
          /\ ev.type # "message" /\ e.bubble = "unconfirmed" => SameEntry(e, g)
          /\ e.bubble # "unconfirmed" =>
               /\ ev.type = "reaction" => g.text = e.text /\ g.deleted = e.deleted /\ g.count = ev.val /\ g.bubble = e.bubble
               /\ ev.type = "edit" => g.text = ev.val /\ g.deleted = e.deleted /\ g.count = e.count /\ g.bubble = e.bubble
               /\ ev.type = "delete" => g.text = e.text /\ g.deleted /\ g.bubble = e.bubble
     /\ m \notin DOMAIN page[s].shown /\ ev.type = "message" =>
          g.text = ev.val /\ ~g.deleted /\ g.count = 0 /\ g.bubble # "unconfirmed"
  /\ UNCHANGED <<msgs, reacts, raced, lost, hand, uploads>> /\ SameAsked(s, m)

LEMMA TakesKeep ==
  ASSUME ChanTypes, NEW ev, NEW m, NEW s, Takes(s, ev, m), NEW E, NEW G
  PROVE  /\ Brings(chan[s], E) <=> Brings(chan'[s], E) \/ ev \in E
         /\ LastIn(chan[s], E, G) => LastIn(chan'[s], E, G) \/ (ev \in G /\ ~Brings(chan'[s], E))
<1>1. chan[s] \in Seq(Event) BY Queued DEF Takes
<1>2. chan[s] # <<>> /\ Head(chan[s]) = ev /\ chan'[s] = Tail(chan[s]) BY DEF Takes
<1>3. PICK q : q = chan[s] OBVIOUS
<1>4. PICK r : r = chan'[s] OBVIOUS
<1>5. q \in Seq(Event) /\ q # <<>> /\ Head(q) = ev /\ r = Tail(q) BY <1>1, <1>2, <1>3, <1>4
<1>6. /\ Brings(q, E) <=> Brings(Tail(q), E) \/ Head(q) \in E
      /\ LastIn(q, E, G) => LastIn(Tail(q), E, G) \/ (Head(q) \in G /\ ~Brings(Tail(q), E))
  BY <1>5, LastTail
<1> QED BY <1>3, <1>4, <1>5, <1>6

LEMMA TakesSure ==
  ASSUME ChanTypes, NEW ev, NEW m, NEW s, Takes(s, ev, m), m \in Tracked, Sure(s, m),
         m \in DOMAIN page[s].shown => BubbleTrue(s, m), Announcing(m) => Untouched(m)
  PROVE  Sure(s, m)'
<1> DEFINE n == Summary(m)
           t == msgs[m].text
           e == page[s].shown[m]
           g == page'[s].shown[m]
           deaf == m \in DOMAIN page[s].shown /\ e.bubble = "unconfirmed" /\ ev.type # "message"
           C == About({"message", "reaction"}, m)
           T == About({"message", "edit"}, m)
           D == About({"message", "delete"}, m)
           K == About({"edit"}, m) \cup Stale(m, t)
<1>0. n' = n /\ t' = t /\ C' = C /\ T' = T /\ D' = D /\ K' = K /\ msgs' = msgs BY DEF Takes, Summary
<1>1. /\ ev \in Event /\ ev.type \in {"message", "reaction", "edit", "delete"} /\ ev.m = m
      /\ ev.type = "delete" => msgs[m].deleted
      /\ m \in DOMAIN page'[s].shown <=> m \in DOMAIN page[s].shown \/ ev.type = "message"
  BY DEF Takes, News, Writes
<1>2. \A type : (Casting(type, m)' <=> Casting(type, m)) /\ (Announcing(m)' <=> Announcing(m))
  BY DEF Takes, Casting, Announcing, Stored
<1>3. \A type \in Writes : Asked(s, type, m) /\ ~msgs[m].deleted => Asked(s, type, m)' BY DEF Takes, SameAsked, Alive
<1>4. \A types : ev \in About(types, m) <=> ev.type \in types BY <1>1 DEF About
<1>5. ev \in C <=> ev.type \in {"message", "reaction"} BY <1>4
<1>6. ev \in T <=> ev.type \in {"message", "edit"} BY <1>4
<1>7. ev \in D <=> ev.type \in {"message", "delete"} BY <1>4
<1>8. ev \in K <=> ev.type = "edit" \/ (ev.type = "message" /\ Cut(ev.val) # t) BY <1>4 DEF Stale
<1>9. K \subseteq T BY DEF About, Stale
<1>10. About({"message"}, m) \subseteq D BY DEF About
<1>11. /\ Brings(chan[s], C) <=> Brings(chan'[s], C) \/ ev \in C
       /\ LastIn(chan[s], C, Counted(m, n)) => LastIn(chan'[s], C, Counted(m, n)) \/ (ev \in Counted(m, n) /\ ~Brings(chan'[s], C))
  BY TakesKeep
<1>12. /\ Brings(chan[s], K) <=> Brings(chan'[s], K) \/ ev \in K
       /\ LastIn(chan[s], T, Edited(m, t)) => LastIn(chan'[s], T, Edited(m, t)) \/ (ev \in Edited(m, t) /\ ~Brings(chan'[s], T))
  BY TakesKeep
<1>13. /\ Brings(chan[s], About({"message"}, m)) <=> Brings(chan'[s], About({"message"}, m)) \/ ev \in About({"message"}, m)
       /\ LastIn(chan[s], D, About({"delete"}, m))
            => LastIn(chan'[s], D, About({"delete"}, m)) \/ (ev \in About({"delete"}, m) /\ ~Brings(chan'[s], D))
  BY TakesKeep
<1>14. /\ m \in DOMAIN page[s].shown =>
            /\ ev.type = "message" => g.text = e.text /\ g.deleted = e.deleted /\ g.count = 0
            /\ ev.type = "reaction" => g.text = e.text /\ g.deleted = e.deleted /\ (deaf \/ g.count = ev.val)
            /\ ev.type = "edit" => (deaf \/ g.text = ev.val) /\ g.deleted = e.deleted /\ g.count = e.count
            /\ ev.type = "delete" => deaf \/ g.deleted
            /\ deaf => g.text = e.text /\ g.deleted = e.deleted /\ g.count = e.count
       /\ m \notin DOMAIN page[s].shown /\ ev.type = "message" => g.text = ev.val /\ ~g.deleted /\ g.count = 0
  BY DEF Takes, SameEntry
<1>15. Fresh(s, m)' <=> m \in DOMAIN page'[s].shown /\ ~g.deleted BY DEF Fresh
<1>16. Fresh(s, m) <=> m \in DOMAIN page[s].shown /\ ~e.deleted BY DEF Fresh
<1>17. "reaction" \in Writes /\ "edit" \in Writes /\ "delete" \in Writes BY DEF Writes
<1>25. deaf => Brings(chan'[s], About({"message"}, m))
  <2> SUFFICES ASSUME deaf PROVE Brings(chan'[s], About({"message"}, m)) OBVIOUS
  <2>1. /\ m \in DOMAIN msgs \ lost /\ s \in DOMAIN chan /\ ev \in About(Writes, m) /\ ev \notin About({"message"}, m)
        /\ m \in DOMAIN page[s].shown /\ e.bubble = "unconfirmed"
    BY <1>1 DEF Takes, Tracked, About, Writes
  <2>2. Announcing(m) \/ Brings(chan[s], About({"message"}, m)) BY <2>1 DEF BubbleTrue
  <2>3. Brings(chan[s], About(Writes, m)) BY <2>1, TakesKeep
  <2>4. ~Announcing(m) BY <2>1, <2>3 DEF Untouched
  <2> QED BY <1>13, <2>1, <2>2, <2>4
<1>24. deaf => Brings(chan'[s], C) /\ Brings(chan'[s], T) /\ Brings(chan'[s], D)
  <2>1. About({"message"}, m) \subseteq C /\ About({"message"}, m) \subseteq T /\ About({"message"}, m) \subseteq D BY DEF About
  <2> QED BY <1>25, <2>1 DEF Brings
<1>18. ev \in Counted(m, n) => IF ev.type = "message" THEN n = 0 ELSE ev.type = "reaction" /\ ev.val = n
  BY DEF Counted, About
<1>19. ev \in Edited(m, t) => ev.type = "edit" /\ Cut(ev.val) = t BY DEF Edited, About
<1> HIDE DEF n, t, e, g, C, T, D, K, deaf
<1>20. ASSUME msgs[m].deleted, GoneSure(s, m) PROVE GoneSure(s, m)'
  <2>1. CASE Casting("delete", m) BY <1>2, <2>1 DEF GoneSure
  <2>2. CASE LastIn(chan'[s], D, About({"delete"}, m)) BY <2>2 DEF GoneSure, D
  <2>3. CASE ev \in About({"delete"}, m) /\ ~Brings(chan'[s], D)
    <3>1. ~Brings(chan'[s], About({"message"}, m)) BY <1>10, <2>3 DEF Brings
    <3>2. ev.type = "delete" /\ ~deaf BY <1>24, <2>3 DEF About
    <3> QED BY <1>1, <1>14, <1>15, <3>1, <3>2 DEF GoneSure
  <2>4. CASE ~Fresh(s, m) /\ ~Brings(chan[s], About({"message"}, m))
    <3>1. ev.type # "message" /\ ~Brings(chan'[s], About({"message"}, m)) BY <1>4, <1>13, <2>4
    <3> QED BY <1>1, <1>14, <1>15, <1>16, <2>4, <3>1 DEF GoneSure
  <2> QED BY <1>13, <1>20, <2>1, <2>2, <2>3, <2>4 DEF GoneSure, D
<1>21. ASSUME ~msgs[m].deleted, CountSure(s, m) PROVE CountSure(s, m)'
  <2>1. CASE Asked(s, "reaction", m) \/ Casting("reaction", m) \/ Announcing(m)
    BY <1>2, <1>3, <1>17, <1>21, <2>1 DEF CountSure
  <2>2. CASE LastIn(chan'[s], C, Counted(m, n))
    <3>1. LastIn(chan'[s], C', Counted(m, n')) BY <1>0, <2>2
    <3> QED BY <3>1 DEF CountSure, C, n
  <2>3. CASE ~Brings(chan'[s], C) /\ (Fresh(s, m)' => g.count = n)
    <3>1. ~Brings(chan'[s], C') /\ (Fresh(s, m)' => g.count = n') BY <1>0, <2>3
    <3> QED BY <3>1 DEF CountSure, C, n, g
  <2>4. CASE ev \in Counted(m, n) /\ ~Brings(chan'[s], C)
    <3>1. Fresh(s, m)' => g.count = n BY <1>1, <1>14, <1>15, <1>18, <1>24, <2>4
    <3> QED BY <2>3, <2>4, <3>1
  <2>5. CASE ~Brings(chan[s], C) /\ (Fresh(s, m) => e.count = n)
    <3>1. ~Brings(chan'[s], C) /\ ev.type \notin {"message", "reaction"} BY <1>5, <1>11, <2>5
    <3>2. Fresh(s, m)' => g.count = n BY <1>1, <1>14, <1>15, <1>16, <2>5, <3>1
    <3> QED BY <2>3, <3>1, <3>2
  <2> QED BY <1>11, <1>21, <2>1, <2>2, <2>4, <2>5 DEF CountSure, C, n, e
<1>22. ASSUME ~msgs[m].deleted, TextSure(s, m) PROVE TextSure(s, m)'
  <2>1. CASE Asked(s, "edit", m) \/ Casting("edit", m)
    BY <1>2, <1>3, <1>17, <1>22, <2>1 DEF TextSure
  <2>2. CASE LastIn(chan'[s], T, Edited(m, t))
    <3>1. LastIn(chan'[s], T', Edited(m, t')) BY <1>0, <2>2
    <3> QED BY <3>1 DEF TextSure, T, t
  <2>3. CASE ~Brings(chan'[s], K) /\ (Fresh(s, m)' => Cut(g.text) = t)
    <3>1. ~Brings(chan'[s], K') /\ (Fresh(s, m)' => Cut(g.text) = t') BY <1>0, <2>3
    <3> QED BY <3>1 DEF TextSure, K, t, g
  <2>4. CASE ev \in Edited(m, t) /\ ~Brings(chan'[s], T)
    <3>1. ~Brings(chan'[s], K) BY <1>9, <2>4 DEF Brings
    <3>2. Fresh(s, m)' => Cut(g.text) = t BY <1>1, <1>14, <1>15, <1>19, <1>24, <2>4
    <3> QED BY <2>3, <3>1, <3>2
  <2>5. CASE ~Brings(chan[s], K) /\ (Fresh(s, m) => Cut(e.text) = t)
    <3>1. ~Brings(chan'[s], K) /\ ev.type # "edit" /\ (ev.type = "message" => Cut(ev.val) = t) BY <1>8, <1>12, <2>5
    <3>2. Fresh(s, m)' => Cut(g.text) = t BY <1>1, <1>14, <1>15, <1>16, <1>22, <2>5, <3>1
    <3> QED BY <2>3, <3>1, <3>2
  <2> QED BY <1>12, <1>22, <2>1, <2>2, <2>4, <2>5 DEF TextSure, T, K, t, e
<1>23. ASSUME ~msgs[m].deleted, BackSure(s, m) PROVE BackSure(s, m)'
  <2>1. ASSUME m \in DOMAIN page'[s].shown, g.deleted PROVE Asked(s, "delete", m)'
    <3>1. m \in DOMAIN page[s].shown /\ e.deleted BY <1>1, <1>14, <1>23, <2>1
    <3> QED BY <1>3, <1>17, <1>23, <3>1 DEF BackSure, e
  <2> QED BY <2>1 DEF BackSure, g
<1> QED BY <1>0, <1>20, <1>21, <1>22, <1>23 DEF Sure

(* An idle consumer passes an event on; one of m may change what its page  *)
(* shows of m, which the rows agree with once all events are taken.        *)
LEMMA FollowsFanout ==
  ASSUME Types, Types', Follows, Told, NEW s \in Socket, Fanout(s)
  PROVE  Follows'
<1>0. PICK ev : ev = Head(chan[s]) OBVIOUS
<1>1. HandTypes /\ ChanTypes /\ PageTypes BY DEF Types
<1>2. UNCHANGED <<msgs, reacts, raced, lost, uploads, hand>> BY DEF Fanout, rows, ghosts
<1>3. /\ s \in DOMAIN chan /\ chan[s] # <<>> /\ chan'[s] = Tail(chan[s]) /\ DOMAIN chan' = DOMAIN chan
      /\ Range(chan[s]) = {ev} \cup Range(chan'[s]) /\ ev \in Event
      /\ \A v \in DOMAIN chan \ {s} : chan'[v] = chan[v]
      /\ \E b : /\ Move(s, <<>>, b) /\ Range(inbox[s]) \subseteq Range(b)
                /\ \A f \in Range(b) : f \in Range(inbox[s]) \/ f.type = "read"
      /\ DOMAIN page' = DOMAIN page /\ \A v \in DOMAIN page \ {s} : page'[v] = page[v]
      /\ s \in DOMAIN page =>
           /\ DOMAIN page'[s].shown = DOMAIN page[s].shown \cup (IF ev.type = "message" THEN {ev.m} ELSE {})
           /\ \A m \in DOMAIN page[s].shown : page'[s].shown[m] = EntryAfter(s, ev, m, page[s].shown[m])
           /\ ev.type = "message" /\ ev.m \notin DOMAIN page[s].shown =>
                page'[s].shown[ev.m] = FromServer(s, ev.who, ev.val, 0)
  BY <1>0, FanoutShows DEF EventIn
<1>4. /\ \A v \in Socket : Range(inbox[v]) \subseteq Range(inbox'[v])
      /\ \A v \in Socket : \A f \in Range(inbox'[v]) : f \in Range(inbox[v]) \/ f.type = "read"
  BY <1>1, <1>3, MoveParts
<1>5. FramesMeant' /\ EventsMeant'
  <2>1. \A v, f : f.type = "read" => FrameMeant(v, f)' BY DEF FrameMeant
  <2>2. \A v \in DOMAIN chan' : \A f \in Range(chan'[v]) : f \in Range(chan[v]) BY <1>3
  <2> QED BY <1>2, <1>3, <1>4, <2>1, <2>2, MeantStep DEF Follows
<1>6. DOMAIN page \subseteq DOMAIN chan /\ DOMAIN page \subseteq Socket BY <1>1 DEF ChanTypes, PageTypes
<1>7. ASSUME NEW m \in Nat PROVE Right(m)'
  <2>1. Right(m) BY DEF Follows
  <2>2. SameHopes(m) BY <1>2 DEF SameHopes, Stored
  <2>3. Summary(m)' = Summary(m) /\ (m \in DOMAIN msgs \cup DOMAIN msgs' => SameRow(m)) BY <1>2 DEF Summary, SameRow
  <2>4. \A v \in DOMAIN page : SameAsked(v, m) BY <1>4, <1>6 DEF SameAsked, Asked
  <2>5. \A v \in DOMAIN chan \ {s} : SameWay(v, m) BY <1>3 DEF SameWay, Aside
  <2>6. \A v \in DOMAIN page \ {s} : SameLook(v, m) BY <1>3 DEF SameLook, SameEntry
  <2>7. ASSUME s \in DOMAIN page, m \in DOMAIN page[s].shown PROVE page[s].shown[m] \in Entry
    <3>1. page[s].shown \in Shown(drawn) BY <1>1, <2>7, PageAt, PageGet
    <3> QED BY <2>7, <3>1, EntryGet
  <2>8. CASE ev.type \notin News \/ ev.m # m
    <3>1. SameWay(s, m)
      <4>1. Head(chan[s]) \notin About(News, m) BY <1>0, <2>8 DEF About
      <4> QED BY <1>3, <4>1 DEF SameWay, Aside
    <3>2. ASSUME s \in DOMAIN page PROVE SameLook(s, m)
      <4>1. m \in DOMAIN page'[s].shown <=> m \in DOMAIN page[s].shown BY <1>3, <2>8, <3>2 DEF News
      <4>2. ASSUME m \in DOMAIN page[s].shown PROVE SameEntry(page[s].shown[m], page'[s].shown[m])
        BY <1>3, <2>7, <2>8, <3>2, <4>2, EntryTold
      <4> QED BY <3>2, <4>1, <4>2 DEF SameLook
    <3>3. Apart(m) BY <1>2, <1>3, <2>2, <2>3, <2>5, <3>1 DEF Apart
    <3>4. \A v \in DOMAIN page' : SameWay(v, m) /\ SameLook(v, m) /\ SameAsked(v, m)
      BY <1>3, <1>6, <2>4, <2>5, <2>6, <3>1, <3>2
    <3> QED BY <1>1, <2>1, <3>3, <3>4, ApartRight
  <2>9. CASE ev.type \in News /\ ev.m = m
    <3>1. ev \in Range(chan[s]) BY <1>3
    <3>2. m \in DOMAIN msgs /\ (ev.type = "delete" => msgs[m].deleted)
      BY <1>3, <2>9, <3>1 DEF Follows, EventsMeant, EventMeant, News, Told
    <3>3. /\ \A type : Casting(type, m)' <=> Casting(type, m)
          /\ Announcing(m)' <=> Announcing(m)
      BY <1>2 DEF Casting, Announcing, Stored
    <3>4. chan[s] \in Seq(Event) /\ Head(chan[s]) = ev BY <1>0, <1>1, <1>3, Queued
    <3>5. \A E : Brings(chan'[s], E) => Brings(chan[s], E)
      <4>1. \A k \in DOMAIN chan'[s] : k+1 \in DOMAIN chan[s] /\ chan'[s][k] = chan[s][k+1] BY <1>3, <3>4
      <4> QED BY <4>1 DEF Brings
    <3>6. m \in Tracked' => HandTrue(m)' /\ (Announcing(m)' => Untouched(m)')
      <4>1. ASSUME m \in Tracked PROVE HandTrue(m)' /\ (Announcing(m)' => Untouched(m)')
        <5>1. HandTrue(m) /\ (Announcing(m) => Untouched(m)) BY <2>1, <4>1 DEF Right
        <5>2. HandTrue(m)' BY <1>2, <2>3, <5>1 DEF HandTrue, NewsTrue
        <5>3. ASSUME Untouched(m) PROVE Untouched(m)'
          <6>1. \A v \in DOMAIN chan' : ~Brings(chan'[v], About(Writes, m)) BY <1>3, <3>5, <5>3 DEF Untouched
          <6> QED BY <1>2, <2>3, <3>3, <5>3, <6>1 DEF Untouched
        <5> QED BY <3>3, <5>1, <5>2, <5>3
      <4> QED BY <1>2, <4>1 DEF Tracked
    <3>7. ASSUME NEW v \in DOMAIN page' \ {s}
          PROVE  (m \in DOMAIN page'[v].shown => BubbleTrue(v, m)') /\ (m \in Tracked' => Sure(v, m)')
      <4>1. v \in DOMAIN page /\ SameWay(v, m) /\ SameLook(v, m) /\ SameAsked(v, m) BY <1>3, <1>6, <2>4, <2>5, <2>6
      <4>2. m \in DOMAIN page'[v].shown => m \in DOMAIN page[v].shown /\ BubbleTrue(v, m) BY <2>1, <4>1 DEF Right, SameLook
      <4>3. m \in Tracked => Sure(v, m) BY <2>1, <4>1 DEF Right
      <4>4. m \in DOMAIN msgs' <=> m \in DOMAIN msgs BY <1>2
      <4>5. m \in DOMAIN page'[v].shown => BubbleTrue(v, m)' BY <1>1, <1>2, <2>2, <4>1, <4>2, <4>4, BubbleSame
      <4>6. m \in Tracked => Sure(v, m)' BY <1>1, <2>2, <2>3, <3>2, <4>1, <4>3, SureSame
      <4> QED BY <1>2, <4>5, <4>6 DEF Tracked
    <3>8. ASSUME s \in DOMAIN page PROVE Takes(s, ev, m)
      <4> DEFINE e == page[s].shown[m]
                 g == page'[s].shown[m]
      <4>1. m \in DOMAIN page'[s].shown <=> m \in DOMAIN page[s].shown \/ ev.type = "message" BY <1>3, <2>9, <3>8
      <4>2. ASSUME m \in DOMAIN page[s].shown
            PROVE  /\ ev.type = "message" => g.text = e.text /\ g.deleted = e.deleted /\ g.count = 0 /\ g.bubble # "unconfirmed"
                   /\ ev.type # "message" /\ e.bubble = "unconfirmed" => SameEntry(e, g)
                   /\ e.bubble # "unconfirmed" =>
                        /\ ev.type = "reaction" => g.text = e.text /\ g.deleted = e.deleted /\ g.count = ev.val /\ g.bubble = e.bubble
                        /\ ev.type = "edit" => g.text = ev.val /\ g.deleted = e.deleted /\ g.count = e.count /\ g.bubble = e.bubble
                        /\ ev.type = "delete" => g.text = e.text /\ g.deleted /\ g.bubble = e.bubble
        <5>1. e \in Entry BY <2>7, <3>8, <4>2
        <5>2. g = EntryAfter(s, ev, m, e) BY <1>3, <3>8, <4>2
        <5> HIDE DEF e, g
        <5> QED BY <1>3, <2>9, <5>1, <5>2, EntryTold
      <4>3. ASSUME m \notin DOMAIN page[s].shown, ev.type = "message"
            PROVE  g.text = ev.val /\ ~g.deleted /\ g.count = 0 /\ g.bubble # "unconfirmed"
        <5>1. g = FromServer(s, ev.who, ev.val, 0) BY <1>3, <2>9, <3>8, <4>3
        <5> QED BY <5>1 DEF FromServer
      <4> HIDE DEF e, g
      <4> QED BY <1>2, <1>3, <2>4, <2>9, <3>2, <3>4, <3>8, <4>1, <4>2, <4>3 DEF Takes, e, g
    <3>9. ASSUME s \in DOMAIN page PROVE m \in Tracked' => Sure(s, m)'
      <4>1. m \in Tracked => Sure(s, m) BY <2>1, <3>9 DEF Right
      <4>2. ASSUME m \in Tracked PROVE Sure(s, m)'
        <5>1. (m \in DOMAIN page[s].shown => BubbleTrue(s, m)) /\ (Announcing(m) => Untouched(m)) BY <2>1, <3>9, <4>2 DEF Right
        <5> QED BY <1>1, <3>8, <3>9, <4>1, <4>2, <5>1, TakesSure
      <4> QED BY <1>2, <4>2 DEF Tracked
    <3>10. ASSUME s \in DOMAIN page, m \in DOMAIN page'[s].shown PROVE BubbleTrue(s, m)'
      <4>1. CASE ev.type = "message"
        <5>1. page'[s].shown[m].bubble # "unconfirmed" BY <3>8, <3>10, <4>1 DEF Takes
        <5> QED BY <1>2, <3>2, <5>1 DEF BubbleTrue
      <4>2. CASE ev.type # "message"
        <5>1. m \in DOMAIN page[s].shown /\ page'[s].shown[m].bubble = page[s].shown[m].bubble
          BY <3>8, <3>10, <4>2 DEF Takes, News, Writes, SameEntry
        <5>2. BubbleTrue(s, m) BY <2>1, <3>10, <5>1 DEF Right
        <5>3. Brings(chan[s], About({"message"}, m)) <=> Brings(chan'[s], About({"message"}, m)) \/ ev \in About({"message"}, m)
          BY <1>1, <3>8, <3>10, TakesKeep
        <5>4. ev \notin About({"message"}, m) BY <4>2 DEF About
        <5> QED BY <1>2, <3>2, <3>3, <5>1, <5>2, <5>3, <5>4 DEF BubbleTrue
      <4> QED BY <4>1, <4>2
    <3>11. ASSUME NEW v \in DOMAIN page'
           PROVE  (m \in DOMAIN page'[v].shown => BubbleTrue(v, m)') /\ (m \in Tracked' => Sure(v, m)')
      <4>1. CASE v = s BY <1>3, <3>9, <3>10, <4>1
      <4>2. CASE v # s BY <3>7, <4>2
      <4> QED BY <4>1, <4>2
    <3> QED BY <3>6, <3>11 DEF Right
  <2> QED BY <2>8, <2>9
<1> QED BY <1>5, <1>7 DEF Follows

(* A message is written: nothing has been told of it yet, and its number   *)
(* is its text.  The one who wrote it tells of it next.                    *)
NewRow(m) ==
  /\ m \in Nat /\ m \notin DOMAIN msgs /\ DOMAIN msgs' = DOMAIN msgs \cup {m} /\ \A x \in DOMAIN msgs : msgs'[x] = msgs[x]
  /\ msgs'[m].text = Cut(m) /\ ~msgs'[m].deleted /\ UNCHANGED <<reacts, raced, lost, chan, page>>
  /\ Announcing(m)' /\ \A x : x # m => (Stored(x)' <=> Stored(x))
  /\ \A v \in Socket : \/ hand'[v] = hand[v]
                       \/ Hush(hand[v]) /\ \A type \in News : Casts(hand'[v], type) =>
                            type = "message" /\ Head(hand'[v]).ev.m = m /\ Cut(Head(hand'[v]).ev.val) = Cut(m)
  /\ \A v \in Socket : \A f \in Range(inbox'[v]) : f \in Range(inbox[v])
  /\ \A v \in Socket : \A f \in Range(inbox[v]) : f \in Range(inbox'[v]) \/ f.type \notin Writes

LEMMA NewRowFollows ==
  ASSUME Types, Types', Follows, Told, NEW m, NewRow(m)
  PROVE  Follows'
<1>1. HandTypes /\ ChanTypes /\ PageTypes /\ RowTypes BY DEF Types
<1>2. DOMAIN page \subseteq DOMAIN chan /\ DOMAIN page \subseteq Socket BY <1>1 DEF ChanTypes, PageTypes
<1>3. /\ m \in Nat /\ m \notin DOMAIN msgs /\ DOMAIN msgs' = DOMAIN msgs \cup {m} /\ \A x \in DOMAIN msgs : msgs'[x] = msgs[x]
      /\ msgs'[m].text = Cut(m) /\ ~msgs'[m].deleted /\ UNCHANGED <<reacts, raced, lost, chan, page>> /\ Announcing(m)'
  BY DEF NewRow
<1>4. \A v \in DOMAIN page : \A x : SameAsked(v, x)
  <2>1. \A v \in Socket : \A f \in Range(inbox[v]) : f \in Range(inbox'[v]) \/ f.type \notin Writes BY DEF NewRow
  <2> QED BY <1>2, <2>1 DEF SameAsked, Asked
<1>5. \A x : Summary(x)' = Summary(x) BY <1>3 DEF Summary
<1>6. FramesMeant' /\ EventsMeant'
  <2>1. \A v \in Socket : hand'[v] = hand[v] \/ \A type \in Writes : Casts(hand[v], type)' => EventMeant(Head(hand[v]).ev)'
    BY DEF NewRow, News, Writes
  <2>2. \A v \in Socket : \A f \in Range(inbox'[v]) : f \in Range(inbox[v]) BY DEF NewRow
  <2> QED BY <1>3, <2>1, <2>2, MeantStep DEF Follows
<1>7. ASSUME NEW x \in Nat, x # m PROVE Right(x)'
  <2>1. \A v \in Socket : hand'[v] = hand[v] \/ \A type \in News : ~TellsOf(hand[v], type, x) /\ ~TellsOf(hand'[v], type, x)
    BY <1>7 DEF NewRow, Hush, TellsOf
  <2>2. SameHopes(x) BY <1>7, <2>1 DEF SameHopes, NewRow
  <2>3. \A v \in DOMAIN chan : SameWay(v, x) BY <1>3 DEF SameWay, Aside
  <2>4. Apart(x) BY <1>3, <1>5, <1>7, <2>2, <2>3 DEF Apart, SameRow
  <2>5. \A v \in DOMAIN page' : SameWay(v, x) /\ SameLook(v, x) /\ SameAsked(v, x) BY <1>2, <1>3, <1>4, <2>3 DEF SameLook, SameEntry
  <2>6. Right(x) BY DEF Follows
  <2> QED BY <1>1, <2>4, <2>5, <2>6, ApartRight
<1>8. \A v \in Socket, type \in News : ~TellsOf(hand[v], type, m)
  <2>1. \A v \in Socket, type \in Writes : ~TellsOf(hand[v], type, m) BY <1>3 DEF Follows, EventsMeant, EventMeant, TellsOf
  <2>2. \A v \in Socket : ~TellsOf(hand[v], "message", m) BY <1>3 DEF Told, Owes, TellsOf
  <2> QED BY <2>1, <2>2 DEF News
<1>9. \A v \in DOMAIN chan : ~Brings(chan[v], About(News, m))
  <2>1. ASSUME NEW v \in DOMAIN chan, NEW k \in DOMAIN chan[v] PROVE chan[v][k] \notin About(News, m)
    <3>1. chan[v][k] \in Range(chan[v]) BY DEF Range
    <3> QED BY <1>3, <3>1 DEF Follows, EventsMeant, EventMeant, Told, About, News
  <2> QED BY <2>1 DEF Brings
<1>10. HandTrue(m)'
  <2>1. ASSUME NEW v \in Socket, NEW type \in News, TellsOf(hand[v], type, m)' PROVE NewsTrue(Head(hand[v]).ev, m)'
    <3>1. hand'[v] # hand[v] BY <1>8, <2>1
    <3>2. type = "message" /\ Cut(Head(hand'[v]).ev.val) = Cut(m) BY <2>1, <3>1 DEF NewRow, TellsOf
    <3>3. Head(hand'[v]).ev.type = "message" BY <2>1, <3>2 DEF TellsOf, Casts
    <3> QED BY <1>3, <3>2, <3>3 DEF NewsTrue
  <2> QED BY <2>1 DEF HandTrue
<1>11. Untouched(m)'
  <2>1. Summary(m)' = 0
    <3>1. \A i : <<m, i>> \notin DOMAIN reacts BY <1>1, <1>3 DEF RowTypes, PerReader
    <3>2. {i \in Person : <<m, i>> \in DOMAIN reacts' /\ ~reacts'[<<m, i>>]} = {} BY <1>3, <3>1
    <3>3. Summary(m)' = Cardinality({}) BY <3>2 DEF Summary, Count
    <3> QED BY <3>3, FS_EmptySet
  <2>2. ASSUME NEW type \in Writes PROVE ~Casting(type, m)'
    <3>1. ASSUME NEW v \in Socket, TellsOf(hand[v], type, m)' PROVE FALSE
      <4>1. type \in News /\ type # "message" BY DEF News, Writes
      <4>2. hand'[v] # hand[v] BY <1>8, <3>1, <4>1
      <4> QED BY <3>1, <4>1, <4>2 DEF NewRow, TellsOf
    <3> QED BY <3>1 DEF Casting
  <2>3. \A v \in DOMAIN chan' : ~Brings(chan'[v], About(Writes, m))
    <3>1. About(Writes, m) \subseteq About(News, m) BY AboutParts
    <3> QED BY <1>3, <1>9, <3>1 DEF Brings
  <2> QED BY <1>3, <2>1, <2>2, <2>3 DEF Untouched
<1>12. ASSUME NEW v \in DOMAIN page, m \in DOMAIN page[v].shown PROVE BubbleTrue(v, m)' BY <1>3 DEF BubbleTrue
<1>13. ASSUME NEW v \in DOMAIN page, m \in Tracked' PROVE Sure(v, m)'
  <2>1. m \notin raced BY <1>3, <1>13 DEF Tracked
  <2>2. CountSure(v, m)' BY <1>3 DEF CountSure
  <2>3. m \in DOMAIN page[v].shown => page[v].shown[m].text = m /\ ~page[v].shown[m].deleted
    BY <1>3, <2>1 DEF Follows, Right, BubbleTrue
  <2>4. TextSure(v, m)'
    <3>1. About({"edit"}, m) \cup Stale(m, Cut(m)) \subseteq About(News, m) BY AboutParts
    <3>2. ~Brings(chan'[v], About({"edit"}, m) \cup Stale(m, msgs'[m].text)) BY <1>2, <1>3, <1>9, <3>1 DEF Brings
    <3> QED BY <1>3, <2>3, <3>2 DEF TextSure, Fresh
  <2>5. BackSure(v, m)' BY <1>3, <2>3 DEF BackSure
  <2> QED BY <1>3, <2>2, <2>4, <2>5 DEF Sure
<1>14. Right(m)' BY <1>3, <1>10, <1>11, <1>12, <1>13 DEF Right
<1> QED BY <1>6, <1>7, <1>14 DEF Follows

LEMMA FollowsCreate ==
  ASSUME Types, Types', Follows, Told, NEW s \in Socket, CreateMessage(s), Arg(s).m \notin DOMAIN msgs
  PROVE  Follows'
<1>0. PICK f, g : f = Arg(s) /\ g = AsStored(f) OBVIOUS
<1>1. HandTypes /\ drawn \in Nat BY DEF Types, HandTypes
<1>2. UNCHANGED <<reacts, raced, lost, chan, page, uploads>> BY DEF CreateMessage, ghosts
<1>3. /\ Begins(s, f) /\ f.type = "message" /\ Move(s, Sends(g), Tail(inbox[s])) /\ Own(drawn, s, f)
      /\ DOMAIN msgs' = DOMAIN msgs \cup {f.m} /\ \A x \in DOMAIN msgs \ {f.m} : msgs'[x] = msgs[x]
      /\ msgs'[f.m] = [by |-> Who[s], text |-> Cut(f.val), deleted |-> FALSE, voice |-> FALSE]
  BY <1>0, TypesCreate DEF CreateMove
<1>18. g.type = "message" /\ g.m = f.m /\ g.val = Cut(f.val) BY <1>0, <1>1, <1>3, StoredFrame
<1>4. f \in Range(inbox[s]) /\ Range(inbox[s]) = {f} \cup Range(Tail(inbox[s])) BY <1>1, <1>3, BoxTail
<1>5. f.val = f.m /\ f.m \in Nat BY <1>3, <1>4 DEF Follows, FramesMeant, FrameMeant, Own, Event
<1>6. hand'[s] = Sends(g) /\ inbox'[s] = Tail(inbox[s]) /\ \A v \in Socket \ {s} : hand'[v] = hand[v] /\ inbox'[v] = inbox[v]
  BY <1>1, <1>3, MoveParts
<1>7. Hush(hand[s])
  <2>1. hand[s] = <<>> BY <1>3 DEF Begins
  <2> QED BY <2>1, Hushes
<1>8. TellsOf(hand'[s], "message", f.m) /\ Head(hand'[s]).ev = g
  <2>1. TellsOf(Sends(g), "message", f.m) /\ Head(Sends(g)).ev = g BY <1>18, FrameShapes DEF TellsOf, Casts, Awaits
  <2> QED BY <1>6, <2>1
<1>9. \A v \in Socket : v = s \/ (hand'[v] = hand[v] /\ inbox'[v] = inbox[v]) BY <1>6
<1>10. \A type : Casts(hand'[s], type) => type = "message" BY <1>8, <1>18 DEF Casts, TellsOf
<1>11. Announcing(f.m)'
  <2>1. TellsOf(hand[s], "message", f.m)' BY <1>8
  <2>2. Casting("message", f.m)' BY <2>1 DEF Casting
  <2> QED BY <2>2 DEF Announcing
<1>12. \A v \in Socket : \A x \in Range(inbox'[v]) : x \in Range(inbox[v]) BY <1>4, <1>6, <1>9
<1>13. \A v \in Socket : \A x \in Range(inbox[v]) : x \in Range(inbox'[v]) \/ x.type \notin Writes
  BY <1>3, <1>4, <1>6, <1>9 DEF Writes
<1>14. \A x : Stored(x)' <=> Stored(x) BY <1>2 DEF Stored
<1>15. f.m \notin DOMAIN msgs BY <1>0
<1>16. msgs'[f.m].text = Cut(f.m) /\ ~msgs'[f.m].deleted BY <1>3, <1>5
<1>19. Head(hand'[s]).ev.m = f.m /\ Cut(Head(hand'[s]).ev.val) = Cut(f.m) BY <1>5, <1>8, <1>18, CutTwice
<1>17. NewRow(f.m) BY <1>2, <1>3, <1>5, <1>7, <1>9, <1>10, <1>11, <1>12, <1>13, <1>14, <1>15, <1>16, <1>19 DEF NewRow
<1> QED BY <1>17, NewRowFollows

LEMMA FollowsStore ==
  ASSUME Types, Types', Follows, Told, Unwritten, NEW m \in DOMAIN uploads, Store(m)
  PROVE  Follows'
<1>1. UNCHANGED <<reacts, raced, lost, chan, page, hand, inbox>> /\ m \notin DOMAIN msgs BY DEF Store, ghosts, Unwritten
<1>2. /\ DOMAIN msgs' = DOMAIN msgs \cup {m} /\ DOMAIN uploads' = DOMAIN uploads /\ m \in 1..drawn /\ uploads'[m].stored
      /\ \A x \in DOMAIN uploads \ {m} : uploads'[x] = uploads[x]
      /\ msgs'[m] = [by |-> Who[uploads[m].by], text |-> Cut(m), deleted |-> FALSE, voice |-> TRUE]
      /\ \A x \in DOMAIN msgs \ {m} : msgs'[x] = msgs[x]
  BY TypesStore
<1>3. Announcing(m)' BY <1>2 DEF Announcing, Stored
<1>4. \A x : x # m => (Stored(x)' <=> Stored(x)) BY <1>2 DEF Stored
<1>5. m \in Nat BY <1>2
<1>6. msgs'[m].text = Cut(m) /\ ~msgs'[m].deleted BY <1>2
<1>7. NewRow(m) BY <1>1, <1>2, <1>3, <1>4, <1>5, <1>6 DEF NewRow
<1> QED BY <1>7, NewRowFollows

(* A frame that will make a message is the only one that will, and the     *)
(* message is not there yet.                                               *)
Makes(f, m) == f.type = "message" /\ f.m = m
Unmade == \A s \in Socket : \A f \in Range(inbox[s]) : f.type = "message" =>
  f.m \notin DOMAIN msgs /\ \A v \in Socket \ {s} : \A g \in Range(inbox[v]) : ~Makes(g, f.m)

LEMMA UnmadeStep ==
  ASSUME Unmade, \A v \in Socket : \A f \in Range(inbox'[v]) : f \in Range(inbox[v]) \/ f.type # "message",
         \A m \in DOMAIN msgs' : m \in DOMAIN msgs \/ \A v \in Socket : \A f \in Range(inbox'[v]) : ~Makes(f, m)
  PROVE  Unmade'
<1> SUFFICES ASSUME NEW s \in Socket, NEW f \in Range(inbox'[s]), f.type = "message"
             PROVE  f.m \notin DOMAIN msgs' /\ \A v \in Socket \ {s} : \A g \in Range(inbox'[v]) : ~Makes(g, f.m)
  BY DEF Unmade
<1>1. f \in Range(inbox[s]) OBVIOUS
<1>2. f.m \notin DOMAIN msgs' BY <1>1 DEF Unmade, Makes
<1>3. ASSUME NEW v \in Socket \ {s}, NEW g \in Range(inbox'[v]), Makes(g, f.m) PROVE FALSE
  <2>1. g \in Range(inbox[v]) BY <1>3 DEF Makes
  <2> QED BY <1>1, <1>3, <2>1 DEF Unmade
<1> QED BY <1>2, <1>3

LEMMA UnmadeHandled ==
  ASSUME Types, Types', [Next]_vars, drawn' = drawn, NEW v \in Socket
  PROVE  \A f \in Range(inbox'[v]) : f \in Range(inbox[v]) \/ f.type # "message"
<1>1. HandTypes /\ drawn \in Nat BY DEF Types, HandTypes
<1>2. inbox[v] \in Seq(Event) BY <1>1, Boxed
<1>3. CASE inbox'[v] = <<>> BY <1>3, RangeEmpty
<1>4. CASE inbox[v] # <<>> /\ inbox'[v] = Tail(inbox[v]) BY <1>2, <1>4, RangeTail
<1>5. CASE Adds(inbox[v], inbox'[v])
  <2>1. CASE inbox'[v] = inbox[v] BY <2>1
  <2>2. ASSUME NEW f \in Event, f.type # "message", inbox'[v] = Append(inbox[v], f)
        PROVE  \A g \in Range(inbox'[v]) : g \in Range(inbox[v]) \/ g.type # "message"
    BY <1>2, <2>2, RangeAppend
  <2> QED BY <1>5, <2>1, <2>2 DEF Adds
<1>6. CASE Drew(v)
  <2>1. PICK f, g \in Event : /\ f.type = "message" /\ f.m = drawn + 1 /\ g.type # "message"
                              /\ inbox'[v] \in {Append(inbox[v], f), Append(Append(inbox[v], f), g)}
    BY <1>6 DEF Drew
  <2>2. Append(inbox[v], f) \in Seq(Event) /\ Range(Append(inbox[v], f)) = Range(inbox[v]) \cup {f}
        /\ Range(Append(Append(inbox[v], f), g)) = Range(inbox[v]) \cup {f, g}
    <3>1. Append(inbox[v], f) \in Seq(Event) BY <1>2
    <3>2. PICK b : b = Append(inbox[v], f) OBVIOUS
    <3>3. b \in Seq(Event) /\ Range(b) = Range(inbox[v]) \cup {f} BY <1>2, <3>1, <3>2, RangeAppend
    <3>4. Range(Append(b, g)) = Range(b) \cup {g} BY <3>3, RangeAppend
    <3> QED BY <3>1, <3>2, <3>3, <3>4
  <2>3. f \in Range(inbox'[v]) BY <2>1, <2>2
  <2>4. \A h \in Range(inbox'[v]) : h.type = "message" => h.m \in 1..drawn
    <3>1. Box(drawn, v, inbox'[v]) BY DEF Types, HandTypes, Fine
    <3> QED BY <3>1 DEF Box, Range, FrameIn, Own, Drawn
  <2> QED BY <1>1, <2>1, <2>3, <2>4
<1>7. Handled(v) BY HandledNext
<1> QED BY <1>3, <1>4, <1>5, <1>6, <1>7 DEF Handled, Kept, Freed, Created

LEMMA UnmadeCreate ==
  ASSUME Types, Types', Once, Unmade, [Next]_vars, NEW s \in Socket, CreateMessage(s)
  PROVE  Unmade'
<1>0. PICK f : f = Arg(s) OBVIOUS
<1>1. HandTypes /\ drawn' = drawn BY DEF Types, CreateMessage
<1>2. Begins(s, f) /\ f.type = "message" /\ Move(s, Sends(AsStored(f)), Tail(inbox[s])) /\ DOMAIN msgs' = DOMAIN msgs \cup {f.m}
  BY <1>0, TypesCreate DEF CreateMove
<1>3. inbox'[s] = Tail(inbox[s]) /\ \A v \in Socket \ {s} : inbox'[v] = inbox[v] BY <1>1, <1>2, MoveParts
<1>4. inbox[s] \in Seq(Event) /\ inbox[s] # <<>> /\ f = Head(inbox[s]) /\ f \in Range(inbox[s])
  BY <1>1, <1>2, Boxed, BoxTail DEF Begins
<1>5. ~InBox(Tail(inbox[s]), f.m)
  <2>1. OnceIn(inbox[s]) BY DEF Once, OnceAt
  <2> QED BY <1>2, <1>4, <2>1, OnceTail
<1>6. \A g \in Range(inbox'[s]) : ~Makes(g, f.m) BY <1>3, <1>5 DEF InBox, Range, Makes
<1>7. \A v \in Socket \ {s} : \A g \in Range(inbox'[v]) : ~Makes(g, f.m) BY <1>2, <1>3, <1>4 DEF Unmade
<1>8. \A v \in Socket : \A g \in Range(inbox'[v]) : g \in Range(inbox[v]) \/ g.type # "message" BY <1>1, UnmadeHandled
<1>9. \A v \in Socket : \A g \in Range(inbox'[v]) : ~Makes(g, f.m) BY <1>6, <1>7
<1> QED BY <1>2, <1>8, <1>9, UnmadeStep

LEMMA UnmadeSend ==
  ASSUME Types, Unmade, NEW s \in DOMAIN page, Send(s)
  PROVE  Unmade'
<1>1. HandTypes /\ drawn \in Nat /\ DOMAIN msgs \subseteq 1..drawn /\ msgs' = msgs BY DEF Types, HandTypes, RowTypes, Send, rows
<1>2. s \in Socket /\ drawn' = drawn + 1 BY TypesSend
<1>3. PICK b, f : /\ inbox' = [inbox EXCEPT ![s] = b] /\ f = Asks(s, "message", drawn', drawn') /\ FrameIn(drawn', s, f)
                  /\ \/ b = Append(inbox[s], f)
                     \/ b = Append(Append(inbox[s], f), Asks(s, "typing_stop", 0, 0))
  BY TypesSend
<1>4. inbox'[s] = b /\ \A v \in Socket \ {s} : inbox'[v] = inbox[v] BY <1>1, <1>2, <1>3, InboxParts
<1>5. PICK g : g = Asks(s, "typing_stop", 0, 0) OBVIOUS
<1>6. f \in Event /\ f.m = drawn + 1 /\ g \in Event /\ g.type # "message"
  <2>1. g \in Event /\ g.type = "typing_stop" BY <1>1, <1>2, <1>5, AskFrame DEF FrameIn, Own, FrameTypes
  <2> QED BY <1>2, <1>3, <2>1 DEF Asks, Ev, FrameIn, Own
<1>7. \A h \in Range(b) : h \in Range(inbox[s]) \/ h = f \/ h.type # "message"
  <2>1. inbox[s] \in Seq(Event) BY <1>1, <1>2, Boxed
  <2>2. PICK c : c = Append(inbox[s], f) OBVIOUS
  <2>3. c \in Seq(Event) /\ Range(c) = Range(inbox[s]) \cup {f} BY <1>6, <2>1, <2>2, RangeAppend
  <2>4. Range(Append(c, g)) = Range(c) \cup {g} BY <1>6, <2>3, RangeAppend
  <2> QED BY <1>3, <1>5, <1>6, <2>2, <2>3, <2>4
<1>8. \A v \in Socket : \A h \in Range(inbox[v]) : h.type = "message" => h.m # drawn + 1
  BY <1>1, Boxed DEF FrameIn, Own, Drawn
<1>9. drawn + 1 \notin DOMAIN msgs BY <1>1
<1>10. \A v \in Socket : \A h \in Range(inbox'[v]) : h.type = "message" => h \in Range(inbox[v]) \/ (v = s /\ h = f)
  BY <1>4, <1>7
<1> SUFFICES ASSUME NEW u \in Socket, NEW x \in Range(inbox'[u]), x.type = "message"
             PROVE  x.m \notin DOMAIN msgs /\ \A v \in Socket \ {u} : \A h \in Range(inbox'[v]) : ~Makes(h, x.m)
  BY <1>1 DEF Unmade
<1>11. CASE x \in Range(inbox[u])
  <2>1. x.m \notin DOMAIN msgs /\ x.m # drawn + 1 BY <1>8, <1>11 DEF Unmade
  <2>2. ASSUME NEW v \in Socket \ {u}, NEW h \in Range(inbox'[v]), Makes(h, x.m) PROVE FALSE
    BY <1>6, <1>10, <1>11, <2>1, <2>2 DEF Unmade, Makes
  <2> QED BY <2>1, <2>2
<1>12. CASE u = s /\ x = f BY <1>6, <1>8, <1>9, <1>10, <1>12 DEF Makes
<1> QED BY <1>10, <1>11, <1>12

LEMMA UnmadeNext ==
  ASSUME Types, Types', Once, Unwritten, Unmade, [Next]_vars
  PROVE  Unmade'
<1>1. CASE Plain BY <1>1, UnmadeStep DEF Plain
<1>2. CASE Restart
  <2>1. UNCHANGED <<msgs, drawn>> BY <1>2 DEF Restart, rows
  <2> QED BY <2>1, UnmadeHandled, UnmadeStep
<1>3. ASSUME NEW s \in Socket, Telltale(s) PROVE Unmade'
  <2>1. CASE CreateMessage(s) BY <2>1, UnmadeCreate
  <2>2. CASE ~CreateMessage(s)
    <3>1. UNCHANGED <<msgs, drawn>> BY <1>3, <2>2 DEF Telltale, Connect, History, Discard, Broadcast, Fanout, Toggle, rows
    <3> QED BY <3>1, UnmadeHandled, UnmadeStep
  <2> QED BY <2>1, <2>2
<1>4. ASSUME NEW s \in DOMAIN page, PageMakes(s) PROVE Unmade'
  <2>1. CASE Send(s) BY <2>1, UnmadeSend
  <2>2. CASE SendVoice(s)
    <3>1. HandTypes /\ drawn \in Nat /\ msgs' = msgs /\ s \in Socket BY <2>2, TypesSendVoice DEF Types, HandTypes, SendVoice, rows
    <3>2. PICK g : g = Asks(s, "recording_stop", 0, 0) OBVIOUS
    <3>3. inbox' = [inbox EXCEPT ![s] = Append(inbox[s], g)] BY <2>2, <3>2, TypesSendVoice DEF SaysOne
    <3>4. g \in Event /\ g.type # "message" BY <3>1, <3>2, AskFrame DEF FrameIn, Own, FrameTypes
    <3>5. Range(Append(inbox[s], g)) = Range(inbox[s]) \cup {g} BY <3>1, <3>4, BoxAppend
    <3>6. \A v \in Socket : inbox'[v] = inbox[v] \/ (v = s /\ inbox'[v] = Append(inbox[s], g)) BY <3>1, <3>3, InboxParts
    <3>7. \A v \in Socket : \A f \in Range(inbox'[v]) : f \in Range(inbox[v]) \/ f.type # "message" BY <3>4, <3>5, <3>6
    <3> QED BY <3>1, <3>7, UnmadeStep
  <2>3. CASE CloseSocket(s)
    <3>1. UNCHANGED <<msgs, drawn>> BY <2>3 DEF CloseSocket, rows
    <3> QED BY <3>1, UnmadeHandled, UnmadeStep
  <2> QED BY <1>4, <2>1, <2>2, <2>3 DEF PageMakes
<1>5. ASSUME NEW m \in DOMAIN uploads, Uploading(m) PROVE Unmade'
  <2>1. inbox' = inbox BY <1>5 DEF Uploading, Store, Announce, Refuse
  <2>2. \A x \in DOMAIN msgs' : x \in DOMAIN msgs \/ \A v \in Socket : \A f \in Range(inbox'[v]) : ~Makes(f, x)
    <3>1. CASE Store(m)
      <4>1. DOMAIN msgs' = DOMAIN msgs \cup {m} BY <3>1, TypesStore
      <4> QED BY <2>1, <4>1 DEF Unwritten, Makes
    <3>2. CASE ~Store(m)
      <4>1. msgs' = msgs BY <1>5, <3>2 DEF Uploading, Announce, Refuse, rows
      <4> QED BY <4>1
    <3> QED BY <3>1, <3>2
  <2> QED BY <2>1, <2>2, UnmadeStep
<1> QED BY <1>1, <1>2, <1>3, <1>4, <1>5, Steps

LEMMA UnmadeInit == ASSUME Init PROVE Unmade
BY InitFacts, RangeEmpty DEF Unmade

(* A handler writes: it reacts to message m, edits or deletes it, and it   *)
(* tells of that next.                                                     *)
Writing(s, m, ev) ==
  /\ m \in Alive /\ ev \in Event /\ ev.type \in Writes /\ ev.m = m
  /\ hand[s] = <<>> /\ hand'[s] = Tells(ev) /\ \A v \in Socket \ {s} : hand'[v] = hand[v] /\ inbox'[v] = inbox[v]
  /\ Range(inbox'[s]) \subseteq Range(inbox[s])
  /\ \A f \in Range(inbox[s]) : f \in Range(inbox'[s]) \/ (f.type = ev.type /\ f.m = m)
  /\ Races(s, m) /\ UNCHANGED <<chan, page, uploads, lost>>
  /\ DOMAIN msgs' = DOMAIN msgs /\ \A x \in DOMAIN msgs : msgs'[x].by = msgs[x].by /\ (x = m \/ SameRow(x))
  /\ NewsTrue(ev, m)'
  /\ ev.type # "reaction" => Summary(m)' = Summary(m)
  /\ ev.type # "edit" => msgs'[m].text = msgs[m].text
  /\ ev.type # "delete" => ~msgs'[m].deleted

LEMMA WritingHopes ==
  ASSUME NEW s \in Socket, NEW m, NEW ev, Writing(s, m, ev)
  PROVE  /\ \A v \in Socket : \A type : TellsOf(hand'[v], type, m) <=> (v = s /\ type = ev.type) \/ (v # s /\ TellsOf(hand[v], type, m))
         /\ \A type : ~TellsOf(hand[s], type, m)
         /\ Casting(ev.type, m)' /\ (Announcing(m)' <=> Announcing(m)) /\ Head(hand'[s]).ev = ev
<1>1. Casts(Tells(ev), ev.type) /\ Head(Tells(ev)).ev = ev BY FrameShapes DEF Casts, Awaits
<1>2. hand'[s] = Tells(ev) /\ ev.m = m /\ hand[s] = <<>> BY DEF Writing
<1>3. \A type : TellsOf(hand'[s], type, m) <=> type = ev.type BY <1>1, <1>2 DEF TellsOf, Casts
<1>4. \A type : ~TellsOf(hand[s], type, m) BY <1>2 DEF TellsOf, Casts, Awaits
<1>5. \A v \in Socket \ {s} : hand'[v] = hand[v] BY DEF Writing
<1>6. \A v \in Socket : \A type : TellsOf(hand'[v], type, m) <=> (v = s /\ type = ev.type) \/ (v # s /\ TellsOf(hand[v], type, m))
  BY <1>3, <1>5
<1>7. TellsOf(hand[s], ev.type, m)' BY <1>3
<1>8. Casting(ev.type, m)' BY <1>7 DEF Casting
<1>9. ev.type # "message" BY DEF Writing, Writes
<1>10. ASSUME NEW v \in Socket PROVE TellsOf(hand'[v], "message", m) <=> TellsOf(hand[v], "message", m) BY <1>4, <1>6, <1>9
<1>11. Casting("message", m)' <=> Casting("message", m) BY <1>10 DEF Casting
<1>12. Stored(m)' <=> Stored(m) BY DEF Writing, Stored
<1> QED BY <1>1, <1>2, <1>4, <1>6, <1>8, <1>11, <1>12 DEF Announcing

(* Nobody else is about to tell of m, and it is known what is on its way.  *)
LEMMA WritingSure ==
  ASSUME NEW s \in Socket, NEW m, NEW ev, Writing(s, m, ev), ~Pending(s, m), m \in Tracked, NEW v \in DOMAIN page, v \in Socket, Sure(v, m)
  PROVE  Sure(v, m)'
<1>1. /\ ~msgs[m].deleted /\ m \in DOMAIN msgs /\ ev.type \in Writes /\ UNCHANGED <<chan, page>> /\ NewsTrue(ev, m)'
      /\ ev.type # "reaction" => Summary(m)' = Summary(m)
      /\ ev.type # "edit" => msgs'[m].text = msgs[m].text
      /\ ev.type # "delete" => ~msgs'[m].deleted
  BY DEF Writing, Alive
<1>2. Casting(ev.type, m)' BY WritingHopes
<1>3. \A type : ~Casting(type, m)
  <2>1. ASSUME NEW u \in Socket, NEW type, TellsOf(hand[u], type, m) PROVE FALSE
    <3>1. u # s BY <2>1, WritingHopes
    <3> QED BY <2>1, <3>1 DEF TellsOf, Casts, Awaits, Pending
  <2> QED BY <2>1 DEF Casting
<1>4. ~Announcing(m) BY <1>3 DEF Announcing, Stored, Pending
<1>5. \A type : type # ev.type /\ Asked(v, type, m) => Asked(v, type, m)'
  <2>1. \A f \in Range(inbox[v]) : f \in Range(inbox'[v]) \/ (f.type = ev.type /\ f.m = m) BY DEF Writing
  <2> QED BY <2>1 DEF Asked
<1>6. Fresh(v, m)' <=> Fresh(v, m) BY <1>1 DEF Fresh
<1>7. CASE msgs'[m].deleted BY <1>1, <1>2, <1>7 DEF Sure, GoneSure
<1>8. CASE ~msgs'[m].deleted
  <2>1. ev.type # "delete" BY <1>1, <1>8 DEF NewsTrue
  <2>2. CountSure(v, m) /\ TextSure(v, m) /\ BackSure(v, m) BY <1>1 DEF Sure
  <2>3. CountSure(v, m)'
    <3>1. CASE ev.type = "reaction" BY <1>2, <3>1 DEF CountSure
    <3>2. CASE ev.type # "reaction" BY <1>1, <1>3, <1>4, <1>5, <1>6, <2>2, <3>2 DEF CountSure
    <3> QED BY <3>1, <3>2
  <2>4. TextSure(v, m)'
    <3>1. CASE ev.type = "edit" BY <1>2, <3>1 DEF TextSure
    <3>2. CASE ev.type # "edit" BY <1>1, <1>3, <1>5, <1>6, <2>2, <3>2 DEF TextSure
    <3> QED BY <3>1, <3>2
  <2>5. BackSure(v, m)' BY <1>1, <1>5, <2>1, <2>2 DEF BackSure
  <2> QED BY <1>8, <2>3, <2>4, <2>5 DEF Sure
<1> QED BY <1>7, <1>8

LEMMA WritingFollows ==
  ASSUME Types, Follows, NEW s \in Socket, NEW m, NEW ev, Writing(s, m, ev)
  PROVE  Follows'
<1>1. ChanTypes /\ PageTypes BY DEF Types
<1>2. DOMAIN page \subseteq DOMAIN chan /\ DOMAIN page \subseteq Socket BY <1>1 DEF ChanTypes, PageTypes
<1>3. m \in Alive /\ m \in DOMAIN msgs /\ m \in Nat BY NoZero DEF Writing, Alive
<1>4. /\ UNCHANGED <<chan, page, uploads, lost>> /\ DOMAIN msgs' = DOMAIN msgs /\ ev.type \in Writes /\ ev.m = m
      /\ raced \subseteq raced' /\ (Pending(s, m) => m \in raced')
      /\ \A x \in DOMAIN msgs : msgs'[x].by = msgs[x].by /\ (x = m \/ SameRow(x))
      /\ NewsTrue(ev, m)'
  BY DEF Writing, Races
<1>5. \A v \in Socket : v = s \/ (hand'[v] = hand[v] /\ inbox'[v] = inbox[v]) BY DEF Writing
<1>6. \A v \in Socket : \A f \in Range(inbox'[v]) : f \in Range(inbox[v]) BY <1>5 DEF Writing
<1>7. \A v \in Socket : \A f \in Range(inbox[v]) : f \in Range(inbox'[v]) \/ (f.type = ev.type /\ f.m = m)
  BY <1>5 DEF Writing
<1>8. FramesMeant' /\ EventsMeant'
  <2>1. \A x \in DOMAIN msgs : msgs[x].deleted => msgs'[x].deleted BY <1>3, <1>4 DEF SameRow, Alive
  <2>2. Head(hand'[s]).ev = ev BY WritingHopes
  <2>3. EventMeant(ev)' BY <1>3, <1>4 DEF EventMeant, NewsTrue
  <2>4. EventMeant(Head(hand[s]).ev)' BY <2>2, <2>3 DEF EventMeant
  <2>5. \A v \in Socket : hand'[v] = hand[v] \/ \A type \in Writes : Casts(hand[v], type)' => EventMeant(Head(hand[v]).ev)'
    BY <1>5, <2>4
  <2> QED BY <1>4, <1>6, <2>1, <2>5, MeantStep DEF Follows
<1>9. ASSUME NEW x \in Nat, x # m PROVE Right(x)'
  <2>1. \A type : ~TellsOf(hand[s], type, x) /\ ~TellsOf(hand'[s], type, x)
    <3>1. Head(hand'[s]).ev.m # x BY <1>4, <1>9, WritingHopes
    <3>2. hand[s] = <<>> BY DEF Writing
    <3> QED BY <3>1, <3>2 DEF TellsOf, Casts, Awaits
  <2>2. Stored(x)' <=> Stored(x) BY <1>4 DEF Stored
  <2>3. SameHopes(x) BY <1>5, <2>1, <2>2 DEF SameHopes
  <2>4. \A v \in DOMAIN chan : SameWay(v, x) BY <1>4 DEF SameWay, Aside
  <2>5. Apart(x) BY <1>4, <1>9, <2>3, <2>4 DEF Apart
  <2>6. \A v \in DOMAIN page : SameAsked(v, x) BY <1>2, <1>7, <1>9 DEF SameAsked, Asked
  <2>7. \A v \in DOMAIN page' : SameWay(v, x) /\ SameLook(v, x) /\ SameAsked(v, x)
    BY <1>2, <1>4, <2>4, <2>6 DEF SameLook, SameEntry
  <2>8. Right(x) BY DEF Follows
  <2> QED BY <1>1, <2>5, <2>7, <2>8, ApartRight
<1>10. Right(m)'
  <2>1. Right(m) BY <1>3 DEF Follows
  <2>2. Announcing(m)' <=> Announcing(m) BY WritingHopes
  <2>3. ASSUME NEW v \in DOMAIN page, m \in DOMAIN page[v].shown PROVE BubbleTrue(v, m)'
    <3>1. BubbleTrue(v, m) BY <2>1, <2>3 DEF Right
    <3> QED BY <1>3, <1>4, <2>2, <3>1 DEF BubbleTrue
  <2>4. ASSUME m \in Tracked' PROVE m \in Tracked /\ ~Pending(s, m) BY <1>4, <2>4 DEF Tracked
  <2>5. ASSUME m \in Tracked' PROVE HandTrue(m)' /\ ~Announcing(m)'
    <3>1. \A u \in Socket : \A type : ~TellsOf(hand[u], type, m)
      <4>1. \A u \in Socket \ {s} : \A type : ~TellsOf(hand[u], type, m) BY <2>4, <2>5 DEF TellsOf, Casts, Awaits, Pending
      <4> QED BY <4>1, WritingHopes
    <3>2. ~Announcing(m) BY <2>4, <2>5, <3>1 DEF Announcing, Casting, Stored, Pending
    <3>3. ASSUME NEW u \in Socket, NEW type \in News, TellsOf(hand[u], type, m)' PROVE NewsTrue(Head(hand[u]).ev, m)'
      <4>1. TellsOf(hand'[u], type, m) BY <3>3
      <4>2. u = s BY <3>1, <4>1, WritingHopes
      <4>3. Head(hand'[u]).ev = ev BY <4>2, WritingHopes
      <4>4. Summary(m)' = Summary(m)' /\ msgs' = msgs' OBVIOUS
      <4> QED BY <1>4, <4>3 DEF NewsTrue
    <3> QED BY <2>2, <3>2, <3>3 DEF HandTrue
  <2>6. ASSUME m \in Tracked', NEW v \in DOMAIN page PROVE Sure(v, m)'
    <3>1. Sure(v, m) BY <2>1, <2>4, <2>6 DEF Right
    <3> QED BY <1>2, <2>4, <2>6, <3>1, WritingSure
  <2> QED BY <1>4, <2>3, <2>5, <2>6 DEF Right
<1> QED BY <1>8, <1>9, <1>10 DEF Follows

LEMMA WritingMove ==
  ASSUME Types, NEW s \in Socket, NEW f, NEW ev, NEW m, Begins(s, f), f.m = m, m \in Alive, f.type = ev.type,
         ev \in Event, ev.type \in Writes, ev.m = m, Move(s, Tells(ev), Tail(inbox[s])), Races(s, m),
         UNCHANGED <<chan, page, uploads, lost>>,
         DOMAIN msgs' = DOMAIN msgs, \A x \in DOMAIN msgs : msgs'[x].by = msgs[x].by /\ (x = m \/ SameRow(x)),
         NewsTrue(ev, m)', ev.type # "reaction" => Summary(m)' = Summary(m),
         ev.type # "edit" => msgs'[m].text = msgs[m].text, ev.type # "delete" => ~msgs'[m].deleted
  PROVE  Writing(s, m, ev)
<1>1. HandTypes BY DEF Types
<1>2. Range(inbox[s]) = {f} \cup Range(Tail(inbox[s])) BY <1>1, BoxTail
<1>3. /\ hand'[s] = Tells(ev) /\ inbox'[s] = Tail(inbox[s])
      /\ \A v \in Socket \ {s} : hand'[v] = hand[v] /\ inbox'[v] = inbox[v]
  BY <1>1, MoveParts
<1>4. Range(inbox'[s]) \subseteq Range(inbox[s]) BY <1>2, <1>3
<1>5. \A g \in Range(inbox[s]) : g \in Range(inbox'[s]) \/ (g.type = ev.type /\ g.m = m) BY <1>2, <1>3
<1>6. hand[s] = <<>> BY DEF Begins
<1> QED BY <1>3, <1>4, <1>5, <1>6 DEF Writing

LEMMA FollowsToggle ==
  ASSUME Types, Follows, NEW s \in Socket, Toggle(s), Arg(s).m \in Alive, ~Tombstone(s)
  PROVE  Follows'
<1>0. PICK f, ev, m : f = Arg(s) /\ ev = ReactEvent(s) /\ m = Arg(s).m OBVIOUS
<1>1. /\ Begins(s, f) /\ Own(drawn, s, f) /\ f.type = "reaction"
      /\ reacts' = Reacted(s) /\ Races(s, m) /\ Own(drawn, s, ev) /\ ev.type = "reaction" /\ ev.m = m
      /\ ev.val = Count(Reacted(s), m) /\ Move(s, Tells(ev), Tail(inbox[s])) /\ UNCHANGED <<chan, page>>
  BY <1>0, TypesToggle
<1>2. UNCHANGED <<msgs, uploads, lost>> BY DEF Toggle
<1>3. ev \in Event BY <1>1 DEF Own
<1>4. ev.val = Summary(m)' BY <1>1 DEF Summary
<1>5. \A x : x # m => Summary(x)' = Summary(x)
  <2> SUFFICES ASSUME NEW x, x # m PROVE Count(reacts', x) = Count(reacts, x) BY DEF Summary
  <2>1. reacts' = Put(reacts, <<m, Who[s]>>, <<m, Who[s]>> \in DOMAIN reacts) BY <1>0, <1>1 DEF Reacted, ReactKey
  <2>2. \A i \in Person : <<x, i>> # <<m, Who[s]>> OBVIOUS
  <2>3. \A i \in Person : /\ <<x, i>> \in DOMAIN reacts' <=> <<x, i>> \in DOMAIN reacts
                          /\ <<x, i>> \in DOMAIN reacts => reacts'[<<x, i>>] = reacts[<<x, i>>]
    BY <2>1, <2>2 DEF Put
  <2>4. {i \in Person : <<x, i>> \in DOMAIN reacts' /\ ~reacts'[<<x, i>>]} = {i \in Person : <<x, i>> \in DOMAIN reacts /\ ~reacts[<<x, i>>]}
    BY <2>3
  <2> QED BY <2>4 DEF Count
<1>6. \A x \in DOMAIN msgs : msgs'[x].by = msgs[x].by /\ (x = m \/ SameRow(x)) BY <1>2, <1>5 DEF SameRow
<1>7. m \in Alive /\ ~msgs[m].deleted BY <1>0 DEF Alive
<1>8. NewsTrue(ev, m)' BY <1>1, <1>4 DEF NewsTrue
<1>9. f.m = m /\ ev.type \in Writes BY <1>0, <1>1 DEF Writes
<1>10. Writing(s, m, ev) BY <1>1, <1>2, <1>3, <1>6, <1>7, <1>8, <1>9, WritingMove
<1> QED BY <1>10, WritingFollows

LEMMA FollowsEdit ==
  ASSUME Types, Follows, NEW s \in Socket, EditMessage(s) \/ DeleteMessage(s), Mine(s, Arg(s).m)
  PROVE  Follows'
<1>0. PICK f, m : f = Arg(s) /\ m = Arg(s).m OBVIOUS
<1>1. /\ Begins(s, f) /\ Own(drawn, s, f) /\ Races(s, m) /\ Move(s, Tells(f), Tail(inbox[s]))
      /\ \/ f.type = "edit" /\ msgs' = [msgs EXCEPT ![m].text = Cut(f.val)]
         \/ f.type = "delete" /\ msgs' = [msgs EXCEPT ![m].deleted = TRUE]
  BY <1>0, TypesEdit, TypesDelete
<1>2. UNCHANGED <<reacts, uploads, lost, chan, page>> BY DEF EditMessage, DeleteMessage
<1>3. f \in Event /\ f.m = m /\ f.type \in Writes BY <1>0, <1>1 DEF Own, Writes
<1>4. m \in Alive /\ m \in DOMAIN msgs /\ ~msgs[m].deleted BY <1>0 DEF Mine, Alive
<1>5. msgs \in [DOMAIN msgs -> MessageType] BY DEF Types, RowTypes
<1>6. msgs[m] \in MessageType BY <1>4, <1>5
<1>7. /\ DOMAIN msgs' = DOMAIN msgs /\ \A x \in DOMAIN msgs : x # m => msgs'[x] = msgs[x]
      /\ msgs'[m].by = msgs[m].by
      /\ f.type = "edit" => msgs'[m].text = Cut(f.val) /\ msgs'[m].deleted = msgs[m].deleted
      /\ f.type = "delete" => msgs'[m].text = msgs[m].text /\ msgs'[m].deleted
  <2>1. CASE f.type = "edit" /\ msgs' = [msgs EXCEPT ![m].text = Cut(f.val)]
    <3>1. msgs' = [msgs EXCEPT ![m] = [msgs[m] EXCEPT !.text = Cut(f.val)]] BY <1>4, <2>1
    <3>2. msgs'[m] = [msgs[m] EXCEPT !.text = Cut(f.val)] BY <1>4, <1>5, <3>1
    <3> QED BY <1>4, <1>5, <1>6, <2>1, <3>1, <3>2 DEF MessageType
  <2>2. CASE f.type = "delete" /\ msgs' = [msgs EXCEPT ![m].deleted = TRUE]
    <3>1. msgs' = [msgs EXCEPT ![m] = [msgs[m] EXCEPT !.deleted = TRUE]] BY <1>4, <2>2
    <3>2. msgs'[m] = [msgs[m] EXCEPT !.deleted = TRUE] BY <1>4, <1>5, <3>1
    <3> QED BY <1>4, <1>5, <1>6, <2>2, <3>1, <3>2 DEF MessageType
  <2> QED BY <1>1, <2>1, <2>2
<1>8. \A x : Summary(x)' = Summary(x) BY <1>2 DEF Summary
<1>9. \A x \in DOMAIN msgs : msgs'[x].by = msgs[x].by /\ (x = m \/ SameRow(x)) BY <1>7, <1>8 DEF SameRow
<1>10. NewsTrue(f, m)' BY <1>1, <1>7 DEF NewsTrue
<1>11. f.type = "edit" \/ f.type = "delete" BY <1>1
<1>12. f.type # "edit" => msgs'[m].text = msgs[m].text BY <1>7, <1>11
<1>13. f.type # "delete" => ~msgs'[m].deleted BY <1>4, <1>7, <1>11
<1>14. Writing(s, m, f) BY <1>1, <1>2, <1>3, <1>4, <1>7, <1>8, <1>9, <1>10, <1>12, <1>13, WritingMove
<1> QED BY <1>14, WritingFollows

(* The page shows a message being sent: it is nowhere else yet.            *)
Sending(s, m, q) ==
  /\ m = drawn + 1 /\ page' = [page EXCEPT ![s] = q] /\ q.shown = Put(page[s].shown, m, Bubble(s, m))
  /\ UNCHANGED <<msgs, reacts, raced, lost, hand, chan>> /\ \A x : Stored(x)' <=> Stored(x)
  /\ \A v \in Socket : \A f \in Range(inbox'[v]) : f \in Range(inbox[v]) \/ (f.type \notin Writes /\ (f.type = "message" => f.val = f.m))
  /\ \A v \in Socket : Range(inbox[v]) \subseteq Range(inbox'[v])

LEMMA BubblesFollow ==
  ASSUME Types, Follows, NEW s \in DOMAIN page, NEW m, NEW q, Sending(s, m, q)
  PROVE  Follows'
<1>1. ChanTypes /\ PageTypes /\ drawn \in Nat /\ DOMAIN msgs \subseteq 1..drawn BY DEF Types, RowTypes
<1>2. /\ m = drawn + 1 /\ page' = [page EXCEPT ![s] = q] /\ q.shown = Put(page[s].shown, m, Bubble(s, m))
      /\ UNCHANGED <<msgs, reacts, raced, lost, hand, chan>> /\ \A x : Stored(x)' <=> Stored(x)
  BY DEF Sending
<1>3. DOMAIN page \subseteq DOMAIN chan /\ DOMAIN page \subseteq Socket BY <1>1 DEF ChanTypes, PageTypes
<1>4. DOMAIN page' = DOMAIN page /\ page'[s] = q /\ \A v \in DOMAIN page \ {s} : page'[v] = page[v] BY <1>1, <1>2, PageParts
<1>5. m \notin DOMAIN msgs /\ \A v \in DOMAIN page : m \notin DOMAIN page[v].shown
  <2>1. \A v \in DOMAIN page : DOMAIN page[v].shown \subseteq 1..drawn
    <3>1. \A v \in DOMAIN page : page[v].shown \in Shown(drawn) BY <1>1, PageAt, PageGet
    <3> QED BY <3>1 DEF Shown
  <2>2. m \notin 1..drawn BY <1>1, <1>2
  <2> QED BY <1>1, <2>1, <2>2
<1>6. DOMAIN q.shown = DOMAIN page[s].shown \cup {m} /\ q.shown[m] = Bubble(s, m)
      /\ \A x \in DOMAIN page[s].shown : q.shown[x] = page[s].shown[x]
  BY <1>2, <1>5 DEF Put
<1>7. FramesMeant' /\ EventsMeant'
  <2>1. \A v \in Socket : \A f \in Range(inbox'[v]) : f \in Range(inbox[v]) \/ FrameMeant(v, f)' BY DEF Sending, FrameMeant, Writes
  <2> QED BY <1>2, <2>1, MeantStep DEF Follows
<1>8. ASSUME NEW x \in Nat, x # m PROVE Right(x)'
  <2>1. SameHopes(x) BY <1>2 DEF SameHopes
  <2>2. \A v \in DOMAIN chan : SameWay(v, x) BY <1>2 DEF SameWay, Aside
  <2>3. Summary(x)' = Summary(x) BY <1>2 DEF Summary
  <2>4. Apart(x) BY <1>2, <2>1, <2>2, <2>3 DEF Apart, SameRow
  <2>5. \A v \in DOMAIN page : SameAsked(v, x) BY <1>3 DEF SameAsked, Asked, Sending
  <2>6. SameLook(s, x) BY <1>4, <1>6, <1>8 DEF SameLook, SameEntry
  <2>7. \A v \in DOMAIN page \ {s} : SameLook(v, x) BY <1>4 DEF SameLook, SameEntry
  <2>8. \A v \in DOMAIN page' : SameWay(v, x) /\ SameLook(v, x) /\ SameAsked(v, x) BY <1>3, <1>4, <2>2, <2>5, <2>6, <2>7
  <2>9. Right(x) BY DEF Follows
  <2> QED BY <1>1, <2>4, <2>8, <2>9, ApartRight
<1>9. Right(m)'
  <2>1. m \notin Tracked' BY <1>2, <1>5 DEF Tracked
  <2>2. LET e == Bubble(s, m) IN e.bubble = "unconfirmed" /\ e.text = m /\ ~e.deleted BY DEF Bubble
  <2>3. \A v \in DOMAIN page' : m \in DOMAIN page'[v].shown => v = s BY <1>4, <1>5
  <2>4. page'[s].shown[m] = Bubble(s, m) BY <1>4, <1>6
  <2>5. BubbleTrue(s, m)' BY <1>2, <1>5, <2>2, <2>4 DEF BubbleTrue
  <2>6. \A v \in DOMAIN page' : m \in DOMAIN page'[v].shown => BubbleTrue(v, m)' BY <2>3, <2>5
  <2> QED BY <2>1, <2>6 DEF Right
<1> QED BY <1>7, <1>8, <1>9 DEF Follows

LEMMA FollowsSend ==
  ASSUME Types, Follows, NEW s \in DOMAIN page, Send(s)
  PROVE  Follows'
<1>1. HandTypes /\ drawn \in Nat BY DEF Types, HandTypes
<1>2. UNCHANGED <<msgs, reacts, raced, lost, hand, chan, uploads>> BY DEF Send, rows, ghosts
<1>3. s \in Socket /\ drawn' = drawn + 1 BY TypesSend
<1>4. PICK q, b, f : /\ page' = [page EXCEPT ![s] = q] /\ inbox' = [inbox EXCEPT ![s] = b]
                     /\ q.shown = Put(page[s].shown, drawn', Bubble(s, drawn'))
                     /\ f = Asks(s, "message", drawn', drawn') /\ FrameIn(drawn', s, f)
                     /\ \/ b = Append(inbox[s], f)
                        \/ b = Append(Append(inbox[s], f), Asks(s, "typing_stop", 0, 0))
  BY TypesSend
<1>5. PICK g : g = Asks(s, "typing_stop", 0, 0) OBVIOUS
<1>6. inbox'[s] = b /\ \A v \in Socket \ {s} : inbox'[v] = inbox[v] BY <1>1, <1>3, <1>4, InboxParts
<1>7. f \in Event /\ f.type = "message" /\ f.val = f.m /\ g \in Event /\ g.type = "typing_stop"
  <2>1. g \in Event /\ g.type = "typing_stop" BY <1>1, <1>3, <1>5, AskFrame DEF FrameIn, Own, FrameTypes
  <2> QED BY <1>3, <1>4, <2>1 DEF Asks, Ev, FrameIn, Own
<1>8. Range(inbox[s]) \subseteq Range(b) /\ \A h \in Range(b) : h \in Range(inbox[s]) \/ h = f \/ h = g
  <2>1. inbox[s] \in Seq(Event) BY <1>1, <1>3, Boxed
  <2>2. PICK c : c = Append(inbox[s], f) OBVIOUS
  <2>3. c \in Seq(Event) /\ Range(c) = Range(inbox[s]) \cup {f} BY <1>7, <2>1, <2>2, RangeAppend
  <2>4. Range(Append(c, g)) = Range(c) \cup {g} BY <1>7, <2>3, RangeAppend
  <2> QED BY <1>4, <1>5, <2>2, <2>3, <2>4
<1>9. PICK m : m = drawn + 1 OBVIOUS
<1>10. \A v \in Socket : v = s \/ inbox'[v] = inbox[v] BY <1>6
<1>11. \A v \in Socket : \A h \in Range(inbox'[v]) : h \in Range(inbox[v]) \/ h = f \/ h = g BY <1>6, <1>8, <1>10
<1>12. \A v \in Socket : Range(inbox[v]) \subseteq Range(inbox'[v]) BY <1>6, <1>8, <1>10
<1>13. \A x : Stored(x)' <=> Stored(x) BY <1>2 DEF Stored
<1>14. \A v \in Socket : \A h \in Range(inbox'[v]) : h \in Range(inbox[v]) \/ (h.type \notin Writes /\ (h.type = "message" => h.val = h.m))
  BY <1>7, <1>11 DEF Writes
<1>15. Sending(s, m, q) BY <1>2, <1>3, <1>4, <1>9, <1>12, <1>13, <1>14 DEF Sending
<1> QED BY <1>15, BubblesFollow

LEMMA FollowsSendVoice ==
  ASSUME Types, Follows, NEW s \in DOMAIN page, SendVoice(s)
  PROVE  Follows'
<1>1. HandTypes /\ drawn \in Nat /\ DOMAIN uploads \subseteq 1..drawn BY DEF Types, HandTypes, RowTypes
<1>2. UNCHANGED <<msgs, reacts, raced, lost, hand, chan>> BY DEF SendVoice, rows, ghosts
<1>3. s \in Socket /\ drawn' = drawn + 1 /\ uploads' = Put(uploads, drawn', [by |-> s, stored |-> FALSE]) BY TypesSendVoice
<1>4. PICK g : g = Asks(s, "recording_stop", 0, 0) OBVIOUS
<1>5. PICK q : SaysOne(s, q, g) /\ q.shown = Put(page[s].shown, drawn', Bubble(s, drawn')) BY <1>4, TypesSendVoice
<1>6. g \in Event /\ g.type = "recording_stop" BY <1>1, <1>3, <1>4, AskFrame DEF FrameIn, Own, FrameTypes
<1>7. page' = [page EXCEPT ![s] = q] /\ inbox' = [inbox EXCEPT ![s] = Append(inbox[s], g)] BY <1>5 DEF SaysOne
<1>8. Range(Append(inbox[s], g)) = Range(inbox[s]) \cup {g} BY <1>1, <1>3, <1>6, BoxAppend
<1>9. \A v \in Socket : inbox'[v] = inbox[v] \/ (v = s /\ inbox'[v] = Append(inbox[s], g)) BY <1>1, <1>3, <1>7, InboxParts
<1>10. PICK m : m = drawn + 1 OBVIOUS
<1>11. \A x : Stored(x)' <=> Stored(x)
  <2>1. m \notin DOMAIN uploads BY <1>1, <1>10
  <2>2. DOMAIN uploads' = DOMAIN uploads \cup {m} /\ uploads'[m] = [by |-> s, stored |-> FALSE]
        /\ \A x \in DOMAIN uploads : uploads'[x] = uploads[x]
    BY <1>3, <1>10, <2>1 DEF Put
  <2>3. ~uploads'[m].stored BY <2>2
  <2> QED BY <2>1, <2>2, <2>3 DEF Stored
<1>12. \A v \in Socket : Range(inbox[v]) \subseteq Range(inbox'[v]) BY <1>8, <1>9
<1>13. \A v \in Socket : \A h \in Range(inbox'[v]) : h \in Range(inbox[v]) \/ (h.type \notin Writes /\ (h.type = "message" => h.val = h.m))
  BY <1>6, <1>8, <1>9 DEF Writes
<1>14. Sending(s, m, q) BY <1>2, <1>3, <1>5, <1>7, <1>10, <1>11, <1>12, <1>13 DEF Sending
<1> QED BY <1>14, BubblesFollow

(* The page's user writes to m: the page shows the outcome as entry g, and *)
(* asks its consumer with frame f.  Of a message that is not confirmed it  *)
(* asks nothing.                                                           *)
Acting(s, m, g, f) ==
  LET e == page[s].shown[m] IN
  /\ \E q : page' = [page EXCEPT ![s] = q] /\ Shows(s, q, m, g)
  /\ inbox'[s] = Append(inbox[s], f) /\ \A v \in Socket \ {s} : inbox'[v] = inbox[v]
  /\ f \in Event /\ f.type \in Writes /\ f.m = (IF e.bubble = "unconfirmed" THEN 0 ELSE m)
  /\ UNCHANGED <<msgs, reacts, lost, hand, chan, uploads>> /\ raced \subseteq raced'
  /\ f.type # "reaction" => e.by = Who[s] /\ (e.bubble = "unconfirmed" => m \in raced')
  /\ g.bubble = e.bubble
  /\ f.type = "reaction" => g.text = e.text /\ g.deleted = e.deleted
  /\ f.type = "edit" => g.count = e.count /\ g.deleted = e.deleted
  /\ f.type = "delete" => g.deleted

LEMMA ActingSure ==
  ASSUME Types, NEW s \in DOMAIN page, NEW m \in DOMAIN page[s].shown, NEW g, NEW f, Acting(s, m, g, f),
         m \in Tracked', Sure(s, m), BubbleTrue(s, m)
  PROVE  Sure(s, m)'
<1> DEFINE e == page[s].shown[m]
<1>1. HandTypes /\ PageTypes /\ s \in Socket BY PageAt DEF Types
<1>2. page'[s].shown[m] = g /\ m \in DOMAIN page'[s].shown
  <2>1. PICK q : page' = [page EXCEPT ![s] = q] /\ Shows(s, q, m, g) BY DEF Acting
  <2>2. page'[s] = q BY <1>1, <2>1, PageParts
  <2> QED BY <2>1, <2>2 DEF Shows
<1>3. /\ f \in Event /\ f.type \in Writes /\ f.m = (IF e.bubble = "unconfirmed" THEN 0 ELSE m)
      /\ UNCHANGED <<msgs, reacts, lost, hand, chan, uploads>>
      /\ f.type # "reaction" => (e.bubble = "unconfirmed" => m \in raced')
      /\ f.type = "reaction" => g.text = e.text /\ g.deleted = e.deleted
      /\ f.type = "edit" => g.count = e.count /\ g.deleted = e.deleted
      /\ f.type = "delete" => g.deleted
  BY DEF Acting
<1>4. inbox'[s] = Append(inbox[s], f) BY DEF Acting
<1>5. Range(inbox'[s]) = Range(inbox[s]) \cup {f} BY <1>1, <1>3, <1>4, BoxAppend
<1>6. \A type : Asked(s, type, m) => Asked(s, type, m)' BY <1>5 DEF Asked
<1>7. e.bubble # "unconfirmed" => Asked(s, f.type, m)' BY <1>3, <1>5 DEF Asked
<1>8. m \notin raced' /\ m \in DOMAIN msgs \ lost BY <1>3 DEF Tracked
<1>9. \A type : Casting(type, m)' <=> Casting(type, m) BY <1>3 DEF Casting
<1>10. Announcing(m)' <=> Announcing(m) BY <1>3, <1>9 DEF Announcing, Stored
<1>11. Summary(m)' = Summary(m) BY <1>3 DEF Summary
<1>12. (Fresh(s, m)' <=> ~g.deleted) /\ (Fresh(s, m) <=> ~e.deleted) BY <1>2 DEF Fresh
<1>13. f.type \in {"reaction", "edit", "delete"} BY <1>3 DEF Writes
<1>14. e.bubble = "unconfirmed" => Announcing(m) \/ Brings(chan[s], About({"message"}, m)) BY <1>8 DEF BubbleTrue
<1> HIDE DEF e
<1>15. ASSUME msgs[m].deleted, GoneSure(s, m) PROVE GoneSure(s, m)'
  BY <1>3, <1>9, <1>12, <1>13, <1>15 DEF GoneSure
<1>16. ASSUME ~msgs[m].deleted, CountSure(s, m) PROVE CountSure(s, m)'
  <2>1. CASE Asked(s, "reaction", m) \/ Casting("reaction", m) \/ Announcing(m) BY <1>6, <1>9, <1>10, <2>1 DEF CountSure
  <2>2. CASE LastIn(chan[s], About({"message", "reaction"}, m), Counted(m, Summary(m)))
    <3>1. LastIn(chan'[s], About({"message", "reaction"}, m), Counted(m, Summary(m)')) BY <1>3, <1>11, <2>2
    <3> QED BY <3>1 DEF CountSure
  <2>3. CASE ~Brings(chan[s], About({"message", "reaction"}, m)) /\ (Fresh(s, m) => e.count = Summary(m)) /\ ~Announcing(m)
    <3>1. CASE f.type = "reaction"
      <4>1. About({"message"}, m) \subseteq About({"message", "reaction"}, m) BY DEF About
      <4>2. e.bubble # "unconfirmed" BY <1>14, <2>3, <4>1 DEF Brings
      <4> QED BY <1>7, <3>1, <4>2 DEF CountSure
    <3>2. CASE f.type # "reaction"
      <4>1. ~Brings(chan'[s], About({"message", "reaction"}, m)) /\ (Fresh(s, m)' => g.count = Summary(m)')
        BY <1>3, <1>11, <1>12, <1>13, <2>3, <3>2
      <4> QED BY <1>2, <4>1 DEF CountSure
    <3> QED BY <3>1, <3>2
  <2> QED BY <1>16, <2>1, <2>2, <2>3 DEF CountSure, e
<1>17. ASSUME ~msgs[m].deleted, TextSure(s, m) PROVE TextSure(s, m)'
  <2>1. CASE f.type = "edit" BY <1>3, <1>7, <1>8, <2>1 DEF TextSure
  <2>2. CASE f.type # "edit"
    <3>1. Fresh(s, m)' => Fresh(s, m) /\ g.text = e.text BY <1>3, <1>12, <1>13, <2>2
    <3>2. CASE Asked(s, "edit", m) \/ Casting("edit", m) BY <1>6, <1>9, <3>2 DEF TextSure
    <3>3. CASE LastIn(chan[s], About({"message", "edit"}, m), Edited(m, msgs[m].text)) BY <1>3, <3>3 DEF TextSure
    <3>4. CASE /\ ~Brings(chan[s], About({"edit"}, m) \cup Stale(m, msgs[m].text))
               /\ Fresh(s, m) => Cut(e.text) = msgs[m].text
      BY <1>2, <1>3, <3>1, <3>4 DEF TextSure
    <3> QED BY <1>17, <3>2, <3>3, <3>4 DEF TextSure, e
  <2> QED BY <2>1, <2>2
<1>18. ASSUME ~msgs[m].deleted, BackSure(s, m) PROVE BackSure(s, m)'
  <2>1. CASE f.type = "delete" BY <1>3, <1>7, <1>8, <2>1 DEF BackSure
  <2>2. CASE f.type # "delete" BY <1>2, <1>3, <1>6, <1>13, <1>18, <2>2 DEF BackSure, e
  <2> QED BY <2>1, <2>2
<1> QED BY <1>3, <1>15, <1>16, <1>17, <1>18 DEF Sure

LEMMA ActingFollows ==
  ASSUME Types, Follows, NEW au, Earned(au),
         NEW s \in DOMAIN page, NEW m \in DOMAIN page[s].shown, NEW g, NEW f, Acting(s, m, g, f)
  PROVE  Follows'
<1> DEFINE e == page[s].shown[m]
<1>1. HandTypes /\ ChanTypes /\ PageTypes /\ s \in Socket BY PageAt DEF Types
<1>2. DOMAIN page \subseteq DOMAIN chan /\ DOMAIN page \subseteq Socket BY <1>1 DEF ChanTypes, PageTypes
<1>3. PICK q : page' = [page EXCEPT ![s] = q] /\ Shows(s, q, m, g) BY DEF Acting
<1>4. DOMAIN page' = DOMAIN page /\ page'[s] = q /\ \A v \in DOMAIN page \ {s} : page'[v] = page[v] BY <1>1, <1>3, PageParts
<1>5. /\ f \in Event /\ f.type \in Writes /\ f.m = (IF e.bubble = "unconfirmed" THEN 0 ELSE m) /\ g.bubble = e.bubble
      /\ UNCHANGED <<msgs, reacts, lost, hand, chan, uploads>> /\ raced \subseteq raced'
      /\ f.type # "reaction" => e.by = Who[s] /\ (e.bubble = "unconfirmed" => m \in raced')
      /\ f.type = "reaction" => g.text = e.text /\ g.deleted = e.deleted
  BY DEF Acting
<1>6. inbox'[s] = Append(inbox[s], f) /\ \A v \in Socket \ {s} : inbox'[v] = inbox[v] BY DEF Acting
<1>7. Range(inbox'[s]) = Range(inbox[s]) \cup {f} BY <1>1, <1>5, <1>6, BoxAppend
<1>8. \A v \in Socket : v = s \/ inbox'[v] = inbox[v] BY <1>6
<1>9. m \in Nat
  <2>1. page[s].shown \in Shown(drawn) BY <1>1, PageAt, PageGet
  <2>2. drawn \in Nat BY <1>1 DEF HandTypes
  <2>3. m \in 1..drawn BY <2>1, EntryGet
  <2> QED BY <2>2, <2>3
<1>10. Right(m) /\ BubbleTrue(s, m) BY <1>9 DEF Follows, Right
<1>11. FramesMeant' /\ EventsMeant'
  <2>1. ASSUME f.type # "reaction", f.m # 0 PROVE f.m \in DOMAIN msgs /\ msgs[f.m].by = Who[s]
    <3>1. e.bubble # "unconfirmed" /\ f.m = m /\ e.by = Who[s] BY <1>5, <2>1
    <3>2. m \in DOMAIN msgs BY <1>10, <3>1 DEF BubbleTrue
    <3>3. e.by = au[m] BY DEF Earned, EntrySound
    <3>4. msgs[m].by = au[m] BY <3>2 DEF Earned
    <3> QED BY <3>1, <3>2, <3>3, <3>4
  <2>2. FrameMeant(s, f)' BY <1>5, <2>1 DEF FrameMeant, Writes
  <2>3. \A v \in Socket : \A h \in Range(inbox'[v]) : h \in Range(inbox[v]) \/ (v = s /\ h = f) BY <1>7, <1>8
  <2>4. \A v \in Socket : \A h \in Range(inbox'[v]) : h \in Range(inbox[v]) \/ FrameMeant(v, h)' BY <2>2, <2>3
  <2> QED BY <1>5, <2>4, MeantStep DEF Follows
<1>12. ASSUME NEW x \in Nat
       PROVE  /\ Apart(x) /\ Right(x) /\ \A v \in DOMAIN page : SameWay(v, x) /\ SameAsked(v, x)
              /\ \A v \in DOMAIN page : v # s \/ x # m => SameLook(v, x)
  <2>1. SameHopes(x) BY <1>5 DEF SameHopes, Stored
  <2>2. \A v \in DOMAIN chan : SameWay(v, x) BY <1>5 DEF SameWay, Aside
  <2>3. Summary(x)' = Summary(x) BY <1>5 DEF Summary
  <2>4. Apart(x) BY <1>5, <2>1, <2>2, <2>3 DEF Apart, SameRow
  <2>5. \A v \in Socket : Range(inbox[v]) \subseteq Range(inbox'[v]) BY <1>7, <1>8
  <2>6. \A v \in DOMAIN page : SameAsked(v, x) BY <1>2, <2>5 DEF SameAsked, Asked
  <2>7. \A v \in DOMAIN page \ {s} : SameLook(v, x) BY <1>4 DEF SameLook, SameEntry
  <2>8. x # m => SameLook(s, x) BY <1>3, <1>4 DEF SameLook, SameEntry, Shows
  <2>9. Right(x) BY DEF Follows
  <2> QED BY <1>2, <2>2, <2>4, <2>6, <2>7, <2>8, <2>9
<1>13. ASSUME NEW x \in Nat, x # m PROVE Right(x)' BY <1>1, <1>4, <1>12, <1>13, ApartRight
<1>14. Right(m)'
  <2>1. /\ m \in Tracked' => HandTrue(m)' /\ (Announcing(m)' => Untouched(m)')
        /\ \A v \in DOMAIN page \ {s} : /\ m \in DOMAIN page'[v].shown => BubbleTrue(v, m)'
                                        /\ m \in Tracked' => Sure(v, m)'
    BY <1>1, <1>4, <1>9, <1>12, ApartKeeps
  <2>2. BubbleTrue(s, m)'
    <3>1. page'[s].shown[m] = g BY <1>3, <1>4 DEF Shows
    <3>2. Announcing(m)' <=> Announcing(m) BY <1>5 DEF Announcing, Casting, Stored
    <3>3. f.type = "reaction" \/ e.bubble # "unconfirmed" \/ m \in raced' BY <1>5
    <3> HIDE DEF e
    <3>4. /\ m \notin DOMAIN msgs => e.bubble = "unconfirmed" /\ (m \notin raced => e.text = m /\ ~e.deleted)
          /\ e.bubble = "unconfirmed" /\ m \in DOMAIN msgs \ lost => Announcing(m) \/ Brings(chan[s], About({"message"}, m))
      BY <1>10 DEF BubbleTrue, e
    <3> QED BY <1>5, <3>1, <3>2, <3>3, <3>4 DEF BubbleTrue
  <2>3. m \in Tracked' => Sure(s, m)'
    <3>1. ASSUME m \in Tracked' PROVE Sure(s, m)'
      <4>1. m \in Tracked BY <1>5, <3>1 DEF Tracked
      <4>2. Sure(s, m) BY <1>10, <4>1 DEF Right
      <4> QED BY <1>10, <3>1, <4>2, ActingSure
    <3> QED BY <3>1
  <2> QED BY <1>4, <2>1, <2>2, <2>3 DEF Right
<1> QED BY <1>11, <1>13, <1>14 DEF Follows

LEMMA FollowsActs ==
  ASSUME Types, Follows, NEW au, Earned(au), NEW s \in DOMAIN page, NEW m \in DOMAIN page[s].shown,
         React(s, m) \/ CommitEdit(s, m) \/ Del(s, m)
  PROVE  Follows'
<1> DEFINE e == page[s].shown[m]
           r == [e EXCEPT !.count = @ + 1]
           t == [e EXCEPT !.text = drawn']
           d == [e EXCEPT !.deleted = TRUE, !.count = 0]
<1>1. HandTypes /\ PageTypes /\ s \in Socket /\ drawn \in Nat BY PageAt DEF Types, HandTypes
<1>2. e \in Entry /\ m \in 1..drawn
  <2>1. page[s].shown \in Shown(drawn) BY <1>1, PageAt, PageGet
  <2> QED BY <2>1, EntryGet
<1>3. /\ r.text = e.text /\ r.deleted = e.deleted /\ r.bubble = e.bubble
      /\ t.count = e.count /\ t.deleted = e.deleted /\ t.bubble = e.bubble
      /\ d.deleted /\ d.bubble = e.bubble
  BY <1>2 DEF Entry
<1>4. ServerId(e, m) = IF e.bubble = "unconfirmed" THEN 0 ELSE m BY <1>1, <1>2, ServerIdNat
<1>5. ASSUME NEW q, NEW f, SaysOne(s, q, f)
      PROVE  /\ page' = [page EXCEPT ![s] = q] /\ f \in Event
             /\ inbox'[s] = Append(inbox[s], f) /\ \A v \in Socket \ {s} : inbox'[v] = inbox[v]
  <2>1. page' = [page EXCEPT ![s] = q] /\ inbox' = [inbox EXCEPT ![s] = Append(inbox[s], f)] /\ f \in Event
    BY <1>5 DEF SaysOne, FrameIn, Own
  <2> QED BY <1>1, <2>1, InboxParts
<1>6. CASE React(s, m)
  <2>1. UNCHANGED <<msgs, reacts, raced, lost, hand, chan, uploads>> BY <1>6 DEF React, rows, ghosts
  <2>2. PICK f : f = Asks(s, "reaction", ServerId(e, m), 0) OBVIOUS
  <2>3. PICK q : SaysOne(s, q, f) /\ Shows(s, q, m, r) BY <1>6, <2>2, TypesReact
  <2>4. f.type = "reaction" /\ f.m = ServerId(e, m) BY <2>2 DEF Asks, Ev
  <2> HIDE DEF e, r, t, d
  <2>5. Acting(s, m, r, f) BY <1>3, <1>4, <1>5, <2>1, <2>3, <2>4 DEF Acting, Writes, e
  <2> QED BY <2>5, ActingFollows
<1>7. CASE CommitEdit(s, m)
  <2>1. UNCHANGED <<msgs, reacts, lost, hand, chan, uploads>> /\ Unheard(e, m) BY <1>7 DEF CommitEdit, rows
  <2>2. PICK f : f = Asks(s, "edit", ServerId(e, m), drawn') OBVIOUS
  <2>3. PICK q : SaysOne(s, q, f) /\ Shows(s, q, m, t) BY <1>7, <2>2, TypesCommitEdit
  <2>4. f.type = "edit" /\ f.m = ServerId(e, m) BY <2>2 DEF Asks, Ev
  <2>5. e.by = Who[s] BY <1>7 DEF CommitEdit
  <2>6. raced \subseteq raced' /\ (e.bubble = "unconfirmed" => m \in raced') BY <2>1 DEF Unheard
  <2> HIDE DEF e, r, t, d
  <2>7. Acting(s, m, t, f) BY <1>3, <1>4, <1>5, <2>1, <2>3, <2>4, <2>5, <2>6 DEF Acting, Writes, e
  <2> QED BY <2>7, ActingFollows
<1>8. CASE Del(s, m)
  <2>1. UNCHANGED <<msgs, reacts, lost, hand, chan, uploads>> /\ Unheard(e, m) BY <1>8 DEF Del, rows
  <2>2. PICK f : f = Asks(s, "delete", ServerId(e, m), 0) OBVIOUS
  <2>3. PICK q : SaysOne(s, q, f) /\ Shows(s, q, m, d) BY <1>8, <2>2, TypesDel
  <2>4. f.type = "delete" /\ f.m = ServerId(e, m) BY <2>2 DEF Asks, Ev
  <2>5. e.by = Who[s] BY <1>8 DEF Del
  <2>6. raced \subseteq raced' /\ (e.bubble = "unconfirmed" => m \in raced') BY <2>1 DEF Unheard
  <2> HIDE DEF e, r, t, d
  <2>7. Acting(s, m, d, f) BY <1>3, <1>4, <1>5, <2>1, <2>3, <2>4, <2>5, <2>6 DEF Acting, Writes, e
  <2> QED BY <2>7, ActingFollows
<1> QED BY <1>6, <1>7, <1>8

LEMMA FollowsConsumer ==
  ASSUME Types, Types', Follows, Told, Unmade, NEW s \in Socket, ConsumerStep(s)
  PROVE  Follows'
<1>1. CASE CreateMessage(s)
  <2>1. PICK f : f = Arg(s) OBVIOUS
  <2>2. Begins(s, f) /\ f.type = "message" BY <1>1, <2>1, TypesCreate DEF CreateMove
  <2>3. f \in Range(inbox[s]) BY <2>2, BoxTail DEF Types
  <2>4. f.m \notin DOMAIN msgs BY <2>2, <2>3 DEF Unmade
  <2> QED BY <1>1, <2>1, <2>4, FollowsCreate
<1>2. CASE Toggle(s)
  <2>1. CASE Arg(s).m \in Alive /\ ~Tombstone(s) BY <1>2, <2>1, FollowsToggle
  <2>2. CASE ~(Arg(s).m \in Alive /\ ~Tombstone(s))
    <3>1. Silent BY <1>2, <2>2, SilentWrite DEF Follows
    <3> QED BY <3>1, SilentKeeps
  <2> QED BY <2>1, <2>2
<1>3. CASE EditMessage(s) \/ DeleteMessage(s)
  <2>1. CASE Mine(s, Arg(s).m) BY <1>3, <2>1, FollowsEdit
  <2>2. CASE ~Mine(s, Arg(s).m)
    <3>1. Silent BY <1>3, <2>2, SilentWrite DEF Follows
    <3> QED BY <3>1, SilentKeeps
  <2> QED BY <2>1, <2>2
<1>4. CASE Join(s) \/ Leave(s) \/ Snapshot(s) \/ Discard(s) \/ Allow(s) \/ Status(s) \/ ReadMessages(s) \/ PlayMessage(s)
  <2>1. Silent BY <1>4, SilentConsumer
  <2> QED BY <2>1, SilentKeeps
<1> QED BY <1>1, <1>2, <1>3, <1>4, FollowsConnect, FollowsHistory, FollowsBroadcast, FollowsFanout DEF ConsumerStep

LEMMA FollowsPage ==
  ASSUME Types, Types', Follows, NEW au, Earned(au), NEW s \in DOMAIN page, PageStep(s) \/ SignTimeout(s)
  PROVE  Follows'
<1>1. CASE Send(s) BY <1>1, FollowsSend
<1>2. CASE SendVoice(s) BY <1>2, FollowsSendVoice
<1>3. ASSUME NEW m \in DOMAIN page[s].shown, React(s, m) \/ CommitEdit(s, m) \/ Del(s, m) PROVE Follows' BY <1>3, FollowsActs
<1>4. CASE \/ \E type \in Kinds : Start(s, type) \/ Stop(s, type)
           \/ \E m \in DOMAIN page[s].shown : Play(s, m)
           \/ SignTimeout(s) \/ CloseSocket(s)
  <2>1. Silent BY <1>4, SilentPage
  <2> QED BY <2>1, SilentKeeps
<1> QED BY <1>1, <1>2, <1>3, <1>4 DEF PageStep, Kinds

LEMMA FollowsNext ==
  ASSUME Types, Types', Told, Unwritten, Authors, Unmade, Follows, [Next]_vars
  PROVE  Follows'
<1>1. ASSUME NEW m \in DOMAIN uploads, Uploading(m) PROVE Follows'
  <2>1. CASE Store(m) BY <2>1, FollowsStore
  <2>2. CASE Announce(m) BY <2>2, FollowsAnnounce
  <2>3. CASE Refuse(m)
    <3>1. Silent BY <2>3, SilentRest
    <3> QED BY <3>1, SilentKeeps
  <2> QED BY <1>1, <2>1, <2>2, <2>3 DEF Uploading
<1>2. CASE Fade \/ UNCHANGED vars \/ \E s \in DOMAIN page : \E m \in DOMAIN page[s].shown : LoseAnswer(s, m)
  <2>1. Silent BY <1>2, SilentRest
  <2> QED BY <2>1, SilentKeeps
<1>3. ASSUME NEW s \in DOMAIN page, PageStep(s) \/ SignTimeout(s) PROVE Follows'
  <2>1. PICK au : Earned(au) BY DEF Authors
  <2> QED BY <1>3, <2>1, FollowsPage
<1> QED BY <1>1, <1>2, <1>3, FollowsConsumer, FollowsRestart DEF Next, UploadStep, Uploading

LEMMA FollowsInit == ASSUME Init PROVE Follows
<1>1. /\ DOMAIN msgs = 1..drawn /\ \A m \in DOMAIN msgs : Cut(msgs[m].text) = msgs[m].text /\ ~msgs[m].deleted
      /\ DOMAIN uploads = {} /\ \A s \in Socket : hand[s] = <<>> /\ inbox[s] = <<>>
      /\ DOMAIN chan = mix.on /\ DOMAIN page = mix.on /\ mix.on \subseteq Socket
      /\ \A s \in mix.on : chan[s] = <<>> /\ page[s].shown = [m \in DOMAIN msgs |-> FromServer(s, msgs[m].by, msgs[m].text, 0)]
  <2>1. drawn \in Nat /\ \A m \in 1..drawn : msgs[m].text = Cut(m) BY InitFacts
  <2>2. \A m \in Nat : Cut(Cut(m)) = Cut(m) BY CutTwice
  <2>3. \A m \in 1..drawn : Cut(msgs[m].text) = msgs[m].text BY <2>1, <2>2
  <2> QED BY <2>3, InitFacts
<1>2. DOMAIN reacts = {}
  <2>1. DOMAIN <<>> = {} OBVIOUS
  <2> QED BY <2>1 DEF Init
<1>3. \A m : Summary(m) = 0
  <2> SUFFICES ASSUME NEW m PROVE Count(reacts, m) = 0 BY DEF Summary
  <2>1. {i \in Person : <<m, i>> \in DOMAIN reacts /\ ~reacts[<<m, i>>]} = {} BY <1>2
  <2> QED BY <2>1, FS_EmptySet DEF Count
<1>4. \A v \in Socket : \A type : ~Casts(hand[v], type) BY <1>1 DEF Casts, Awaits
<1>5. FramesMeant BY <1>1, RangeEmpty DEF FramesMeant
<1>6. EventsMeant BY <1>1, <1>4, RangeEmpty DEF EventsMeant
<1>7. ASSUME NEW m \in Nat PROVE Right(m)
  <2>1. HandTrue(m) BY <1>4 DEF HandTrue, TellsOf
  <2>2. ~Announcing(m) BY <1>1, <1>4 DEF Announcing, Casting, TellsOf, Stored
  <2>3. \A v \in DOMAIN page : \A E : ~Brings(chan[v], E)
    <3>1. ASSUME NEW v \in DOMAIN page, NEW E PROVE ~Brings(chan[v], E)
      <4>1. chan[v] = <<>> BY <1>1
      <4> QED BY <4>1, LastNone
    <3> QED BY <3>1
  <2>4. ASSUME NEW v \in DOMAIN page, m \in DOMAIN page[v].shown
        PROVE  /\ m \in DOMAIN msgs /\ page[v].shown[m].text = msgs[m].text /\ ~page[v].shown[m].deleted
               /\ page[v].shown[m].count = 0 /\ page[v].shown[m].bubble = "none"
    <3>1. page[v].shown = [x \in DOMAIN msgs |-> FromServer(v, msgs[x].by, msgs[x].text, 0)] BY <1>1
    <3>2. m \in DOMAIN msgs BY <2>4, <3>1
    <3>3. page[v].shown[m] = FromServer(v, msgs[m].by, msgs[m].text, 0) BY <3>1, <3>2
    <3> QED BY <1>1, <3>2, <3>3 DEF FromServer
  <2>5. ASSUME NEW v \in DOMAIN page, m \in DOMAIN page[v].shown PROVE BubbleTrue(v, m) BY <2>4, <2>5 DEF BubbleTrue
  <2>6. ASSUME NEW v \in DOMAIN page, m \in Tracked PROVE Sure(v, m)
    <3>1. m \in DOMAIN msgs /\ Cut(msgs[m].text) = msgs[m].text /\ ~msgs[m].deleted BY <1>1, <2>6 DEF Tracked
    <3>2. CountSure(v, m) BY <1>3, <2>3, <2>4 DEF CountSure, Fresh
    <3>3. TextSure(v, m) BY <2>3, <2>4, <3>1 DEF TextSure, Fresh
    <3>4. BackSure(v, m) BY <2>4 DEF BackSure
    <3> QED BY <3>1, <3>2, <3>3, <3>4 DEF Sure
  <2> QED BY <2>1, <2>2, <2>5, <2>6 DEF Right
<1> QED BY <1>5, <1>6, <1>7 DEF Follows

LEMMA FollowsHold == Spec => []Follows
<1>1. Init => Unmade /\ Follows BY UnmadeInit, FollowsInit
<1>2. Types /\ Types' /\ Told /\ Once /\ Unwritten /\ Authors /\ (Unmade /\ Follows) /\ [Next]_vars => (Unmade /\ Follows)'
  BY UnmadeNext, FollowsNext
<1>3. Spec => [](Types /\ Unwritten)
  <2>1. Types /\ AllReach /\ Unwritten => Types /\ Unwritten OBVIOUS
  <2> QED BY <2>1, ReachHold, PTL
<1>4. Spec => [](Told /\ Once)
  <2>1. Ticking => Told /\ Once BY DEF Ticking
  <2> QED BY <2>1, TickingHold, PTL
<1> QED BY <1>1, <1>2, <1>3, <1>4, AuthorsHold, PTL DEF Spec

(* When all is quiet nothing is on its way, and a page has what is sure.   *)
LEMMA FollowsSays ==
  ASSUME Types, Follows
  PROVE  PagesFollowRows
<1> SUFFICES ASSUME Quiet, NEW s \in DOMAIN page, NEW m \in (DOMAIN page[s].shown \cap DOMAIN msgs) \ (raced \cup lost)
             PROVE  /\ page[s].shown[m].deleted = msgs[m].deleted
                    /\ ~page[s].shown[m].deleted => Cut(page[s].shown[m].text) = msgs[m].text /\ page[s].shown[m].count = Summary(m)
  BY DEF PagesFollowRows
<1>1. PageTypes /\ s \in Socket /\ s \in DOMAIN chan BY DEF Types, ChanTypes, PageTypes
<1>2. \A v \in Socket : hand[v] = <<>> /\ inbox[v] = <<>> BY QuietStages
<1>3. DOMAIN uploads = {}
  <2>1. DOMAIN <<>> = {} OBVIOUS
  <2> QED BY <2>1 DEF Quiet
<1>4. \A type : ~Casting(type, m) BY <1>2 DEF Casting, TellsOf, Casts, Awaits
<1>5. ~Announcing(m) BY <1>3, <1>4 DEF Announcing, Stored
<1>6. \A type : ~Asked(s, type, m) BY <1>1, <1>2, RangeEmpty DEF Asked
<1>7. \A E, G : ~LastIn(chan[s], E, G)
  <2>1. chan[s] = <<>> BY <1>1 DEF Quiet
  <2> QED BY <2>1, LastNone
<1>8. Sure(s, m)
  <2>1. m \in Nat /\ m \in Tracked BY NoZero DEF Tracked
  <2> QED BY <2>1 DEF Follows, Right
<1>9. page[s].shown[m].deleted \in BOOLEAN /\ msgs[m].deleted \in BOOLEAN
  <2>1. page[s].shown \in Shown(drawn) BY <1>1, PageAt, PageGet
  <2>2. page[s].shown[m] \in Entry /\ msgs[m] \in MessageType BY <2>1, EntryGet DEF Types, RowTypes
  <2> QED BY <2>2 DEF Entry, MessageType
<1>10. msgs[m].deleted <=> page[s].shown[m].deleted BY <1>4, <1>6, <1>7, <1>8 DEF Sure, GoneSure, BackSure, Fresh
<1>11. ASSUME ~page[s].shown[m].deleted PROVE Cut(page[s].shown[m].text) = msgs[m].text /\ page[s].shown[m].count = Summary(m)
  BY <1>4, <1>5, <1>6, <1>7, <1>8, <1>10, <1>11 DEF Sure, CountSure, TextSure, Fresh
<1> QED BY <1>9, <1>10, <1>11

(* In any room, once no handler runs and every event has been shown: every *)
(* page shows of a message the text, the deletion and the number of        *)
(* reactions the rows hold, however the writes of several people and the   *)
(* histories of pages that joined were interleaved - unless the message    *)
(* was written again before its last write was announced, or changed by    *)
(* its author's page before it was confirmed.                              *)
THEOREM PagesFollowRowsHolds == Spec => []PagesFollowRows
<1>1. Types /\ Follows => PagesFollowRows BY FollowsSays
<1> QED BY <1>1, TypesHold, FollowsHold, PTL
=============================================================================
