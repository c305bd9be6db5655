--------------------------- MODULE ChatRoomProofs ---------------------------
(***************************************************************************)
(* What holds in every room of ChatRoom, for any people, sockets and       *)
(* mixes: the types, with one lemma per action, Types<Action>, of what it  *)
(* does to a hand, an inbox, a channel and a page (TypesNext combines      *)
(* them); then the receipts, the messages every page shows and the ticks,  *)
(* by invariants that relate what is in flight to the rows and the pages.  *)
(***************************************************************************)
EXTENDS ChatRoom, TLAPS, FiniteSetTheorems

-----------------------------------------------------------------------------
(* The types of frames, events, hands and pages.  n is the last client_id  *)
(* or text drawn.                                                          *)
Kinds == {"typing", "recording"}
Named == {"read", "played", "reaction", "edit", "delete"}
FrameTypes == Kinds \cup Named \cup {"message", "typing_stop", "recording_stop", "disconnect"}
EventTypes == Kinds \cup Named \cup {"message", "typing_stop", "recording_stop", "join", "leave"}
Event == [type : FrameTypes \cup EventTypes, who : Person, m : Nat, val : Int, ids : SUBSET Nat]
States == {"new", "open", "closing", "gone", "crashed"}

Texts(n) == (1..n) \cup RowTexts(n)
Drawn(n, ev) ==
  /\ ev.type = "message" => ev.m \in 1..n /\ ev.val \in Texts(n)
  /\ ev.type = "edit" => ev.val \in 1..n
  /\ ev.type = "reaction" => ev.val \in Nat
Own(n, s, f) == f \in Event /\ f.who = Who[s] /\ Drawn(n, f)

(* What is kept of a text is kept whole when it is stored again.           *)
LEMMA CutTexts ==
  ASSUME NEW n \in Nat
  PROVE  /\ 1..n \subseteq Texts(n) /\ RowTexts(n) \subseteq Texts(n) /\ Texts(n) \subseteq Int
         /\ \A t \in RowTexts(n) : Cut(t) = t
         /\ \A t \in Texts(n) : Cut(t) \in RowTexts(n)
<1>1. \A t \in 1..n : Cut(t) \in Int /\ Cut(Cut(t)) = Cut(t) BY LongAssumption DEF Cut
<1>2. \A t \in RowTexts(n) : t \in Int /\ Cut(t) = t BY <1>1 DEF RowTexts
<1>3. \A t \in 1..n : Cut(t) \in RowTexts(n) BY DEF RowTexts
<1> QED BY <1>2, <1>3 DEF Texts

LEMMA TextsGrow ==
  ASSUME NEW n \in Nat, NEW n2 \in Nat, n <= n2
  PROVE  RowTexts(n) \subseteq RowTexts(n2) /\ Texts(n) \subseteq Texts(n2)
<1>1. 1..n \subseteq 1..n2 OBVIOUS
<1>2. RowTexts(n) \subseteq RowTexts(n2) BY <1>1 DEF RowTexts
<1> QED BY <1>1, <1>2 DEF Texts

Hello(i) == Ev("join", i, 0, 0)
Bye(i) == Ev("disconnect", i, 0, 0)
As(f, type) == [f EXCEPT !.type = type]

(* What is left of connect, and of the disconnect handler once begun.      *)
Joining1(i) == Connecting(i)
Joining2(i) == <<Do("join", Hello(i)), Cast(Hello(i)), Do("snapshot", Hello(i))>>
Joining3(i) == <<Cast(Hello(i)), Do("snapshot", Hello(i))>>
Joining4(i) == <<Do("snapshot", Hello(i))>>
Leaving1(i) == <<Cast(As(Bye(i), "typing_stop")), Cast(As(Bye(i), "recording_stop")), Do("leave", Bye(i)),
                 Cast(As(Bye(i), "leave")), Do("discard", Bye(i))>>
Leaving2(i) == <<Cast(As(Bye(i), "recording_stop")), Do("leave", Bye(i)), Cast(As(Bye(i), "leave")),
                 Do("discard", Bye(i))>>
Leaving3(i) == <<Do("leave", Bye(i)), Cast(As(Bye(i), "leave")), Do("discard", Bye(i))>>
Leaving4(i) == <<Cast(As(Bye(i), "leave")), Do("discard", Bye(i))>>
Leaving5(i) == <<Do("discard", Bye(i))>>
Sends(f) == <<Cast(f), Do("status", f)>>
Reports(f) == <<Do("status", f)>>
Tells(f) == <<Cast(f)>>

Joining(i) == {Joining1(i), Joining2(i), Joining3(i), Joining4(i)}
Leaving(i) == {Leaving2(i), Leaving3(i), Leaving4(i), Leaving5(i)}

(* The await a hand begins with.                                           *)
Awaits(h, await) == h # <<>> /\ Head(h).await = await
Casts(h, type) == Awaits(h, "cast") /\ Head(h).ev.type = type

HandIn(n, s, h) ==
  \/ h = <<>>
  \/ h \in Joining(Who[s])
  \/ h \in Leaving(Who[s])
  \/ \E f \in Event : Own(n, s, f) /\ f.type = "message" /\ h \in {Sends(f), Reports(f)}
  \/ \E f \in Event : Own(n, s, f) /\ f.type \in Kinds \cup Named /\ h = Tells(f)

-----------------------------------------------------------------------------
LEMMA EmptySeq ==
  ASSUME NEW S, NEW q \in Seq(S)
  PROVE  q = <<>> <=> Len(q) = 0
OBVIOUS

LEMMA HeadTail ==
  ASSUME NEW S, NEW q \in Seq(S), q # <<>>
  PROVE  /\ Head(q) = q[1] /\ Head(q) \in S /\ Len(q) \in Nat \ {0}
         /\ 1 \in 1..Len(q) /\ Len(q) \in 1..Len(q)
         /\ Tail(q) \in Seq(S) /\ Len(Tail(q)) = Len(q) - 1 /\ Len(Tail(q)) \in Nat
         /\ \A k \in 1..Len(Tail(q)) : k+1 \in 1..Len(q) /\ Tail(q)[k] = q[k+1]
         /\ Tail(q) = <<>> <=> Len(q) = 1
<1>1. /\ Head(q) = q[1] /\ Len(q) \in Nat \ {0}
      /\ Tail(q) \in Seq(S) /\ Len(Tail(q)) = Len(q) - 1
  OBVIOUS
<1>2. \A k \in 1..Len(q)-1 : Tail(q)[k] = q[k+1]
  BY <1>1
<1>3. Tail(q) = <<>> <=> Len(Tail(q)) = 0
  BY <1>1, EmptySeq
<1> QED BY <1>1, <1>2, <1>3

LEMMA Appended ==
  ASSUME NEW S, NEW q \in Seq(S), NEW x \in S
  PROVE  /\ Append(q, x) \in Seq(S) /\ Append(q, x) # <<>>
         /\ Len(q) \in Nat /\ Len(Append(q, x)) = Len(q) + 1
         /\ \A k \in 1..Len(q) : Append(q, x)[k] = q[k]
         /\ Append(q, x)[Len(q)+1] = x
PROOF OBVIOUS

LEMMA Triple ==
  ASSUME NEW a, NEW b, NEW c, NEW d, NEW e
  PROVE  /\ Head(<<a>>) = a /\ <<a>> # <<>> /\ Tail(<<a>>) = <<>>
         /\ Head(<<a, b>>) = a /\ <<a, b>> # <<>> /\ Tail(<<a, b>>) = <<b>>
         /\ Head(<<a, b, c>>) = a /\ <<a, b, c>> # <<>> /\ Tail(<<a, b, c>>) = <<b, c>>
         /\ Head(<<a, b, c, d>>) = a /\ <<a, b, c, d>> # <<>> /\ Tail(<<a, b, c, d>>) = <<b, c, d>>
         /\ Head(<<a, b, c, d, e>>) = a /\ <<a, b, c, d, e>> # <<>> /\ Tail(<<a, b, c, d, e>>) = <<b, c, d, e>>
PROOF OBVIOUS

LEMMA Events ==
  ASSUME NEW i \in Person
  PROVE  /\ Hello(i) \in Event /\ Hello(i).type = "join" /\ Hello(i).who = i /\ Hello(i).m = 0
         /\ Bye(i) \in Event /\ Bye(i).type = "disconnect" /\ Bye(i).who = i /\ Bye(i).m = 0
         /\ \A type \in FrameTypes \cup EventTypes :
              /\ As(Bye(i), type) \in Event /\ As(Bye(i), type).type = type
              /\ As(Bye(i), type).who = i /\ As(Bye(i), type).m = 0
BY DEF Hello, Bye, As, Ev, Event, FrameTypes, EventTypes, Kinds, Named

LEMMA DoParts ==
  ASSUME NEW a, NEW f
  PROVE  Do(a, f).await = a /\ Do(a, f).ev = f
BY DEF Do

LEMMA CastParts ==
  ASSUME NEW f
  PROVE  Cast(f).await = "cast" /\ Cast(f).ev = f
BY DEF Do, Cast

(* What each hand begins with, and what is left after it.                  *)
LEMMA JoiningHands ==
  ASSUME NEW i
  PROVE  /\ Joining1(i) # <<>> /\ Head(Joining1(i)) = Do("history", Hello(i)) /\ Tail(Joining1(i)) = Joining2(i)
         /\ Joining2(i) # <<>> /\ Head(Joining2(i)) = Do("join", Hello(i)) /\ Tail(Joining2(i)) = Joining3(i)
         /\ Joining3(i) # <<>> /\ Head(Joining3(i)) = Cast(Hello(i)) /\ Tail(Joining3(i)) = Joining4(i)
         /\ Joining4(i) # <<>> /\ Head(Joining4(i)) = Do("snapshot", Hello(i)) /\ Tail(Joining4(i)) = <<>>
<1>1. Joining1(i) # <<>> /\ Head(Joining1(i)) = Do("history", Hello(i)) /\ Tail(Joining1(i)) = Joining2(i)
  BY Triple DEF Joining1, Joining2, Connecting, Hello
<1>2. Joining2(i) # <<>> /\ Head(Joining2(i)) = Do("join", Hello(i)) /\ Tail(Joining2(i)) = Joining3(i)
  BY Triple DEF Joining2, Joining3
<1>3. /\ Joining3(i) # <<>> /\ Head(Joining3(i)) = Cast(Hello(i)) /\ Tail(Joining3(i)) = Joining4(i)
      /\ Joining4(i) # <<>> /\ Head(Joining4(i)) = Do("snapshot", Hello(i)) /\ Tail(Joining4(i)) = <<>>
  BY Triple DEF Joining3, Joining4
<1> QED BY <1>1, <1>2, <1>3

LEMMA LeavingHands ==
  ASSUME NEW i
  PROVE  /\ Leaving1(i) # <<>> /\ Head(Leaving1(i)) = Cast(As(Bye(i), "typing_stop")) /\ Tail(Leaving1(i)) = Leaving2(i)
         /\ Leaving2(i) # <<>> /\ Head(Leaving2(i)) = Cast(As(Bye(i), "recording_stop")) /\ Tail(Leaving2(i)) = Leaving3(i)
         /\ Leaving3(i) # <<>> /\ Head(Leaving3(i)) = Do("leave", Bye(i)) /\ Tail(Leaving3(i)) = Leaving4(i)
         /\ Leaving4(i) # <<>> /\ Head(Leaving4(i)) = Cast(As(Bye(i), "leave")) /\ Tail(Leaving4(i)) = Leaving5(i)
         /\ Leaving5(i) # <<>> /\ Head(Leaving5(i)) = Do("discard", Bye(i)) /\ Tail(Leaving5(i)) = <<>>
<1>1. Leaving1(i) # <<>> /\ Head(Leaving1(i)) = Cast(As(Bye(i), "typing_stop")) /\ Tail(Leaving1(i)) = Leaving2(i)
  BY Triple DEF Leaving1, Leaving2
<1>2. Leaving2(i) # <<>> /\ Head(Leaving2(i)) = Cast(As(Bye(i), "recording_stop")) /\ Tail(Leaving2(i)) = Leaving3(i)
  BY Triple DEF Leaving2, Leaving3
<1>3. Leaving3(i) # <<>> /\ Head(Leaving3(i)) = Do("leave", Bye(i)) /\ Tail(Leaving3(i)) = Leaving4(i)
  BY Triple DEF Leaving3, Leaving4
<1>4. /\ Leaving4(i) # <<>> /\ Head(Leaving4(i)) = Cast(As(Bye(i), "leave")) /\ Tail(Leaving4(i)) = Leaving5(i)
      /\ Leaving5(i) # <<>> /\ Head(Leaving5(i)) = Do("discard", Bye(i)) /\ Tail(Leaving5(i)) = <<>>
  BY Triple DEF Leaving4, Leaving5
<1> QED BY <1>1, <1>2, <1>3, <1>4

LEMMA FrameHands ==
  ASSUME NEW f
  PROVE  /\ Sends(f) # <<>> /\ Head(Sends(f)) = Cast(f) /\ Tail(Sends(f)) = Reports(f)
         /\ Reports(f) # <<>> /\ Head(Reports(f)) = Do("status", f) /\ Tail(Reports(f)) = <<>>
         /\ Tells(f) # <<>> /\ Head(Tells(f)) = Cast(f) /\ Tail(Tells(f)) = <<>>
BY Triple DEF Sends, Reports, Tells

-----------------------------------------------------------------------------
(* What a socket's state, hand h and inbox b may be together.  A page that *)
(* is gone has sent its disconnect last, once.                             *)
FrameIn(n, s, f) == Own(n, s, f) /\ f.type \in FrameTypes /\ (f.type = "disconnect" => f = Bye(Who[s]))
Box(n, s, b) == b \in Seq(Event) /\ \A k \in 1..Len(b) : FrameIn(n, s, b[k])
Departing(h) == Casts(h, "recording_stop") \/ Awaits(h, "leave") \/ Casts(h, "leave") \/ Awaits(h, "discard")

Fine(n, s, state, h, b) ==
  /\ state \in States /\ HandIn(n, s, h) /\ Box(n, s, b)
  /\ state \in {"new", "gone", "crashed"} => h = <<>> /\ b = <<>>
  /\ state = "open" => ~Departing(h) /\ \A k \in 1..Len(b) : b[k].type # "disconnect"
  /\ state = "closing" =>
       \/ Departing(h) /\ b = <<>>
       \/ /\ ~Departing(h) /\ b # <<>>
          /\ \A k \in 1..Len(b) : (b[k].type = "disconnect") <=> k = Len(b)

HandTypes ==
  /\ drawn \in Nat
  /\ st \in [Socket -> States] /\ hand = [s \in Socket |-> hand[s]] /\ inbox = [s \in Socket |-> inbox[s]]
  /\ \A s \in Socket : Fine(drawn, s, st[s], hand[s], inbox[s])

LEMMA WhoTyped == ASSUME NEW s \in Socket PROVE Who[s] \in Person
BY WhoAssumption

LEMMA Handlers ==
  ASSUME NEW n \in Nat, NEW s \in Socket, NEW f, FrameIn(n, s, f)
  PROVE  /\ f.type = "message" =>
              Handler(f) # <<>> /\ Head(Handler(f)) = Do("create", f) /\ Tail(Handler(f)) = Sends(AsStored(f))
         /\ f.type \in Kinds =>
              Handler(f) # <<>> /\ Head(Handler(f)) = Do("allow", f) /\ Tail(Handler(f)) = <<>>
         /\ f.type \in {"typing_stop", "recording_stop"} =>
              Handler(f) # <<>> /\ Head(Handler(f)) = Cast(f) /\ Tail(Handler(f)) = <<>>
         /\ f.type \in Named =>
              Handler(f) # <<>> /\ Head(Handler(f)) = Do(f.type, f) /\ Tail(Handler(f)) = <<>>
         /\ f.type = "disconnect" => Handler(f) = Leaving1(Who[s])
<1>1. CASE f.type = "message"
  <2>1. Handler(f) = <<Do("create", f), Cast(AsStored(f)), Do("status", AsStored(f))>>
    BY <1>1 DEF Handler
  <2> QED BY <1>1, <2>1, Triple DEF Sends, Kinds, Named
<1>2. CASE f.type \in Kinds
  <2>1. Handler(f) = <<Do("allow", f)>>
    BY <1>2 DEF Handler, Kinds
  <2> QED BY <1>2, <2>1, Triple DEF Kinds, Named
<1>3. CASE f.type \in {"typing_stop", "recording_stop"}
  <2>1. Handler(f) = <<Cast(f)>>
    BY <1>3 DEF Handler
  <2> QED BY <1>3, <2>1, Triple DEF Kinds, Named
<1>4. CASE f.type \in Named
  <2>1. Handler(f) = <<Do(f.type, f)>>
    BY <1>4 DEF Handler, Named
  <2> QED BY <1>4, <2>1, Triple DEF Kinds, Named
<1>5. CASE f.type = "disconnect"
  <2>1. f = Bye(Who[s]) BY <1>5 DEF FrameIn
  <2>2. Handler(f) = <<Cast([f EXCEPT !.type = "typing_stop"]), Cast([f EXCEPT !.type = "recording_stop"]),
           Do("leave", f), Cast([f EXCEPT !.type = "leave"]), Do("discard", f)>>
    BY <1>5 DEF Handler
  <2> QED BY <1>5, <2>1, <2>2, Zenon DEF Leaving1, As, Kinds, Named
<1> QED BY <1>1, <1>2, <1>3, <1>4, <1>5 DEF FrameIn, FrameTypes

(* What the await at the front of a hand says of the hand.                 *)
LEMMA Fronts ==
  ASSUME NEW n \in Nat, NEW s \in Socket, NEW h, HandIn(n, s, h), h # <<>>
  PROVE  /\ Head(h).await \in {"history", "join", "snapshot", "leave", "discard", "status", "cast"}
         /\ Head(h).await = "history" => h = Joining1(Who[s])
         /\ Head(h).await = "join" => h = Joining2(Who[s])
         /\ Head(h).await = "snapshot" => h = Joining4(Who[s])
         /\ Head(h).await = "leave" => h = Leaving3(Who[s])
         /\ Head(h).await = "discard" => h = Leaving5(Who[s])
         /\ Head(h).await = "status" => \E f \in Event : Own(n, s, f) /\ f.type = "message" /\ h = Reports(f)
         /\ Head(h).await = "cast" =>
              \/ h = Joining3(Who[s]) \/ h = Leaving2(Who[s]) \/ h = Leaving4(Who[s])
              \/ \E f \in Event : Own(n, s, f) /\ f.type = "message" /\ h = Sends(f)
              \/ \E f \in Event : Own(n, s, f) /\ f.type \in Kinds \cup Named /\ h = Tells(f)
<1>1. CASE h \in Joining(Who[s])
  <2> DEFINE i == Who[s]
  <2>1. CASE h = Joining1(i) BY <2>1, JoiningHands, DoParts, CastParts
  <2>2. CASE h = Joining2(i) BY <2>2, JoiningHands, DoParts, CastParts
  <2>3. CASE h = Joining3(i) BY <2>3, JoiningHands, DoParts, CastParts
  <2>4. CASE h = Joining4(i) BY <2>4, JoiningHands, DoParts, CastParts
  <2> QED BY <1>1, <2>1, <2>2, <2>3, <2>4 DEF Joining
<1>2. CASE h \in Leaving(Who[s])
  <2> DEFINE i == Who[s]
  <2>2. CASE h = Leaving2(i) BY <2>2, LeavingHands, DoParts, CastParts
  <2>3. CASE h = Leaving3(i) BY <2>3, LeavingHands, DoParts
  <2>4. CASE h = Leaving4(i) BY <2>4, LeavingHands, DoParts, CastParts
  <2>5. CASE h = Leaving5(i) BY <2>5, LeavingHands, DoParts
  <2> QED BY <1>2, <2>2, <2>3, <2>4, <2>5 DEF Leaving
<1>3. ASSUME NEW f \in Event, Own(n, s, f), f.type = "message", h \in {Sends(f), Reports(f)}
      PROVE  \/ Head(h).await = "status" /\ h = Reports(f)
             \/ Head(h).await = "cast" /\ h = Sends(f)
  BY <1>3, FrameHands, DoParts, CastParts
<1>4. ASSUME NEW f \in Event, Own(n, s, f), f.type \in Kinds \cup Named, h = Tells(f)
      PROVE  Head(h).await = "cast"
  BY <1>4, FrameHands, DoParts, CastParts
<1> QED BY <1>1, <1>2, <1>3, <1>4 DEF HandIn

LEMMA Running ==
  ASSUME NEW s \in Socket, HandTypes, Todo(s) # <<>>
  PROVE  /\ Fine(drawn, s, st[s], hand[s], inbox[s]) /\ st[s] \in {"open", "closing"}
         /\ hand[s] # <<>> => Todo(s) = hand[s] /\ Rest(s) = inbox[s]
         /\ hand[s] = <<>> => /\ inbox[s] # <<>> /\ Todo(s) = Handler(Head(inbox[s]))
                              /\ Rest(s) = Tail(inbox[s]) /\ FrameIn(drawn, s, Head(inbox[s]))
<1>1. Fine(drawn, s, st[s], hand[s], inbox[s])
  BY DEF HandTypes
<1>2. ~(hand[s] = <<>> /\ inbox[s] = <<>>)
  BY DEF Todo
<1>3. st[s] \in {"open", "closing"}
  BY <1>1, <1>2 DEF Fine, States
<1>4. ASSUME inbox[s] # <<>> PROVE FrameIn(drawn, s, Head(inbox[s]))
  BY <1>1, <1>4, HeadTail DEF Fine, Box
<1> QED BY <1>1, <1>2, <1>3, <1>4 DEF Todo, Rest

-----------------------------------------------------------------------------
(* Which hands belong to a disconnect.                                     *)
LEMMA Departure ==
  ASSUME NEW i \in Person
  PROVE  /\ ~Departing(<<>>)
         /\ ~Departing(Joining1(i)) /\ ~Departing(Joining2(i)) /\ ~Departing(Joining3(i)) /\ ~Departing(Joining4(i))
         /\ Departing(Leaving2(i)) /\ Departing(Leaving3(i)) /\ Departing(Leaving4(i)) /\ Departing(Leaving5(i))
         /\ \A f \in Event : f.type = "message" => ~Departing(Sends(f)) /\ ~Departing(Reports(f))
         /\ \A f \in Event : f.type \in Kinds \cup Named => ~Departing(Tells(f))
<1> USE DEF Departing, Awaits, Casts
<1>1. /\ ~Departing(<<>>)
      /\ ~Departing(Joining1(i)) /\ ~Departing(Joining2(i)) /\ ~Departing(Joining3(i)) /\ ~Departing(Joining4(i))
  BY JoiningHands, DoParts, CastParts, Events
<1>2. Departing(Leaving2(i)) /\ Departing(Leaving3(i)) /\ Departing(Leaving4(i)) /\ Departing(Leaving5(i))
  <2>1. As(Bye(i), "recording_stop").type = "recording_stop" /\ As(Bye(i), "leave").type = "leave"
    BY Events DEF FrameTypes, EventTypes
  <2> QED BY <2>1, LeavingHands, DoParts, CastParts
<1>3. ASSUME NEW f \in Event, f.type = "message" PROVE ~Departing(Sends(f)) /\ ~Departing(Reports(f))
  BY <1>3, FrameHands, DoParts, CastParts
<1>4. ASSUME NEW f \in Event, f.type \in Kinds \cup Named PROVE ~Departing(Tells(f))
  BY <1>4, FrameHands, DoParts, CastParts DEF Kinds, Named
<1> QED BY <1>1, <1>2, <1>3, <1>4

LEMMA NextAwait ==
  ASSUME NEW n, NEW s \in Socket, NEW state \in {"open", "closing"}, NEW h, NEW b, NEW g,
         Fine(n, s, state, h, b), HandIn(n, s, g), Departing(h) <=> Departing(g)
  PROVE  Fine(n, s, state, g, b)
BY DEF Fine

LEMMA NextFrame ==
  ASSUME NEW n, NEW s \in Socket, NEW state \in {"open", "closing"}, NEW b, NEW g,
         Fine(n, s, state, <<>>, b), b # <<>>, Head(b).type # "disconnect", HandIn(n, s, g), ~Departing(g)
  PROVE  Fine(n, s, state, g, Tail(b))
<1>1. b \in Seq(Event) BY DEF Fine, Box
<1>2. /\ Head(b) = b[1] /\ Len(b) \in Nat \ {0} /\ Tail(b) \in Seq(Event)
      /\ 1 \in 1..Len(b) /\ Len(b) \in 1..Len(b)
      /\ Len(Tail(b)) = Len(b) - 1 /\ Len(Tail(b)) \in Nat
      /\ \A k \in 1..Len(Tail(b)) : k+1 \in 1..Len(b) /\ Tail(b)[k] = b[k+1]
      /\ Tail(b) = <<>> <=> Len(b) = 1
  BY <1>1, HeadTail
<1>3. ~Departing(<<>>) BY DEF Departing, Awaits, Casts
<1>4. Box(n, s, Tail(b)) BY <1>2 DEF Fine, Box
<1>5. state = "open" => \A k \in 1..Len(Tail(b)) : Tail(b)[k].type # "disconnect"
  BY <1>2 DEF Fine
<1>6. ASSUME state = "closing"
      PROVE  Tail(b) # <<>> /\ \A k \in 1..Len(Tail(b)) : (Tail(b)[k].type = "disconnect") <=> k = Len(Tail(b))
  <2>1. \A k \in 1..Len(b) : (b[k].type = "disconnect") <=> k = Len(b)
    BY <1>3, <1>6 DEF Fine
  <2>2. Len(b) # 1 BY <1>2, <2>1
  <2>3. ASSUME NEW k \in 1..Len(Tail(b)) PROVE (Tail(b)[k].type = "disconnect") <=> k = Len(Tail(b))
    <3>1. k+1 \in 1..Len(b) /\ Tail(b)[k] = b[k+1] BY <1>2
    <3>2. (b[k+1].type = "disconnect") <=> k+1 = Len(b) BY <2>1, <3>1
    <3>3. k \in Nat /\ Len(b) \in Nat /\ Len(Tail(b)) = Len(b) - 1 BY <1>2
    <3>4. k+1 = Len(b) <=> k = Len(Tail(b)) BY <3>3
    <3> QED BY <3>1, <3>2, <3>4
  <2> QED BY <1>2, <2>2, <2>3
<1> QED BY <1>4, <1>5, <1>6 DEF Fine

LEMMA NextBye ==
  ASSUME NEW n, NEW s \in Socket, NEW state \in {"open", "closing"}, NEW b,
         Fine(n, s, state, <<>>, b), b # <<>>, Head(b).type = "disconnect"
  PROVE  state = "closing" /\ Tail(b) = <<>> /\ Fine(n, s, state, Leaving2(Who[s]), Tail(b))
<1>1. b \in Seq(Event) BY DEF Fine, Box
<1>2. /\ Head(b) = b[1] /\ Len(b) \in Nat \ {0} /\ 1 \in 1..Len(b)
      /\ Tail(b) = <<>> <=> Len(b) = 1
  BY <1>1, HeadTail
<1>3. ~Departing(<<>>) BY DEF Departing, Awaits, Casts
<1>4. state = "closing" BY <1>2 DEF Fine
<1>5. Len(b) = 1 BY <1>2, <1>3, <1>4 DEF Fine
<1>6. Tail(b) = <<>> BY <1>2, <1>5
<1>7. Departing(Leaving2(Who[s])) BY Departure, WhoTyped
<1>8. HandIn(n, s, Leaving2(Who[s])) BY DEF HandIn, Leaving
<1>9. Box(n, s, <<>>) BY DEF Box
<1> QED BY <1>4, <1>6, <1>7, <1>8, <1>9 DEF Fine, States

LEMMA NewFrame ==
  ASSUME NEW n, NEW s \in Socket, NEW h, NEW b, NEW f,
         Fine(n, s, "open", h, b), FrameIn(n, s, f), f.type # "disconnect"
  PROVE  Fine(n, s, "open", h, Append(b, f))
<1>1. b \in Seq(Event) /\ f \in Event BY DEF Fine, Box, FrameIn, Own
<1>2. /\ Append(b, f) \in Seq(Event) /\ Len(b) \in Nat /\ Len(Append(b, f)) = Len(b) + 1
      /\ \A k \in 1..Len(b) : Append(b, f)[k] = b[k]
      /\ Append(b, f)[Len(b)+1] = f
  BY <1>1, Appended
<1>3. \A k \in 1..Len(Append(b, f)) : k \in 1..Len(b) \/ k = Len(b)+1
  BY <1>2
<1>4. Box(n, s, Append(b, f)) BY <1>2, <1>3 DEF Fine, Box
<1>5. \A k \in 1..Len(Append(b, f)) : Append(b, f)[k].type # "disconnect"
  BY <1>2, <1>3 DEF Fine
<1> QED BY <1>4, <1>5 DEF Fine

LEMMA NewBye ==
  ASSUME NEW n, NEW s \in Socket, NEW h, NEW b, Fine(n, s, "open", h, b)
  PROVE  Fine(n, s, "closing", h, Append(b, Bye(Who[s])))
<1> DEFINE f == Bye(Who[s])
<1>1. b \in Seq(Event) /\ f \in Event /\ f.type = "disconnect" /\ f.who = Who[s]
  BY WhoTyped, Events DEF Fine, Box
<1> HIDE DEF f
<1>2. /\ Append(b, f) \in Seq(Event) /\ Append(b, f) # <<>> /\ Len(b) \in Nat /\ Len(Append(b, f)) = Len(b) + 1
      /\ \A k \in 1..Len(b) : Append(b, f)[k] = b[k]
      /\ Append(b, f)[Len(b)+1] = f
  BY <1>1, Appended
<1>3. \A k \in 1..Len(Append(b, f)) : k \in 1..Len(b) \/ k = Len(b)+1
  BY <1>2
<1>4. FrameIn(n, s, f)
  BY <1>1 DEF f, FrameIn, Own, Drawn, FrameTypes
<1>5. Box(n, s, Append(b, f)) BY <1>2, <1>3, <1>4 DEF Fine, Box
<1>6. \A k \in 1..Len(Append(b, f)) : (Append(b, f)[k].type = "disconnect") <=> k = Len(Append(b, f))
  <2>1. \A k \in 1..Len(b) : b[k].type # "disconnect" BY DEF Fine
  <2> QED BY <1>1, <1>2, <1>3, <2>1
<1>7. Fine(n, s, "closing", h, Append(b, f))
  BY <1>2, <1>5, <1>6 DEF Fine, States
<1> QED BY <1>7 DEF f

LEMMA FineGrows ==
  ASSUME NEW n \in Nat, NEW n2 \in Nat, n <= n2, NEW s \in Socket, NEW state, NEW h, NEW b,
         Fine(n, s, state, h, b)
  PROVE  Fine(n2, s, state, h, b)
<1>1. \A f : Own(n, s, f) => Own(n2, s, f) BY TextsGrow DEF Own, Drawn
<1>2. HandIn(n2, s, h) BY <1>1 DEF Fine, HandIn
<1>3. Box(n2, s, b) BY <1>1 DEF Fine, Box, FrameIn
<1> QED BY <1>2, <1>3 DEF Fine

-----------------------------------------------------------------------------
(* What a consumer that is at an await has in hand.  Begins: it is idle,   *)
(* and the first frame of its inbox is f.                                  *)
Move(s, h, b) == hand' = [hand EXCEPT ![s] = h] /\ inbox' = [inbox EXCEPT ![s] = b]
Begins(s, f) == hand[s] = <<>> /\ inbox[s] # <<>> /\ f = Head(inbox[s]) /\ FrameIn(drawn, s, f)
Busy(s) == Fine(drawn, s, st[s], hand[s], inbox[s]) /\ st[s] \in {"open", "closing"}

LEMMA AtHand ==
  ASSUME NEW s \in Socket, HandTypes,
         NEW a \in {"history", "join", "snapshot", "leave", "discard", "status"}, At(s, a)
  PROVE  /\ Busy(s) /\ hand[s] # <<>> /\ HandIn(drawn, s, hand[s]) /\ Head(hand[s]).await = a
         /\ Todo(s) = hand[s] /\ Rest(s) = inbox[s]
<1>1. Todo(s) # <<>> /\ Head(Todo(s)).await = a BY DEF At
<1>2. Busy(s) BY <1>1, Running DEF Busy
<1>3. ASSUME hand[s] = <<>> PROVE FALSE
  <2> DEFINE f == Head(inbox[s])
  <2>1. Todo(s) = Handler(f) /\ FrameIn(drawn, s, f) BY <1>1, <1>3, Running
  <2> HIDE DEF f
  <2>2. drawn \in Nat BY DEF HandTypes
  <2>3. CASE f.type \in Kinds \cup Named \cup {"message", "typing_stop", "recording_stop"}
    BY <1>1, <2>1, <2>2, <2>3, Handlers, DoParts, CastParts DEF Kinds, Named
  <2>4. CASE f.type = "disconnect"
    BY <1>1, <2>1, <2>2, <2>4, Handlers, LeavingHands, CastParts
  <2> QED BY <2>1, <2>3, <2>4 DEF FrameIn, FrameTypes
<1> QED BY <1>1, <1>2, <1>3, Running DEF Busy, Fine

LEMMA AtFrame ==
  ASSUME NEW s \in Socket, HandTypes, NEW a \in Named \cup {"create", "allow"}, At(s, a)
  PROVE  /\ Busy(s) /\ Begins(s, Arg(s)) /\ Rest(s) = Tail(inbox[s])
         /\ a = "create" => Arg(s).type = "message" /\ Tail(Todo(s)) = Sends(AsStored(Arg(s)))
         /\ a = "allow" => Arg(s).type \in Kinds /\ Tail(Todo(s)) = <<>>
         /\ a \in Named => Arg(s).type = a /\ Tail(Todo(s)) = <<>>
<1>1. Todo(s) # <<>> /\ Head(Todo(s)).await = a BY DEF At
<1>2. Busy(s) BY <1>1, Running DEF Busy
<1>3. hand[s] = <<>>
  <2>1. hand[s] # <<>> => Todo(s) = hand[s] /\ HandIn(drawn, s, hand[s])
    BY <1>1, Running DEF Fine
  <2>2. drawn \in Nat BY DEF HandTypes
  <2> QED BY <1>1, <2>1, <2>2, Fronts DEF Named
<1> DEFINE f == Head(inbox[s])
<1>4. /\ inbox[s] # <<>> /\ Todo(s) = Handler(f) /\ Rest(s) = Tail(inbox[s]) /\ FrameIn(drawn, s, f)
  BY <1>1, <1>3, Running
<1>5. drawn \in Nat BY DEF HandTypes
<1>6. f.type # "disconnect" /\ f.type \notin {"typing_stop", "recording_stop"}
  <2> HIDE DEF f
  <2>1. ASSUME f.type = "disconnect" PROVE FALSE
    <3>1. Todo(s) = Leaving1(Who[s]) BY <1>4, <1>5, <2>1, Handlers
    <3> QED BY <1>1, <3>1, LeavingHands, CastParts DEF Named
  <2>2. ASSUME f.type \in {"typing_stop", "recording_stop"} PROVE FALSE
    BY <1>1, <1>4, <1>5, <2>2, Handlers, CastParts DEF Named
  <2> QED BY <2>1, <2>2
<1>7. Head(Todo(s)).ev = f /\ (a = "create" <=> f.type = "message") /\ (a = "allow" <=> f.type \in Kinds)
      /\ (a \in Named => f.type = a)
  <2> HIDE DEF f
  <2>1. CASE f.type = "message" BY <1>1, <1>4, <1>5, <2>1, Handlers, DoParts DEF Kinds, Named
  <2>2. CASE f.type \in Kinds BY <1>1, <1>4, <1>5, <2>2, Handlers, DoParts DEF Kinds, Named
  <2>3. CASE f.type \in Named BY <1>1, <1>4, <1>5, <2>3, Handlers, DoParts DEF Kinds, Named
  <2> QED BY <1>4, <1>6, <2>1, <2>2, <2>3 DEF FrameIn, FrameTypes
<1>8. /\ f.type = "message" => Tail(Handler(f)) = Sends(AsStored(f))
      /\ f.type \in Kinds \cup Named => Tail(Handler(f)) = <<>>
  <2> HIDE DEF f
  <2> QED BY <1>4, <1>5, Handlers
<1> HIDE DEF f
<1>9. Arg(s) = f BY <1>7 DEF Arg
<1>10. Begins(s, f) BY <1>3, <1>4 DEF Begins, f
<1> QED BY <1>2, <1>4, <1>7, <1>8, <1>9, <1>10 DEF Named, Kinds

(* The event ev that s is about to send to the group, the hand h and the   *)
(* inbox b it then has: at the end of connect, after a message or another  *)
(* write, in the disconnect handler, or on a frame that is only passed on. *)
CastCase(s, ev, h, b) ==
  LET i == Who[s] IN
  \/ hand[s] = Joining3(i) /\ ev = Hello(i) /\ h = Joining4(i) /\ b = inbox[s]
  \/ hand[s] = Leaving2(i) /\ ev = As(Bye(i), "recording_stop") /\ h = Leaving3(i) /\ b = inbox[s]
  \/ hand[s] = Leaving4(i) /\ ev = As(Bye(i), "leave") /\ h = Leaving5(i) /\ b = inbox[s]
  \/ Own(drawn, s, ev) /\ ev.type = "message" /\ hand[s] = Sends(ev) /\ h = Reports(ev) /\ b = inbox[s]
  \/ Own(drawn, s, ev) /\ ev.type \in Kinds \cup Named /\ hand[s] = Tells(ev) /\ h = <<>> /\ b = inbox[s]
  \/ Begins(s, ev) /\ ev.type \in {"typing_stop", "recording_stop"} /\ h = <<>> /\ b = Tail(inbox[s])
  \/ Begins(s, Bye(i)) /\ ev = As(Bye(i), "typing_stop") /\ h = Leaving2(i) /\ b = Tail(inbox[s])

LEMMA AtCast ==
  ASSUME NEW s \in Socket, HandTypes, At(s, "cast")
  PROVE  Busy(s) /\ CastCase(s, Arg(s), Tail(Todo(s)), Rest(s))
<1> DEFINE i == Who[s]
<1>1. Todo(s) # <<>> /\ Head(Todo(s)).await = "cast" BY DEF At
<1>2. Busy(s) BY <1>1, Running DEF Busy
<1>3. drawn \in Nat BY DEF HandTypes
<1>4. ASSUME hand[s] # <<>> PROVE CastCase(s, Arg(s), Tail(Todo(s)), Rest(s))
  <2>1. Todo(s) = hand[s] /\ Rest(s) = inbox[s] /\ HandIn(drawn, s, hand[s])
    BY <1>1, <1>4, Running DEF Fine
  <2>2. CASE hand[s] = Joining3(i)
    BY <2>1, <2>2, JoiningHands, CastParts DEF CastCase, Arg
  <2>3. CASE hand[s] = Leaving2(i)
    BY <2>1, <2>3, LeavingHands, CastParts DEF CastCase, Arg
  <2>4. CASE hand[s] = Leaving4(i)
    BY <2>1, <2>4, LeavingHands, CastParts DEF CastCase, Arg
  <2>5. ASSUME NEW f \in Event, Own(drawn, s, f), f.type = "message", hand[s] = Sends(f)
        PROVE  CastCase(s, Arg(s), Tail(Todo(s)), Rest(s))
    <3>1. Head(hand[s]) = Cast(f) /\ Tail(hand[s]) = Reports(f) BY <2>5, FrameHands
    <3>2. Arg(s) = f /\ Tail(Todo(s)) = Reports(f) BY <2>1, <3>1, CastParts DEF Arg
    <3> QED BY <2>1, <2>5, <3>2 DEF CastCase
  <2>6. ASSUME NEW f \in Event, Own(drawn, s, f), f.type \in Kinds \cup Named, hand[s] = Tells(f)
        PROVE  CastCase(s, Arg(s), Tail(Todo(s)), Rest(s))
    BY <2>1, <2>6, FrameHands, CastParts DEF CastCase, Arg
  <2> QED BY <1>1, <1>3, <1>4, <2>1, <2>2, <2>3, <2>4, <2>5, <2>6, Fronts
<1>5. ASSUME hand[s] = <<>> PROVE CastCase(s, Arg(s), Tail(Todo(s)), Rest(s))
  <2> DEFINE f == Head(inbox[s])
  <2>1. /\ inbox[s] # <<>> /\ Todo(s) = Handler(f) /\ Rest(s) = Tail(inbox[s]) /\ FrameIn(drawn, s, f)
    BY <1>1, <1>5, Running
  <2>2. Begins(s, f) BY <1>5, <2>1 DEF Begins
  <2> HIDE DEF f
  <2>3. CASE f.type \in Kinds \cup Named \cup {"message"}
    BY <1>1, <1>3, <2>1, <2>3, Handlers, DoParts DEF Kinds, Named
  <2>4. CASE f.type \in {"typing_stop", "recording_stop"}
    BY <1>3, <2>1, <2>2, <2>4, Handlers, CastParts DEF CastCase, Arg
  <2>5. CASE f.type = "disconnect"
    <3>1. f = Bye(i) /\ Todo(s) = Leaving1(i) BY <1>3, <2>1, <2>5, Handlers DEF FrameIn
    <3>2. Arg(s) = As(Bye(i), "typing_stop") /\ Tail(Todo(s)) = Leaving2(i)
      BY <3>1, LeavingHands, CastParts DEF Arg
    <3> QED BY <2>1, <2>2, <3>1, <3>2 DEF CastCase
  <2> QED BY <2>1, <2>3, <2>4, <2>5 DEF FrameIn, FrameTypes
<1> QED BY <1>2, <1>4, <1>5

LEMMA NoneFirst ==
  ASSUME NEW a, NEW b, NEW c, NEW d
  PROVE  /\ <<>> \o <<>> = <<>> /\ <<>> \o <<a>> = <<a>> /\ <<>> \o <<a, b>> = <<a, b>>
         /\ <<>> \o <<a, b, c>> = <<a, b, c>> /\ <<>> \o <<a, b, c, d>> = <<a, b, c, d>>
OBVIOUS

LEMMA OneFirst == ASSUME NEW x PROVE <<x>> \o <<>> = <<x>>
OBVIOUS

(* Go takes one await off, and puts nothing or one await in its place.     *)
LEMMA GoNone ==
  ASSUME NEW s \in Socket, NEW n, HandIn(n, s, Tail(Todo(s))), Go(s, <<>>)
  PROVE  hand' = [hand EXCEPT ![s] = Tail(Todo(s))]
<1> DEFINE h == Tail(Todo(s))
<1> HIDE DEF h
<1>1. ASSUME HandIn(n, s, h) PROVE <<>> \o h = h
  <2>1. CASE h = <<>> BY <2>1, NoneFirst
  <2>2. CASE h \in Joining(Who[s])
    BY <2>2, NoneFirst DEF Joining, Joining1, Joining2, Joining3, Joining4, Connecting
  <2>3. CASE h \in Leaving(Who[s])
    BY <2>3, NoneFirst DEF Leaving, Leaving2, Leaving3, Leaving4, Leaving5
  <2>4. ASSUME NEW f \in Event, h \in {Sends(f), Reports(f), Tells(f)} PROVE <<>> \o h = h
    BY <2>4, NoneFirst DEF Sends, Reports, Tells
  <2> QED BY <1>1, <2>1, <2>2, <2>3, <2>4 DEF HandIn
<1> QED BY <1>1 DEF Go, h

LEMMA GoCast ==
  ASSUME NEW s \in Socket, NEW f, Tail(Todo(s)) = <<>>, Go(s, <<Cast(f)>>)
  PROVE  hand' = [hand EXCEPT ![s] = Tells(f)]
BY OneFirst DEF Go, Tells

LEMMA MoveTypes ==
  ASSUME NEW s \in Socket, HandTypes, NEW h, NEW b, Move(s, h, b), st' = st, drawn' \in Nat, drawn' >= drawn,
         Fine(drawn', s, st[s], h, b)
  PROVE  HandTypes'
<1>1. \A v \in Socket \ {s} : Fine(drawn', v, st[v], hand[v], inbox[v])
  BY FineGrows DEF HandTypes
<1>2. /\ hand' = [hand EXCEPT ![s] = h] /\ inbox' = [inbox EXCEPT ![s] = b]
      /\ hand = [v \in Socket |-> hand[v]] /\ inbox = [v \in Socket |-> inbox[v]]
  BY DEF Move, HandTypes
<1>3. /\ hand'[s] = h /\ inbox'[s] = b /\ \A v \in Socket \ {s} : hand'[v] = hand[v] /\ inbox'[v] = inbox[v]
      /\ hand' = [v \in Socket |-> hand'[v]] /\ inbox' = [v \in Socket |-> inbox'[v]]
  BY <1>2
<1>4. \A v \in Socket : Fine(drawn', v, st'[v], hand'[v], inbox'[v])
  BY <1>1, <1>3
<1> QED BY <1>3, <1>4 DEF HandTypes

(* What each step of a consumer does to its hand and its inbox.            *)
HistoryMove(s) == hand[s] = Joining1(Who[s]) /\ hand' = [hand EXCEPT ![s] = Joining2(Who[s])]
JoinMove(s) == hand[s] = Joining2(Who[s]) /\ Move(s, Joining3(Who[s]), inbox[s])
SnapshotMove(s) == hand[s] = Joining4(Who[s]) /\ Move(s, <<>>, inbox[s])
LeaveMove(s) == hand[s] = Leaving3(Who[s]) /\ Move(s, Leaving4(Who[s]), inbox[s])
DiscardMove(s) == hand[s] = Leaving5(Who[s]) /\ Move(s, <<>>, inbox[s])
StatusMove(s, f) ==
  /\ Own(drawn, s, f) /\ f.type = "message" /\ Arg(s) = f
  /\ hand[s] = Reports(f) /\ Move(s, <<>>, inbox[s])
CreateMove(s, f) == Begins(s, f) /\ f.type = "message" /\ Move(s, Sends(AsStored(f)), Tail(inbox[s]))
(* A frame of the type begun, that is answered with one event g at most.   *)
TellMove(s, types, g) ==
  /\ Begins(s, Arg(s)) /\ Arg(s).type \in types
  /\ \/ Move(s, <<>>, Tail(inbox[s]))
     \/ Move(s, Tells(g), Tail(inbox[s]))

LEMMA Hand1 ==
  ASSUME NEW n, NEW s \in Socket
  PROVE  /\ HandIn(n, s, <<>>)
         /\ HandIn(n, s, Joining1(Who[s])) /\ HandIn(n, s, Joining2(Who[s]))
         /\ HandIn(n, s, Joining3(Who[s])) /\ HandIn(n, s, Joining4(Who[s]))
         /\ HandIn(n, s, Leaving2(Who[s])) /\ HandIn(n, s, Leaving3(Who[s]))
         /\ HandIn(n, s, Leaving4(Who[s])) /\ HandIn(n, s, Leaving5(Who[s]))
BY DEF HandIn, Joining, Leaving

LEMMA Hand2 ==
  ASSUME NEW n, NEW s \in Socket, NEW f, Own(n, s, f)
  PROVE  /\ f.type = "message" => HandIn(n, s, Sends(f)) /\ HandIn(n, s, Reports(f))
         /\ f.type \in Kinds \cup Named => HandIn(n, s, Tells(f))
BY DEF HandIn, Own

LEMMA StoredFrame ==
  ASSUME NEW n \in Nat, NEW s \in Socket, NEW f, Own(n, s, f), f.type = "message"
  PROVE  LET g == AsStored(f) IN
         /\ Own(n, s, g) /\ g \in Event /\ g.type = "message" /\ g.m = f.m /\ g.who = f.who
         /\ g.val = Cut(f.val) /\ g.val \in RowTexts(n)
<1> DEFINE v == Cut(f.val)  g == [f EXCEPT !.val = v]
<1>1. f \in Event /\ f.who = Who[s] /\ f.m \in 1..n /\ f.val \in Texts(n) BY DEF Own, Drawn
<1>2. v \in RowTexts(n) /\ v \in Int /\ v \in Texts(n) BY <1>1, CutTexts
<1> HIDE DEF v
<1>3. g \in Event /\ g.type = "message" /\ g.m = f.m /\ g.who = f.who /\ g.val = v BY <1>1, <1>2 DEF Event
<1> HIDE DEF g
<1>4. Own(n, s, g) BY <1>1, <1>2, <1>3 DEF Own, Drawn
<1> QED BY <1>2, <1>3, <1>4 DEF AsStored, g, v

-----------------------------------------------------------------------------
(* The types of a page.                                                    *)
Bubbles == {"none", "unconfirmed", "confirmed"}
Entry == [by : Person, text : Int, deleted : BOOLEAN, count : Nat, played : BOOLEAN,
          bubble : Bubbles, tick : Ticks]
Shown(n) == UNION {[D -> Entry] : D \in SUBSET (1..n)}
Pages(n) == [shown : Shown(n), members : SUBSET Person, signs : SUBSET (Kinds \X Person),
             seen : SUBSET Nat, busy : SUBSET Kinds]
EventIn(n, ev) == ev \in Event /\ ev.type \in EventTypes /\ Drawn(n, ev)
Queue(n, q) == q \in Seq(Event) /\ \A k \in 1..Len(q) : EventIn(n, q[k])

LEMMA PutTyped ==
  ASSUME NEW T, NEW f, f \in [DOMAIN f -> T], NEW k, NEW v \in T
  PROVE  /\ Put(f, k, v) \in [DOMAIN f \cup {k} -> T]
         /\ DOMAIN Put(f, k, v) = DOMAIN f \cup {k}
         /\ Put(f, k, v)[k] = v
         /\ \A x \in DOMAIN f \ {k} : Put(f, k, v)[x] = f[x]
BY DEF Put

LEMMA ShownIn ==
  ASSUME NEW n, NEW sh
  PROVE  sh \in Shown(n) <=> DOMAIN sh \subseteq 1..n /\ sh \in [DOMAIN sh -> Entry]
<1>1. ASSUME sh \in Shown(n) PROVE DOMAIN sh \subseteq 1..n /\ sh \in [DOMAIN sh -> Entry]
  <2>1. PICK D \in SUBSET (1..n) : sh \in [D -> Entry] BY <1>1 DEF Shown
  <2> QED BY <2>1
<1>2. ASSUME DOMAIN sh \subseteq 1..n, sh \in [DOMAIN sh -> Entry] PROVE sh \in Shown(n)
  <2>1. DOMAIN sh \in SUBSET (1..n) BY <1>2
  <2> QED BY <1>2, <2>1 DEF Shown
<1> QED BY <1>1, <1>2

LEMMA ShownPut ==
  ASSUME NEW n \in Nat, NEW sh \in Shown(n), NEW m \in 1..n, NEW e \in Entry
  PROVE  /\ Put(sh, m, e) \in Shown(n)
         /\ DOMAIN Put(sh, m, e) = DOMAIN sh \cup {m}
         /\ Put(sh, m, e)[m] = e
         /\ \A x \in DOMAIN sh \ {m} : Put(sh, m, e)[x] = sh[x]
<1>1. DOMAIN sh \subseteq 1..n /\ sh \in [DOMAIN sh -> Entry] BY ShownIn
<1>2. /\ Put(sh, m, e) \in [DOMAIN sh \cup {m} -> Entry]
      /\ DOMAIN Put(sh, m, e) = DOMAIN sh \cup {m}
      /\ Put(sh, m, e)[m] = e
      /\ \A x \in DOMAIN sh \ {m} : Put(sh, m, e)[x] = sh[x]
  BY <1>1 DEF Put
<1>3. Put(sh, m, e) \in Shown(n) BY <1>1, <1>2, ShownIn
<1> QED BY <1>2, <1>3

LEMMA ShownSet ==
  ASSUME NEW n \in Nat, NEW sh \in Shown(n), NEW m \in DOMAIN sh, NEW e \in Entry
  PROVE  /\ [sh EXCEPT ![m] = e] \in Shown(n)
         /\ DOMAIN [sh EXCEPT ![m] = e] = DOMAIN sh
         /\ [sh EXCEPT ![m] = e][m] = e
         /\ \A x \in DOMAIN sh \ {m} : [sh EXCEPT ![m] = e][x] = sh[x]
<1>1. DOMAIN sh \subseteq 1..n /\ sh \in [DOMAIN sh -> Entry] BY ShownIn
<1>2. [sh EXCEPT ![m] = e] \in [DOMAIN sh -> Entry] BY <1>1
<1>3. DOMAIN [sh EXCEPT ![m] = e] = DOMAIN sh OBVIOUS
<1>4. [sh EXCEPT ![m] = e] \in Shown(n) BY <1>1, <1>2, <1>3, ShownIn
<1> QED BY <1>4

LEMMA ShownGrows ==
  ASSUME NEW n \in Nat, NEW n2 \in Nat, n <= n2
  PROVE  Shown(n) \subseteq Shown(n2) /\ Pages(n) \subseteq Pages(n2)
<1>1. 1..n \subseteq 1..n2 OBVIOUS
<1>2. Shown(n) \subseteq Shown(n2) BY <1>1, ShownIn
<1> QED BY <1>2 DEF Pages

LEMMA ServerEntry ==
  ASSUME NEW s \in Socket, NEW by \in Person, NEW text \in Int, NEW count \in Nat
  PROVE  LET e == FromServer(s, by, text, count) IN
         /\ e \in Entry /\ e.by = by /\ e.text = text /\ e.deleted = FALSE /\ e.count = count
         /\ e.played = FALSE /\ e.bubble = "none" /\ e.tick = IF by = Who[s] THEN "read" ELSE "none"
BY DEF FromServer, Entry, Bubbles, Ticks

LEMMA BubbleEntry ==
  ASSUME NEW s \in Socket, NEW m \in Nat
  PROVE  LET e == Bubble(s, m) IN
         /\ e \in Entry /\ e.by = Who[s] /\ e.text = m /\ e.deleted = FALSE /\ e.count = 0
         /\ e.played = FALSE /\ e.bubble = "unconfirmed" /\ e.tick = "sending"
BY WhoTyped DEF Bubble, Entry, Bubbles, Ticks

(* A page's field is set.                                                  *)
LEMMA PageSet ==
  ASSUME NEW n, NEW p \in Pages(n), NEW sh \in Shown(n), NEW mem \in SUBSET Person,
         NEW signs \in SUBSET (Kinds \X Person)
  PROVE  /\ [p EXCEPT !.shown = sh] \in Pages(n)
         /\ [p EXCEPT !.shown = sh, !.signs = signs] \in Pages(n)
         /\ [p EXCEPT !.members = mem] \in Pages(n)
         /\ [p EXCEPT !.signs = signs] \in Pages(n)
BY DEF Pages

LEMMA PageGet ==
  ASSUME NEW n, NEW p \in Pages(n)
  PROVE  /\ p.shown \in Shown(n) /\ p.members \in SUBSET Person /\ p.signs \in SUBSET (Kinds \X Person)
         /\ p.seen \in SUBSET Nat /\ p.busy \in SUBSET Kinds
BY DEF Pages

LEMMA EntryGet ==
  ASSUME NEW n, NEW sh \in Shown(n), NEW m \in DOMAIN sh
  PROVE  sh[m] \in Entry /\ m \in 1..n
BY ShownIn

-----------------------------------------------------------------------------
(* What an event does to a page: to the entry e of m, to the members and   *)
(* to the signs.                                                           *)
Echoed(e) == [e EXCEPT !.bubble = IF @ = "unconfirmed" THEN "confirmed" ELSE @, !.count = 0,
                       !.tick = IF @ = "sending" THEN "sent" ELSE @]
EntryAfter(s, ev, m, e) ==
  IF ev.type = "message" /\ m = ev.m THEN Echoed(e)
  ELSE IF e.bubble = "unconfirmed" THEN e
  ELSE IF ev.type = "read" /\ m \in ev.ids /\ e.by = Who[s] THEN [e EXCEPT !.tick = "read"]
  ELSE IF ev.type = "played" /\ m = ev.m THEN [e EXCEPT !.played = @ \/ e.by = Who[s]]
  ELSE IF ev.type = "reaction" /\ m = ev.m THEN [e EXCEPT !.count = ev.val]
  ELSE IF ev.type = "edit" /\ m = ev.m THEN [e EXCEPT !.text = ev.val]
  ELSE IF ev.type = "delete" /\ m = ev.m THEN [e EXCEPT !.deleted = TRUE, !.count = 0]
  ELSE e
MembersAfter(p, ev) ==
  IF ev.type = "join" THEN p.members \cup {ev.who}
  ELSE IF ev.type = "leave" THEN p.members \ {ev.who} ELSE p.members
SignsAfter(s, p, ev) ==
  IF ev.type = "message" THEN p.signs \ (Kinds \X {ev.who})
  ELSE IF ev.who = Who[s] THEN p.signs
  ELSE IF ev.type \in Kinds THEN p.signs \cup {<<ev.type, ev.who>>}
  ELSE IF ev.type = "typing_stop" THEN p.signs \ {<<"typing", ev.who>>}
  ELSE IF ev.type = "recording_stop" THEN p.signs \ {<<"recording", ev.who>>} ELSE p.signs

LEMMA EchoedEntry ==
  ASSUME NEW e \in Entry
  PROVE  LET g == Echoed(e) IN
         /\ g \in Entry /\ g.by = e.by /\ g.text = e.text /\ g.deleted = e.deleted /\ g.count = 0
         /\ g.played = e.played
         /\ g.bubble = IF e.bubble = "unconfirmed" THEN "confirmed" ELSE e.bubble
         /\ g.tick = IF e.tick = "sending" THEN "sent" ELSE e.tick
BY DEF Echoed, Entry, Bubbles, Ticks

LEMMA EntryAfterTyped ==
  ASSUME NEW n, NEW s \in Socket, NEW ev, EventIn(n, ev), NEW m, NEW e \in Entry
  PROVE  EntryAfter(s, ev, m, e) \in Entry /\ EntryAfter(s, ev, m, e).by = e.by
<1>1. ev.val \in Int /\ (ev.type = "reaction" => ev.val \in Nat) /\ "read" \in Ticks BY DEF EventIn, Event, Drawn, Ticks
<1>2. Echoed(e) \in Entry /\ Echoed(e).by = e.by BY EchoedEntry
<1>3. /\ [e EXCEPT !.tick = "read"] \in Entry
      /\ [e EXCEPT !.played = @ \/ e.by = Who[s]] \in Entry
      /\ ev.type = "reaction" => [e EXCEPT !.count = ev.val] \in Entry
      /\ [e EXCEPT !.text = ev.val] \in Entry
      /\ [e EXCEPT !.deleted = TRUE, !.count = 0] \in Entry
  BY <1>1 DEF Entry
<1>4. /\ [e EXCEPT !.tick = "read"].by = e.by
      /\ [e EXCEPT !.played = @ \/ e.by = Who[s]].by = e.by
      /\ [e EXCEPT !.count = ev.val].by = e.by
      /\ [e EXCEPT !.text = ev.val].by = e.by
      /\ [e EXCEPT !.deleted = TRUE, !.count = 0].by = e.by
  BY DEF Entry
<1> QED BY <1>2, <1>3, <1>4 DEF EntryAfter

LEMMA OnMessage ==
  ASSUME NEW n \in Nat, NEW s \in Socket, NEW p \in Pages(n), NEW ev, EventIn(n, ev), ev.type = "message"
  PROVE  LET q == OnEvent(s, p, ev) IN
         /\ q \in Pages(n)
         /\ DOMAIN q.shown = DOMAIN p.shown \cup {ev.m}
         /\ \A m \in DOMAIN p.shown : q.shown[m] = EntryAfter(s, ev, m, p.shown[m])
         /\ ev.m \notin DOMAIN p.shown => q.shown[ev.m] = FromServer(s, ev.who, ev.val, 0)
         /\ q.members = MembersAfter(p, ev) /\ q.signs = SignsAfter(s, p, ev)
<1> DEFINE sh == IF ev.m \in DOMAIN p.shown
                 THEN [p.shown EXCEPT ![ev.m] = Echoed(p.shown[ev.m])]
                 ELSE Put(p.shown, ev.m, FromServer(s, ev.who, ev.val, 0))
<1> DEFINE signs == p.signs \ (Kinds \X {ev.who})
<1>1. OnEvent(s, p, ev) = [p EXCEPT !.shown = sh, !.signs = signs]
  BY DEF OnEvent, HandleMessage, Echoed, Kinds
<1>2. p.shown \in Shown(n) /\ p.signs \in SUBSET (Kinds \X Person) BY PageGet
<1>3. ev.m \in 1..n /\ ev.val \in Int /\ ev.who \in Person BY DEF EventIn, Drawn, Event
<1>4. /\ sh \in Shown(n) /\ DOMAIN sh = DOMAIN p.shown \cup {ev.m}
      /\ \A m \in DOMAIN p.shown \ {ev.m} : sh[m] = p.shown[m]
      /\ ev.m \in DOMAIN p.shown => sh[ev.m] = Echoed(p.shown[ev.m])
      /\ ev.m \notin DOMAIN p.shown => sh[ev.m] = FromServer(s, ev.who, ev.val, 0)
  <2>1. CASE ev.m \in DOMAIN p.shown
    <3>1. Echoed(p.shown[ev.m]) \in Entry BY <1>2, <2>1, EntryGet, EchoedEntry
    <3> QED BY <1>2, <2>1, <3>1, ShownSet
  <2>2. CASE ev.m \notin DOMAIN p.shown
    <3> DEFINE g == FromServer(s, ev.who, ev.val, 0)
    <3>1. g \in Entry BY <1>3, ServerEntry
    <3> HIDE DEF g
    <3>2. /\ Put(p.shown, ev.m, g) \in Shown(n)
          /\ DOMAIN Put(p.shown, ev.m, g) = DOMAIN p.shown \cup {ev.m}
          /\ Put(p.shown, ev.m, g)[ev.m] = g
          /\ \A x \in DOMAIN p.shown \ {ev.m} : Put(p.shown, ev.m, g)[x] = p.shown[x]
      <4>1. DOMAIN p.shown \subseteq 1..n /\ p.shown \in [DOMAIN p.shown -> Entry] BY <1>2, ShownIn
      <4>2. /\ Put(p.shown, ev.m, g) \in [DOMAIN p.shown \cup {ev.m} -> Entry]
            /\ DOMAIN Put(p.shown, ev.m, g) = DOMAIN p.shown \cup {ev.m}
            /\ Put(p.shown, ev.m, g)[ev.m] = g
            /\ \A x \in DOMAIN p.shown \ {ev.m} : Put(p.shown, ev.m, g)[x] = p.shown[x]
        BY <3>1, <4>1 DEF Put
      <4>3. DOMAIN p.shown \cup {ev.m} \in SUBSET (1..n) BY <1>3, <4>1
      <4> QED BY <4>2, <4>3 DEF Shown
    <3>3. sh = Put(p.shown, ev.m, g) BY <2>2 DEF g
    <3> HIDE DEF sh
    <3> QED BY <2>2, <3>2, <3>3 DEF g
  <2> QED BY <2>1, <2>2
<1> HIDE DEF sh
<1>5. [p EXCEPT !.shown = sh, !.signs = signs] \in Pages(n)
  BY <1>2, <1>4, PageSet
<1>6. /\ [p EXCEPT !.shown = sh, !.signs = signs].shown = sh
      /\ [p EXCEPT !.shown = sh, !.signs = signs].signs = signs
      /\ [p EXCEPT !.shown = sh, !.signs = signs].members = p.members
  BY DEF Pages
<1>7. \A m \in DOMAIN p.shown : sh[m] = EntryAfter(s, ev, m, p.shown[m])
  BY <1>4 DEF EntryAfter
<1>8. p.members = MembersAfter(p, ev) /\ signs = SignsAfter(s, p, ev)
  BY DEF MembersAfter, SignsAfter
<1> QED BY <1>1, <1>4, <1>5, <1>6, <1>7, <1>8

LEMMA Patched ==
  ASSUME NEW n \in Nat, NEW p \in Pages(n), NEW m, NEW e, m \in DOMAIN p.shown => e \in Entry
  PROVE  LET q == Patch(p, m, e) IN
         /\ q \in Pages(n) /\ DOMAIN q.shown = DOMAIN p.shown
         /\ \A x \in DOMAIN p.shown : q.shown[x] = IF x = m THEN e ELSE p.shown[x]
         /\ q.members = p.members /\ q.signs = p.signs
<1>1. p.shown \in Shown(n) BY PageGet
<1>2. CASE m \in DOMAIN p.shown
  <2> DEFINE sh == [p.shown EXCEPT ![m] = e]
  <2>1. sh \in Shown(n) /\ DOMAIN sh = DOMAIN p.shown /\ sh[m] = e /\ \A x \in DOMAIN p.shown \ {m} : sh[x] = p.shown[x]
    BY <1>1, <1>2, ShownSet
  <2>2. Patch(p, m, e) = [p EXCEPT !.shown = sh]
    BY <1>2 DEF Patch, Pages
  <2> HIDE DEF sh
  <2>3. /\ [p EXCEPT !.shown = sh] \in Pages(n) /\ [p EXCEPT !.shown = sh].shown = sh
        /\ [p EXCEPT !.shown = sh].members = p.members /\ [p EXCEPT !.shown = sh].signs = p.signs
    BY <2>1 DEF Pages
  <2> QED BY <1>2, <2>1, <2>2, <2>3
<1>3. CASE m \notin DOMAIN p.shown
  BY <1>1, <1>3 DEF Patch
<1> QED BY <1>2, <1>3

LEMMA OnRead ==
  ASSUME NEW n \in Nat, NEW s \in Socket, NEW p \in Pages(n), NEW ev, EventIn(n, ev), ev.type = "read"
  PROVE  LET q == OnEvent(s, p, ev) IN
         /\ q \in Pages(n) /\ DOMAIN q.shown = DOMAIN p.shown
         /\ \A m \in DOMAIN p.shown : q.shown[m] = EntryAfter(s, ev, m, p.shown[m])
         /\ q.members = MembersAfter(p, ev) /\ q.signs = SignsAfter(s, p, ev)
<1> DEFINE sh == [m \in DOMAIN p.shown |->
     IF m \in ev.ids /\ Known(p, m) /\ p.shown[m].by = Who[s]
     THEN [p.shown[m] EXCEPT !.tick = "read"] ELSE p.shown[m]]
<1>1. OnEvent(s, p, ev) = [p EXCEPT !.shown = sh]
  BY DEF OnEvent, HandleRead
<1>2. p.shown \in Shown(n) BY PageGet
<1>3. \A m \in DOMAIN p.shown : sh[m] = EntryAfter(s, ev, m, p.shown[m])
  BY DEF EntryAfter, Known
<1>4. \A m \in DOMAIN p.shown : sh[m] \in Entry
  BY <1>2, <1>3, EntryGet, EntryAfterTyped, SMTT(30)
<1>5. sh \in Shown(n)
  <2>1. DOMAIN sh \subseteq 1..n BY <1>2, ShownIn
  <2>2. sh \in [DOMAIN sh -> Entry] BY <1>4
  <2> HIDE DEF sh
  <2> QED BY <2>1, <2>2, ShownIn
<1>6. DOMAIN sh = DOMAIN p.shown OBVIOUS
<1> HIDE DEF sh
<1>7. /\ [p EXCEPT !.shown = sh] \in Pages(n) /\ [p EXCEPT !.shown = sh].shown = sh
      /\ [p EXCEPT !.shown = sh].members = p.members /\ [p EXCEPT !.shown = sh].signs = p.signs
  BY <1>5 DEF Pages
<1>8. MembersAfter(p, ev) = p.members /\ SignsAfter(s, p, ev) = p.signs
  BY DEF MembersAfter, SignsAfter, Kinds
<1> QED BY <1>1, <1>3, <1>6, <1>7, <1>8

(* The whole of onMessage.                                                 *)
LEMMA OnEvents ==
  ASSUME NEW n \in Nat, NEW s \in Socket, NEW p \in Pages(n), NEW ev, EventIn(n, ev)
  PROVE  LET q == OnEvent(s, p, ev) IN
         /\ q \in Pages(n)
         /\ DOMAIN q.shown = DOMAIN p.shown \cup (IF ev.type = "message" THEN {ev.m} ELSE {})
         /\ \A m \in DOMAIN p.shown : q.shown[m] = EntryAfter(s, ev, m, p.shown[m])
         /\ ev.type = "message" /\ ev.m \notin DOMAIN p.shown =>
              q.shown[ev.m] = FromServer(s, ev.who, ev.val, 0)
         /\ q.members = MembersAfter(p, ev) /\ q.signs = SignsAfter(s, p, ev)
<1> DEFINE q == OnEvent(s, p, ev)
<1>1. CASE ev.type = "message" BY <1>1, OnMessage
<1>2. CASE ev.type = "read" BY <1>2, OnRead
<1>6. CASE ev.type \in {"played", "reaction", "edit", "delete"} /\ ~Known(p, ev.m)
  <2>1. q = p BY <1>6, Zenon DEF OnEvent, PatchKnown
  <2>2. \A m \in DOMAIN p.shown : EntryAfter(s, ev, m, p.shown[m]) = p.shown[m]
    BY <1>6 DEF EntryAfter, Known
  <2>3. MembersAfter(p, ev) = p.members /\ SignsAfter(s, p, ev) = p.signs
    BY <1>6 DEF MembersAfter, SignsAfter, Kinds
  <2> QED BY <1>6, <2>1, <2>2, <2>3
<1>3. CASE ev.type \in {"played", "reaction", "edit", "delete"} /\ Known(p, ev.m)
  <2> DEFINE e == EntryAfter(s, ev, ev.m, p.shown[ev.m])
  <2>1. q = Patch(p, ev.m, e)
    <3>1. CASE ev.type = "played"
      <4>1. e = [p.shown[ev.m] EXCEPT !.played = @ \/ p.shown[ev.m].by = Who[s]] BY <1>3, <3>1 DEF EntryAfter, Known
      <4> QED BY <1>3, <3>1, <4>1 DEF OnEvent, PatchKnown
    <3>2. CASE ev.type = "reaction"
      <4>1. e = [p.shown[ev.m] EXCEPT !.count = ev.val] BY <1>3, <3>2 DEF EntryAfter, Known
      <4> QED BY <1>3, <3>2, <4>1 DEF OnEvent, PatchKnown
    <3>3. CASE ev.type = "edit"
      <4>1. e = [p.shown[ev.m] EXCEPT !.text = ev.val] BY <1>3, <3>3 DEF EntryAfter, Known
      <4> QED BY <1>3, <3>3, <4>1 DEF OnEvent, PatchKnown
    <3>4. CASE ev.type = "delete"
      <4>1. e = [p.shown[ev.m] EXCEPT !.deleted = TRUE, !.count = 0] BY <1>3, <3>4 DEF EntryAfter, Known
      <4> QED BY <1>3, <3>4, <4>1 DEF OnEvent, PatchKnown
    <3> QED BY <1>3, <3>1, <3>2, <3>3, <3>4
  <2>2. ev.m \in DOMAIN p.shown => e \in Entry
    BY PageGet, EntryGet, EntryAfterTyped
  <2>3. \A m \in DOMAIN p.shown : m # ev.m => EntryAfter(s, ev, m, p.shown[m]) = p.shown[m]
    BY <1>3 DEF EntryAfter
  <2>4. MembersAfter(p, ev) = p.members /\ SignsAfter(s, p, ev) = p.signs
    BY <1>3 DEF MembersAfter, SignsAfter, Kinds
  <2> HIDE DEF e
  <2>5. /\ q \in Pages(n) /\ DOMAIN q.shown = DOMAIN p.shown
        /\ \A x \in DOMAIN p.shown : q.shown[x] = IF x = ev.m THEN e ELSE p.shown[x]
        /\ q.members = p.members /\ q.signs = p.signs
    BY <2>1, <2>2, Patched
  <2> QED BY <1>3, <2>3, <2>4, <2>5 DEF e
<1>4. CASE ev.type \in {"join", "leave"}
  <2>1. ev.who \in Person BY DEF EventIn, Event
  <2>2. p.members \in SUBSET Person BY PageGet
  <2>3. q = [p EXCEPT !.members = MembersAfter(p, ev)] BY <1>4 DEF OnEvent, MembersAfter
  <2>4. MembersAfter(p, ev) \in SUBSET Person BY <2>1, <2>2 DEF MembersAfter
  <2>5. /\ q \in Pages(n) /\ q.shown = p.shown /\ q.members = MembersAfter(p, ev) /\ q.signs = p.signs
    BY <2>3, <2>4 DEF Pages
  <2>6. \A m \in DOMAIN p.shown : EntryAfter(s, ev, m, p.shown[m]) = p.shown[m]
    BY <1>4 DEF EntryAfter
  <2>7. SignsAfter(s, p, ev) = p.signs BY <1>4 DEF SignsAfter, Kinds
  <2> QED BY <1>4, <2>5, <2>6, <2>7
<1>5. CASE ev.type \in {"typing", "recording", "typing_stop", "recording_stop"}
  <2>1. ev.who \in Person BY DEF EventIn, Event
  <2>2. p.signs \in SUBSET (Kinds \X Person) BY PageGet
  <2>3. q = [p EXCEPT !.signs = SignsAfter(s, p, ev)]
    BY <1>5 DEF OnEvent, SignsAfter, Kinds
  <2>4. SignsAfter(s, p, ev) \in SUBSET (Kinds \X Person)
    BY <2>1, <2>2 DEF SignsAfter, Kinds
  <2>5. /\ q \in Pages(n) /\ q.shown = p.shown /\ q.signs = SignsAfter(s, p, ev) /\ q.members = p.members
    BY <2>3, <2>4 DEF Pages
  <2>6. \A m \in DOMAIN p.shown : EntryAfter(s, ev, m, p.shown[m]) = p.shown[m]
    BY <1>5 DEF EntryAfter
  <2>7. MembersAfter(p, ev) = p.members BY <1>5 DEF MembersAfter
  <2> QED BY <1>5, <2>5, <2>6, <2>7
<1> QED BY <1>1, <1>2, <1>3, <1>4, <1>5, <1>6 DEF EventIn, EventTypes, Kinds, Named

-----------------------------------------------------------------------------
(* Each step of a consumer, as what it does to hand and inbox.             *)
LEMMA JoinEffect ==
  ASSUME NEW s \in Socket, HandTypes, Join(s)
  PROVE  JoinMove(s) /\ HandTypes'
<1> DEFINE i == Who[s]
<1>1. /\ Busy(s) /\ HandIn(drawn, s, hand[s]) /\ hand[s] # <<>> /\ Head(hand[s]).await = "join"
      /\ Todo(s) = hand[s] /\ Rest(s) = inbox[s]
  BY AtHand DEF Join
<1>2. drawn \in Nat /\ drawn' = drawn /\ st' = st BY DEF Join, HandTypes
<1>3. hand[s] = Joining2(i) BY <1>1, <1>2, Fronts
<1>4. Tail(Todo(s)) = Joining3(i) BY <1>1, <1>3, JoiningHands
<1>5. HandIn(drawn, s, Joining3(i)) BY Hand1
<1>6. Move(s, Joining3(i), inbox[s])
  BY <1>1, <1>4, <1>5, GoNone DEF Join, Took, Move
<1>7. ~Departing(Joining2(i)) /\ ~Departing(Joining3(i)) BY WhoTyped, Departure
<1>8. Fine(drawn, s, st[s], Joining3(i), inbox[s])
  BY <1>1, <1>3, <1>5, <1>7, NextAwait DEF Busy
<1> QED BY <1>2, <1>3, <1>6, <1>8, MoveTypes DEF JoinMove

LEMMA SnapshotEffect ==
  ASSUME NEW s \in Socket, HandTypes, Snapshot(s)
  PROVE  SnapshotMove(s) /\ HandTypes'
<1> DEFINE i == Who[s]
<1>1. /\ Busy(s) /\ HandIn(drawn, s, hand[s]) /\ hand[s] # <<>> /\ Head(hand[s]).await = "snapshot"
      /\ Todo(s) = hand[s] /\ Rest(s) = inbox[s]
  BY AtHand DEF Snapshot
<1>2. drawn \in Nat /\ drawn' = drawn /\ st' = st BY DEF Snapshot, HandTypes
<1>3. hand[s] = Joining4(i) BY <1>1, <1>2, Fronts
<1>4. Tail(Todo(s)) = <<>> BY <1>1, <1>3, JoiningHands
<1>5. HandIn(drawn, s, <<>>) BY Hand1
<1>6. Move(s, <<>>, inbox[s])
  BY <1>1, <1>4, <1>5, GoNone DEF Snapshot, Took, Move
<1>7. ~Departing(Joining4(i)) /\ ~Departing(<<>>) BY WhoTyped, Departure
<1>8. Fine(drawn, s, st[s], <<>>, inbox[s])
  BY <1>1, <1>3, <1>5, <1>7, NextAwait DEF Busy
<1> QED BY <1>2, <1>3, <1>6, <1>8, MoveTypes DEF SnapshotMove

LEMMA LeaveEffect ==
  ASSUME NEW s \in Socket, HandTypes, Leave(s)
  PROVE  LeaveMove(s) /\ st[s] = "closing" /\ HandTypes'
<1> DEFINE i == Who[s]
<1>1. /\ Busy(s) /\ HandIn(drawn, s, hand[s]) /\ hand[s] # <<>> /\ Head(hand[s]).await = "leave"
      /\ Todo(s) = hand[s] /\ Rest(s) = inbox[s]
  BY AtHand DEF Leave
<1>2. drawn \in Nat /\ drawn' = drawn /\ st' = st BY DEF Leave, HandTypes
<1>3. hand[s] = Leaving3(i) BY <1>1, <1>2, Fronts
<1>4. Tail(Todo(s)) = Leaving4(i) BY <1>1, <1>3, LeavingHands
<1>5. HandIn(drawn, s, Leaving4(i)) BY Hand1
<1>6. Move(s, Leaving4(i), inbox[s])
  BY <1>1, <1>4, <1>5, GoNone DEF Leave, Took, Move
<1>7. Departing(Leaving3(i)) /\ Departing(Leaving4(i)) BY WhoTyped, Departure
<1>8. Fine(drawn, s, st[s], Leaving4(i), inbox[s])
  BY <1>1, <1>3, <1>5, <1>7, NextAwait DEF Busy
<1>9. st[s] = "closing" BY <1>1, <1>3, <1>7 DEF Busy, Fine
<1> QED BY <1>2, <1>3, <1>6, <1>8, <1>9, MoveTypes DEF LeaveMove

LEMMA StatusEffect ==
  ASSUME NEW s \in Socket, HandTypes, Status(s)
  PROVE  StatusMove(s, Arg(s)) /\ HandTypes'
<1>1. /\ Busy(s) /\ HandIn(drawn, s, hand[s]) /\ hand[s] # <<>> /\ Head(hand[s]).await = "status"
      /\ Todo(s) = hand[s] /\ Rest(s) = inbox[s]
  BY AtHand DEF Status
<1>2. drawn \in Nat /\ drawn' = drawn /\ st' = st BY DEF Status, HandTypes
<1>3. PICK f \in Event : Own(drawn, s, f) /\ f.type = "message" /\ hand[s] = Reports(f)
  BY <1>1, <1>2, Fronts
<1>4. Tail(Todo(s)) = <<>> /\ Arg(s) = f BY <1>1, <1>3, FrameHands, DoParts DEF Arg
<1>5. HandIn(drawn, s, <<>>) BY Hand1
<1>6. Move(s, <<>>, inbox[s])
  BY <1>1, <1>4, <1>5, GoNone DEF Status, Took, Move
<1>7. ~Departing(Reports(f)) /\ ~Departing(<<>>) BY <1>3, WhoTyped, Departure
<1>8. Fine(drawn, s, st[s], <<>>, inbox[s])
  BY <1>1, <1>3, <1>5, <1>7, NextAwait DEF Busy
<1> QED BY <1>2, <1>3, <1>4, <1>6, <1>8, MoveTypes DEF StatusMove

LEMMA CreateEffect ==
  ASSUME NEW s \in Socket, HandTypes, CreateMessage(s)
  PROVE  CreateMove(s, Arg(s)) /\ HandTypes'
<1> DEFINE f == Arg(s)  g == AsStored(f)
<1>1. Busy(s) /\ Begins(s, f) /\ Rest(s) = Tail(inbox[s]) /\ f.type = "message" /\ Tail(Todo(s)) = Sends(g)
  BY AtFrame DEF CreateMessage
<1>2. drawn \in Nat /\ drawn' = drawn /\ st' = st BY DEF CreateMessage, HandTypes
<1>3. Own(drawn, s, g) /\ g \in Event /\ g.type = "message"
  BY <1>1, <1>2, StoredFrame DEF Begins, FrameIn
<1> HIDE DEF g
<1>4. HandIn(drawn, s, Sends(g)) BY <1>3, Hand2
<1>5. Move(s, Sends(g), Tail(inbox[s]))
  BY <1>1, <1>4, GoNone DEF CreateMessage, Took, Move
<1>6. ~Departing(Sends(g)) BY <1>3, WhoTyped, Departure
<1>7. Fine(drawn, s, st[s], Sends(g), Tail(inbox[s]))
  BY <1>1, <1>4, <1>6, NextFrame DEF Busy, Begins
<1> QED BY <1>1, <1>2, <1>5, <1>7, MoveTypes DEF CreateMove, g

(* The handlers that take one frame and may announce one event g.          *)
LEMMA TellEffect ==
  ASSUME NEW s \in Socket, HandTypes, NEW a \in Named \cup {"allow"}, At(s, a), NEW g,
         Own(drawn, s, g), g.type = Arg(s).type, st' = st, drawn' = drawn,
         Go(s, <<>>) \/ Go(s, <<Cast(g)>>), Took(s)
  PROVE  /\ TellMove(s, IF a = "allow" THEN Kinds ELSE {a}, g) /\ HandTypes'
         /\ Go(s, <<>>) => Move(s, <<>>, Tail(inbox[s]))
         /\ Go(s, <<Cast(g)>>) => Move(s, Tells(g), Tail(inbox[s]))
<1> DEFINE f == Arg(s)
<1>1. Busy(s) /\ Begins(s, f) /\ Rest(s) = Tail(inbox[s]) /\ Tail(Todo(s)) = <<>>
      /\ f.type \in (IF a = "allow" THEN Kinds ELSE {a})
  BY AtFrame DEF Named
<1>2. drawn \in Nat BY DEF HandTypes
<1>3. f.type \in Kinds \cup Named /\ g.type \in Kinds \cup Named /\ f.type # "disconnect" /\ g \in Event
  BY <1>1 DEF Kinds, Named, Own
<1>4. HandIn(drawn, s, Tells(g)) /\ HandIn(drawn, s, <<>>) BY <1>3, Hand1, Hand2
<1>5. ~Departing(Tells(g)) /\ ~Departing(<<>>) BY <1>3, WhoTyped, Departure
<1>6. Fine(drawn, s, st[s], Tells(g), Tail(inbox[s])) /\ Fine(drawn, s, st[s], <<>>, Tail(inbox[s]))
  BY <1>1, <1>3, <1>4, <1>5, NextFrame DEF Busy, Begins
<1>7. ASSUME Go(s, <<>>) PROVE Move(s, <<>>, Tail(inbox[s]))
  BY <1>1, <1>4, <1>7, GoNone DEF Took, Move
<1>8. ASSUME Go(s, <<Cast(g)>>) PROVE Move(s, Tells(g), Tail(inbox[s]))
  BY <1>1, <1>8, GoCast DEF Took, Move
<1>9. HandTypes'
  BY <1>2, <1>6, <1>7, <1>8, MoveTypes
<1> QED BY <1>1, <1>7, <1>8, <1>9 DEF TellMove

LEMMA CastEffect ==
  ASSUME NEW s \in Socket, HandTypes, Broadcast(s)
  PROVE  /\ \E h, b : CastCase(s, Arg(s), h, b) /\ Move(s, h, b)
         /\ EventIn(drawn, Arg(s)) /\ Arg(s).who = Who[s] /\ st[s] \in {"open", "closing"} /\ HandTypes'
<1> DEFINE i == Who[s]  ev == Arg(s)  h == Tail(Todo(s))  b == Rest(s)
<1>1. Busy(s) /\ CastCase(s, ev, h, b)
  BY AtCast DEF Broadcast
<1>2. drawn \in Nat /\ drawn' = drawn /\ st' = st /\ st[s] \in {"open", "closing"} /\ Go(s, <<>>)
      /\ inbox' = [inbox EXCEPT ![s] = b]
  BY <1>1 DEF Broadcast, HandTypes, Busy, Took
<1>3. i \in Person BY WhoTyped
<1> HIDE DEF h, b, ev, i
<1>4. HandIn(drawn, s, h) /\ Fine(drawn, s, st[s], h, b) /\ EventIn(drawn, ev) /\ ev.who = i
  <2>0. HandIn(drawn, s, <<>>) /\ ~Departing(<<>>) BY <1>3, Hand1, Departure
  <2>1. CASE hand[s] = Joining3(i) /\ ev = Hello(i) /\ h = Joining4(i) /\ b = inbox[s]
    <3>1. HandIn(drawn, s, Joining4(i)) /\ ~Departing(Joining3(i)) /\ ~Departing(Joining4(i))
      BY <1>3, Hand1, Departure DEF i
    <3>2. Fine(drawn, s, st[s], h, b) BY <1>1, <2>1, <3>1, NextAwait DEF Busy
    <3> QED BY <1>3, <2>1, <3>1, <3>2, Events DEF EventIn, EventTypes, Drawn
  <2>2. CASE hand[s] = Leaving2(i) /\ ev = As(Bye(i), "recording_stop") /\ h = Leaving3(i) /\ b = inbox[s]
    <3>1. HandIn(drawn, s, Leaving3(i)) /\ Departing(Leaving2(i)) /\ Departing(Leaving3(i))
      BY <1>3, Hand1, Departure DEF i
    <3>2. Fine(drawn, s, st[s], h, b) BY <1>1, <2>2, <3>1, NextAwait DEF Busy
    <3>3. ev \in Event /\ ev.type = "recording_stop" /\ ev.who = i BY <1>3, <2>2, Events DEF EventTypes
    <3> QED BY <2>2, <3>1, <3>2, <3>3 DEF EventIn, EventTypes, Drawn
  <2>3. CASE hand[s] = Leaving4(i) /\ ev = As(Bye(i), "leave") /\ h = Leaving5(i) /\ b = inbox[s]
    <3>1. HandIn(drawn, s, Leaving5(i)) /\ Departing(Leaving4(i)) /\ Departing(Leaving5(i))
      BY <1>3, Hand1, Departure DEF i
    <3>2. Fine(drawn, s, st[s], h, b) BY <1>1, <2>3, <3>1, NextAwait DEF Busy
    <3>3. ev \in Event /\ ev.type = "leave" /\ ev.who = i BY <1>3, <2>3, Events DEF EventTypes
    <3> QED BY <2>3, <3>1, <3>2, <3>3 DEF EventIn, EventTypes, Drawn
  <2>4. CASE Own(drawn, s, ev) /\ ev.type = "message" /\ hand[s] = Sends(ev) /\ h = Reports(ev) /\ b = inbox[s]
    <3>1. HandIn(drawn, s, h) /\ ~Departing(Sends(ev)) /\ ~Departing(Reports(ev))
      BY <1>3, <2>4, Hand2, Departure DEF Own
    <3>2. Fine(drawn, s, st[s], h, b) BY <1>1, <2>4, <3>1, NextAwait DEF Busy
    <3> QED BY <2>4, <3>1, <3>2 DEF EventIn, EventTypes, Own, i
  <2>5. CASE Own(drawn, s, ev) /\ ev.type \in Kinds \cup Named /\ hand[s] = Tells(ev) /\ h = <<>> /\ b = inbox[s]
    <3>1. ~Departing(Tells(ev)) BY <1>3, <2>5, Departure DEF Own
    <3>2. Fine(drawn, s, st[s], h, b) BY <1>1, <2>0, <2>5, <3>1, NextAwait DEF Busy
    <3> QED BY <2>0, <2>5, <3>2 DEF EventIn, EventTypes, Own, i
  <2>6. CASE Begins(s, ev) /\ ev.type \in {"typing_stop", "recording_stop"} /\ h = <<>> /\ b = Tail(inbox[s])
    <3>1. Fine(drawn, s, st[s], h, b) BY <1>1, <2>0, <2>6, NextFrame DEF Busy, Begins
    <3> QED BY <2>0, <2>6, <3>1 DEF Begins, FrameIn, EventIn, EventTypes, Own, i
  <2>7. CASE Begins(s, Bye(i)) /\ ev = As(Bye(i), "typing_stop") /\ h = Leaving2(i) /\ b = Tail(inbox[s])
    <3>1. Bye(i).type = "disconnect" BY <1>3, Events
    <3>2. Fine(drawn, s, st[s], Leaving2(i), b) BY <1>1, <2>7, <3>1, NextBye DEF Busy, Begins, i
    <3>3. ev \in Event /\ ev.type = "typing_stop" /\ ev.who = i BY <1>3, <2>7, Events DEF EventTypes
    <3>4. HandIn(drawn, s, Leaving2(i)) BY Hand1 DEF i
    <3> QED BY <2>7, <3>2, <3>3, <3>4 DEF EventIn, EventTypes, Drawn
  <2> QED BY <1>1, <2>1, <2>2, <2>3, <2>4, <2>5, <2>6, <2>7 DEF CastCase, i
<1>5. Move(s, h, b)
  BY <1>2, <1>4, GoNone DEF Move, h
<1>6. HandTypes' BY <1>2, <1>4, <1>5, MoveTypes
<1> QED BY <1>1, <1>2, <1>4, <1>5, <1>6 DEF ev, i

-----------------------------------------------------------------------------
(* The types of all the state.                                             *)
Upload == [by : Socket, stored : BOOLEAN]
RowTypes ==
  /\ mix \in Mixes /\ left \in Nat /\ drawn \in Nat
  /\ DOMAIN msgs \subseteq 1..drawn /\ msgs \in [DOMAIN msgs -> MessageType]
  /\ DOMAIN reacts \subseteq PerReader /\ reacts \in [DOMAIN reacts -> BOOLEAN]
  /\ receipts \subseteq PerReader /\ plays \subseteq PerReader
  /\ hash \subseteq Person
  /\ DOMAIN uploads \subseteq 1..drawn /\ uploads \in [DOMAIN uploads -> Upload]
  /\ \A m \in DOMAIN uploads : uploads[m].stored => m \in DOMAIN msgs
ChanTypes ==
  /\ DOMAIN chan = {s \in Socket : st[s] \in {"open", "closing"}}
  /\ chan = [s \in DOMAIN chan |-> chan[s]]
  /\ \A s \in DOMAIN chan : Queue(drawn, chan[s])
PageTypes ==
  /\ DOMAIN page = {s \in Socket : st[s] = "open"}
  /\ page \in [DOMAIN page -> Pages(drawn)]
Types == RowTypes /\ HandTypes /\ ChanTypes /\ PageTypes

(* A page that reports what it has read keeps the rest.                    *)
SamePage(p, q) == q.shown = p.shown /\ q.members = p.members /\ q.signs = p.signs /\ q.busy = p.busy
Reported(n, s, box, b) == b = box \/ \E f : FrameIn(n, s, f) /\ f.type = "read" /\ b = Append(box, f)

LEMMA MarkReadEffect ==
  ASSUME drawn \in Nat, NEW s \in Socket, NEW p \in Pages(drawn), NEW box, MarkRead(s, p, box)
  PROVE  \E q \in Pages(drawn) : \E b : /\ page' = [page EXCEPT ![s] = q] /\ inbox' = [inbox EXCEPT ![s] = b]
                                    /\ SamePage(p, q) /\ Reported(drawn, s, box, b)
<1> DEFINE ids == Unread(s, p)
<1> DEFINE f == [Ev("read", Who[s], 0, 0) EXCEPT !.ids = ids]
<1> DEFINE q == [p EXCEPT !.seen = p.seen \cup ids]
<1>1. ids \subseteq Nat
  BY PageGet, ShownIn DEF Unread
<1>2. /\ f \in Event /\ f.type = "read" /\ f.who = Who[s]
  BY <1>1, WhoTyped DEF Ev, Event, FrameTypes, EventTypes, Named
<1>3. FrameIn(drawn, s, f) BY <1>2 DEF FrameIn, Own, Drawn, FrameTypes, Named
<1>4. q \in Pages(drawn) /\ SamePage(p, q) BY <1>1 DEF Pages, SamePage
<1>5. CASE ids # {} /\ "read" \in mix.acts
  <2>1. page' = [page EXCEPT ![s] = q] /\ inbox' = [inbox EXCEPT ![s] = Append(box, f)]
    BY <1>5 DEF MarkRead
  <2> HIDE DEF f, q
  <2>2. Reported(drawn, s, box, Append(box, f)) BY <1>2, <1>3 DEF Reported
  <2> QED BY <1>4, <2>1, <2>2
<1>6. CASE ~(ids # {} /\ "read" \in mix.acts)
  <2>1. page' = [page EXCEPT ![s] = p] /\ inbox' = [inbox EXCEPT ![s] = box]
    BY <1>6 DEF MarkRead
  <2>2. SamePage(p, p) /\ Reported(drawn, s, box, box) BY DEF SamePage, Reported
  <2> QED BY <2>1, <2>2
<1> QED BY <1>5, <1>6

LEMMA ReportedFine ==
  ASSUME NEW n, NEW s \in Socket, NEW h, NEW box, NEW b,
         Fine(n, s, "open", h, box), Reported(n, s, box, b)
  PROVE  Fine(n, s, "open", h, b)
<1>1. CASE b = box BY <1>1
<1>2. ASSUME NEW f, FrameIn(n, s, f), f.type = "read", b = Append(box, f)
      PROVE  Fine(n, s, "open", h, b)
  <2>1. f.type # "disconnect" BY <1>2
  <2> QED BY <1>2, <2>1, NewFrame
<1> QED BY <1>1, <1>2 DEF Reported

(* A page that says something: one frame more, or two, in its inbox.       *)
LEMMA SayTypes ==
  ASSUME NEW s \in Socket, HandTypes, NEW b, inbox' = [inbox EXCEPT ![s] = b], hand' = hand, st' = st,
         drawn' \in Nat, drawn' >= drawn, Fine(drawn', s, st[s], hand[s], b)
  PROVE  HandTypes'
<1>1. hand' = [hand EXCEPT ![s] = hand[s]] BY DEF HandTypes
<1> QED BY <1>1, MoveTypes DEF Move

LEMMA PageChange ==
  ASSUME PageTypes, drawn \in Nat, drawn' \in Nat, drawn' >= drawn, st' = st,
         NEW s \in DOMAIN page, NEW q \in Pages(drawn'), page' = [page EXCEPT ![s] = q]
  PROVE  PageTypes'
<1>1. page \in [DOMAIN page -> Pages(drawn')] BY ShownGrows DEF PageTypes
<1>2. page' \in [DOMAIN page -> Pages(drawn')] /\ DOMAIN page' = DOMAIN page BY <1>1
<1> QED BY <1>2 DEF PageTypes

LEMMA PageSame ==
  ASSUME PageTypes, drawn \in Nat, drawn' \in Nat, drawn' >= drawn, st' = st, page' = page
  PROVE  PageTypes'
<1>1. page \in [DOMAIN page -> Pages(drawn')] BY ShownGrows DEF PageTypes
<1> QED BY <1>1 DEF PageTypes

LEMMA QueueGrows ==
  ASSUME NEW n \in Nat, NEW n2 \in Nat, n <= n2, NEW q, Queue(n, q)
  PROVE  Queue(n2, q)
<1>1. \A ev : EventIn(n, ev) => EventIn(n2, ev) BY TextsGrow DEF EventIn, Drawn
<1> QED BY <1>1 DEF Queue

LEMMA QueueAppend ==
  ASSUME NEW n, NEW q, Queue(n, q), NEW ev, EventIn(n, ev)
  PROVE  Queue(n, Append(q, ev))
<1>1. q \in Seq(Event) /\ ev \in Event BY DEF Queue, EventIn
<1>2. /\ Append(q, ev) \in Seq(Event) /\ Len(Append(q, ev)) = Len(q) + 1 /\ Len(q) \in Nat
      /\ \A k \in 1..Len(q) : Append(q, ev)[k] = q[k]
      /\ Append(q, ev)[Len(q)+1] = ev
  BY <1>1, Appended
<1>3. ASSUME NEW k \in 1..Len(Append(q, ev)) PROVE EventIn(n, Append(q, ev)[k])
  <2>1. k \in 1..Len(q) \/ k = Len(q)+1 BY <1>2
  <2> QED BY <1>2, <2>1 DEF Queue
<1> QED BY <1>2, <1>3 DEF Queue

LEMMA QueueTail ==
  ASSUME NEW n, NEW q, Queue(n, q), q # <<>>
  PROVE  Queue(n, Tail(q)) /\ EventIn(n, Head(q))
<1>1. q \in Seq(Event) BY DEF Queue
<1>2. /\ Head(q) = q[1] /\ 1 \in 1..Len(q) /\ Tail(q) \in Seq(Event)
      /\ \A k \in 1..Len(Tail(q)) : k+1 \in 1..Len(q) /\ Tail(q)[k] = q[k+1]
  BY <1>1, HeadTail
<1> QED BY <1>2 DEF Queue

LEMMA ChanSame ==
  ASSUME ChanTypes, drawn \in Nat, drawn' \in Nat, drawn' >= drawn, st' = st, chan' = chan
  PROVE  ChanTypes'
<1>1. \A s \in DOMAIN chan : Queue(drawn', chan[s]) BY QueueGrows DEF ChanTypes
<1> QED BY <1>1 DEF ChanTypes

LEMMA ChanCast ==
  ASSUME ChanTypes, NEW ev, EventIn(drawn, ev), drawn' = drawn, st' = st, chan' = Everyone(ev)
  PROVE  ChanTypes'
<1>1. DOMAIN chan' = DOMAIN chan /\ \A s \in DOMAIN chan : chan'[s] = Append(chan[s], ev)
  BY DEF Everyone
<1>2. ASSUME NEW s \in DOMAIN chan PROVE Queue(drawn, chan'[s])
  <2>1. Queue(drawn, chan[s]) BY DEF ChanTypes
  <2>2. Queue(drawn, Append(chan[s], ev)) BY <2>1, QueueAppend
  <2> QED BY <1>1, <2>2
<1>3. chan' = [s \in DOMAIN chan' |-> chan'[s]] BY DEF Everyone
<1> QED BY <1>1, <1>2, <1>3 DEF ChanTypes

LEMMA RowsSame ==
  ASSUME RowTypes, left' \in Nat, drawn' \in Nat, drawn' >= drawn, mix' = mix,
         UNCHANGED <<rows, hash, uploads>>
  PROVE  RowTypes'
<1>1. 1..drawn \subseteq 1..drawn' BY DEF RowTypes
<1>2. MessageType \subseteq MessageType' BY TextsGrow DEF RowTypes, MessageType
<1>3. msgs \in [DOMAIN msgs -> MessageType'] BY <1>2 DEF RowTypes
<1>4. UNCHANGED <<msgs, reacts, receipts, plays>> BY DEF rows
<1> QED BY <1>1, <1>3, <1>4 DEF RowTypes, PerReader

(* The types hold of the actions of a consumer, one by one.                *)
LEMMA TypesConnect ==
  ASSUME Types, NEW s \in Socket, Connect(s)
  PROVE  Types'
<1>1. /\ st[s] = "new" /\ left' = left - 1 /\ left > 0 /\ drawn' = drawn /\ mix' = mix
      /\ UNCHANGED <<rows, hash, uploads, inbox>>
      /\ st' = [st EXCEPT ![s] = "open"] /\ chan' = Put(chan, s, <<>>) /\ page' = Put(page, s, NewPage)
      /\ hand' = [hand EXCEPT ![s] = Joining1(Who[s])]
  BY DEF Connect, Joining1
<1>2. left' \in Nat /\ drawn \in Nat BY <1>1 DEF Types, RowTypes
<1>3. RowTypes' BY <1>1, <1>2, RowsSame DEF Types
<1>4. st \in [Socket -> States] /\ hand = [v \in Socket |-> hand[v]] /\ Fine(drawn, s, "new", hand[s], inbox[s])
  BY <1>1 DEF Types, HandTypes
<1>5. /\ st' \in [Socket -> States] /\ st'[s] = "open" /\ \A v \in Socket \ {s} : st'[v] = st[v]
      /\ hand' = [v \in Socket |-> hand'[v]] /\ hand'[s] = Joining1(Who[s])
      /\ \A v \in Socket \ {s} : hand'[v] = hand[v]
  BY <1>1, <1>4 DEF States
<1>6. Fine(drawn, s, "open", Joining1(Who[s]), <<>>) /\ inbox[s] = <<>>
  <2>1. ~Departing(Joining1(Who[s])) /\ HandIn(drawn, s, Joining1(Who[s]))
    BY WhoTyped, Departure, Hand1
  <2> QED BY <1>4, <2>1 DEF Fine, Box, States
<1>7. HandTypes' BY <1>1, <1>2, <1>5, <1>6 DEF Types, HandTypes
<1>8. ChanTypes'
  <2>1. DOMAIN chan' = DOMAIN chan \cup {s} /\ chan'[s] = <<>> /\ \A v \in DOMAIN chan \ {s} : chan'[v] = chan[v]
    BY <1>1 DEF Put
  <2>2. Queue(drawn, <<>>) BY DEF Queue
  <2>3. chan' = [v \in DOMAIN chan' |-> chan'[v]] BY <1>1 DEF Put
  <2>4. DOMAIN chan' = {v \in Socket : st'[v] \in {"open", "closing"}}
    BY <1>5, <2>1 DEF Types, ChanTypes
  <2>5. \A v \in DOMAIN chan' : Queue(drawn, chan'[v])
    BY <2>1, <2>2 DEF Types, ChanTypes
  <2> QED BY <1>1, <2>3, <2>4, <2>5 DEF ChanTypes
<1>9. PageTypes'
  <2>1. NewPage \in Pages(drawn)
    <3>0. DOMAIN <<>> = {} /\ <<>> \in [{} -> Entry] OBVIOUS
    <3>1. <<>> \in Shown(drawn) BY <3>0, ShownIn
    <3> QED BY <3>1 DEF NewPage, Pages
  <2>2. page \in [DOMAIN page -> Pages(drawn)] BY DEF Types, PageTypes
  <2>3. page' \in [DOMAIN page \cup {s} -> Pages(drawn)] BY <1>1, <2>1, <2>2 DEF Put
  <2>4. DOMAIN page' = DOMAIN page \cup {s} BY <2>3
  <2> QED BY <1>1, <1>5, <2>3, <2>4 DEF Types, PageTypes
<1> QED BY <1>3, <1>7, <1>8, <1>9 DEF Types

LEMMA CountNat == ASSUME NEW rs, NEW m PROVE Count(rs, m) \in Nat
<1>1. IsFiniteSet({i \in Person : <<m, i>> \in DOMAIN rs /\ ~rs[<<m, i>>]})
  BY FiniteAssumption, FS_Subset
<1> QED BY <1>1, FS_CardinalityType DEF Count

LEMMA HistoryEffect ==
  ASSUME Types, NEW s \in Socket, History(s)
  PROVE  /\ HistoryMove(s) /\ Types' /\ st[s] \in {"open", "closing"}
         /\ s \notin DOMAIN page => UNCHANGED <<page, inbox>>
         /\ s \in DOMAIN page => \E q \in Pages(drawn) : \E b :
              /\ page' = [page EXCEPT ![s] = q] /\ inbox' = [inbox EXCEPT ![s] = b]
              /\ q.shown = [m \in Alive |-> FromServer(s, msgs[m].by, msgs[m].text, Summary(m))]
              /\ q.members = page[s].members /\ q.signs = page[s].signs
              /\ Reported(drawn, s, inbox[s], b)
<1> DEFINE i == Who[s]
<1> DEFINE sh == [m \in Alive |-> FromServer(s, msgs[m].by, msgs[m].text, Summary(m))]
<1> DEFINE p == [page[s] EXCEPT !.shown = sh, !.seen = {}]
<1>0. HandTypes /\ drawn \in Nat /\ drawn' = drawn /\ st' = st /\ chan' = chan /\ left' = left /\ mix' = mix
      /\ UNCHANGED <<rows, hash, uploads>>
  BY DEF Types, HandTypes, History
<1>1. /\ Busy(s) /\ HandIn(drawn, s, hand[s]) /\ hand[s] # <<>> /\ Head(hand[s]).await = "history"
      /\ Todo(s) = hand[s] /\ Rest(s) = inbox[s]
  BY <1>0, AtHand DEF History
<1>2. hand[s] = Joining1(i) BY <1>0, <1>1, Fronts
<1>3. Tail(Todo(s)) = Joining2(i) BY <1>1, <1>2, JoiningHands
<1>4. HandIn(drawn, s, Joining2(i)) BY Hand1
<1>5. HistoryMove(s) BY <1>2, <1>3, <1>4, GoNone DEF History, HistoryMove
<1>6. ~Departing(Joining1(i)) /\ ~Departing(Joining2(i)) BY WhoTyped, Departure
<1>7. Fine(drawn, s, st[s], Joining2(i), inbox[s]) /\ st[s] \in {"open", "closing"}
  BY <1>1, <1>2, <1>4, <1>6, NextAwait DEF Busy
<1>8. RowTypes' BY <1>0, RowsSame DEF Types, RowTypes
<1>9. ChanTypes' BY <1>0, ChanSame DEF Types
<1>10. sh \in Shown(drawn)
  <2>1. \A m \in Alive : msgs[m].by \in Person /\ msgs[m].text \in Int /\ m \in 1..drawn
    BY <1>0, CutTexts DEF Alive, Types, RowTypes, MessageType
  <2>2. \A m \in Alive : sh[m] \in Entry BY <2>1, CountNat, ServerEntry DEF Summary
  <2>3. DOMAIN sh = Alive OBVIOUS
  <2> HIDE DEF sh
  <2>4. sh = [m \in DOMAIN sh |-> sh[m]] BY DEF sh
  <2> QED BY <2>1, <2>2, <2>3, <2>4, ShownIn
<1>11. CASE s \notin DOMAIN page
  <2>1. UNCHANGED <<page, inbox>> BY <1>11 DEF History
  <2>2. Move(s, Joining2(i), inbox[s]) BY <1>0, <1>5, <2>1 DEF HistoryMove, Move, HandTypes
  <2>3. HandTypes' BY <1>0, <1>7, <2>2, MoveTypes
  <2>4. PageTypes' BY <1>0, <2>1, PageSame DEF Types
  <2> QED BY <1>5, <1>7, <1>8, <1>9, <1>11, <2>1, <2>3, <2>4 DEF Types
<1>12. CASE s \in DOMAIN page
  <2>1. MarkRead(s, p, inbox[s]) BY <1>12 DEF History
  <2>2. st[s] = "open" /\ page[s] \in Pages(drawn) BY <1>12 DEF Types, PageTypes
  <2> HIDE DEF sh
  <2>3. /\ p \in Pages(drawn) /\ p.shown = sh /\ p.members = page[s].members /\ p.signs = page[s].signs
    BY <1>10, <2>2 DEF Pages
  <2> HIDE DEF p
  <2>4. PICK q, b : /\ q \in Pages(drawn)
                    /\ page' = [page EXCEPT ![s] = q] /\ inbox' = [inbox EXCEPT ![s] = b]
                    /\ SamePage(p, q) /\ Reported(drawn, s, inbox[s], b)
    BY <1>0, <2>1, <2>3, MarkReadEffect
  <2>5. Fine(drawn, s, st[s], Joining2(i), b) BY <1>7, <2>2, <2>4, ReportedFine
  <2>6. HandTypes'
    <3>1. Move(s, Joining2(i), b) BY <1>5, <2>4 DEF HistoryMove, Move
    <3>2. Fine(drawn', s, st[s], Joining2(i), b) /\ drawn' >= drawn BY <1>0, <2>5
    <3> QED BY <1>0, <3>1, <3>2, MoveTypes
  <2>7. PageTypes'
    <3>1. q \in Pages(drawn') /\ drawn' >= drawn BY <1>0, <2>4
    <3> QED BY <1>0, <1>12, <2>4, <3>1, PageChange DEF Types
  <2>8. q.shown = sh /\ q.members = page[s].members /\ q.signs = page[s].signs
    BY <2>3, <2>4 DEF SamePage
  <2> QED BY <1>5, <1>7, <1>8, <1>9, <1>12, <2>4, <2>6, <2>7, <2>8 DEF Types, sh
<1> QED BY <1>11, <1>12

LEMMA TypesJoin ==
  ASSUME Types, NEW s \in Socket, Join(s)
  PROVE  JoinMove(s) /\ st[s] \in {"open", "closing"} /\ Types'
<1>1. HandTypes BY DEF Types
<1>2. JoinMove(s) /\ HandTypes' BY <1>1, JoinEffect
<1>3. st[s] \in {"open", "closing"} BY <1>1, AtHand DEF Join, Busy
<1>4. /\ drawn' = drawn /\ st' = st /\ hash' = hash \cup {Who[s]} /\ mix' = mix /\ left' = left
      /\ UNCHANGED <<msgs, reacts, receipts, plays, uploads, chan, page>>
  BY DEF Join, rows
<1>5. RowTypes' BY <1>4, WhoTyped DEF Types, RowTypes, PerReader, MessageType
<1>6. ChanTypes' /\ PageTypes' BY <1>4 DEF Types, ChanTypes, PageTypes
<1> QED BY <1>2, <1>3, <1>5, <1>6 DEF Types

LEMMA TypesLeave ==
  ASSUME Types, NEW s \in Socket, Leave(s)
  PROVE  LeaveMove(s) /\ st[s] = "closing" /\ Types'
<1>1. HandTypes BY DEF Types
<1>2. LeaveMove(s) /\ st[s] = "closing" /\ HandTypes' BY <1>1, LeaveEffect
<1>4. /\ drawn' = drawn /\ st' = st /\ hash' = hash \ {Who[s]} /\ mix' = mix /\ left' = left
      /\ UNCHANGED <<msgs, reacts, receipts, plays, uploads, chan, page>>
  BY DEF Leave, rows
<1>5. RowTypes' BY <1>4, WhoTyped DEF Types, RowTypes, PerReader, MessageType
<1>6. ChanTypes' /\ PageTypes' BY <1>4 DEF Types, ChanTypes, PageTypes
<1> QED BY <1>2, <1>5, <1>6 DEF Types

LEMMA TypesSnapshot ==
  ASSUME Types, NEW s \in Socket, Snapshot(s)
  PROVE  SnapshotMove(s) /\ st[s] \in {"open", "closing"} /\ Types'
<1>1. HandTypes /\ drawn \in Nat BY DEF Types, HandTypes
<1>2. SnapshotMove(s) /\ HandTypes' BY <1>1, SnapshotEffect
<1>3. st[s] \in {"open", "closing"} BY <1>1, AtHand DEF Snapshot, Busy
<1>4. /\ drawn' = drawn /\ st' = st /\ mix' = mix /\ left' = left /\ drawn' >= drawn
      /\ UNCHANGED <<rows, hash, uploads, chan>>
  BY <1>1 DEF Snapshot
<1>5. RowTypes' BY <1>1, <1>4, RowsSame DEF Types, RowTypes
<1>6. ChanTypes' BY <1>1, <1>4, ChanSame DEF Types
<1>7. CASE s \in DOMAIN page
  <2> DEFINE q == [page[s] EXCEPT !.members = hash \cup {Who[s]}]
  <2>1. page[s] \in Pages(drawn') /\ hash \cup {Who[s]} \in SUBSET Person
    BY <1>4, <1>7, WhoTyped DEF Types, PageTypes, RowTypes
  <2>2. q \in Pages(drawn') BY <2>1 DEF Pages
  <2>3. page' = [page EXCEPT ![s] = q] BY <1>7 DEF Snapshot
  <2> HIDE DEF q
  <2>4. PageTypes' BY <1>1, <1>4, <1>7, <2>2, <2>3, PageChange DEF Types
  <2> QED BY <1>2, <1>3, <1>5, <1>6, <2>4 DEF Types
<1>8. CASE s \notin DOMAIN page
  <2>1. page' = page BY <1>8 DEF Snapshot
  <2>2. PageTypes' BY <1>1, <1>4, <2>1, PageSame DEF Types
  <2> QED BY <1>2, <1>3, <1>5, <1>6, <2>2 DEF Types
<1> QED BY <1>7, <1>8

LEMMA TypesDiscard ==
  ASSUME Types, NEW s \in Socket, Discard(s)
  PROVE  DiscardMove(s) /\ st[s] = "closing" /\ Types'
<1> DEFINE i == Who[s]
<1>0. HandTypes /\ drawn \in Nat BY DEF Types, HandTypes
<1>1. /\ Busy(s) /\ HandIn(drawn, s, hand[s]) /\ hand[s] # <<>> /\ Head(hand[s]).await = "discard"
      /\ Todo(s) = hand[s] /\ Rest(s) = inbox[s]
  BY <1>0, AtHand DEF Discard
<1>2. hand[s] = Leaving5(i) BY <1>0, <1>1, Fronts
<1>3. Tail(Todo(s)) = <<>> BY <1>1, <1>2, LeavingHands
<1>4. HandIn(drawn, s, <<>>) BY Hand1
<1>5. Move(s, <<>>, inbox[s])
  BY <1>1, <1>3, <1>4, GoNone DEF Discard, Took, Move
<1>6. Departing(Leaving5(i)) BY WhoTyped, Departure
<1>7. st[s] = "closing" /\ inbox[s] = <<>> BY <1>1, <1>2, <1>6 DEF Busy, Fine
<1>8. Fine(drawn, s, "gone", <<>>, <<>>) BY <1>4 DEF Fine, Box, States
<1>9. /\ drawn' = drawn /\ st' = [st EXCEPT ![s] = "gone"] /\ mix' = mix /\ left' = left
      /\ UNCHANGED <<rows, hash, uploads, page>> /\ chan' = Restrict(chan, DOMAIN chan \ {s})
  BY DEF Discard
<1>10. RowTypes' BY <1>0, <1>9, RowsSame DEF Types, RowTypes
<1>11. HandTypes'
  <2>1. /\ st' \in [Socket -> States] /\ st'[s] = "gone" /\ \A v \in Socket \ {s} : st'[v] = st[v]
    BY <1>9 DEF Types, HandTypes, States
  <2>2. /\ hand' = [v \in Socket |-> hand'[v]] /\ hand'[s] = <<>> /\ \A v \in Socket \ {s} : hand'[v] = hand[v]
        /\ inbox' = [v \in Socket |-> inbox'[v]] /\ inbox'[s] = <<>> /\ \A v \in Socket \ {s} : inbox'[v] = inbox[v]
    BY <1>5, <1>7 DEF Types, HandTypes, Move
  <2> QED BY <1>0, <1>8, <1>9, <2>1, <2>2 DEF HandTypes
<1>12. st' \in [Socket -> States] /\ st'[s] = "gone" /\ \A v \in Socket \ {s} : st'[v] = st[v]
  BY <1>9 DEF Types, HandTypes, States
<1>13. DOMAIN chan' = DOMAIN chan \ {s} /\ chan' = [v \in DOMAIN chan' |-> chan'[v]] /\ \A v \in DOMAIN chan' : chan'[v] = chan[v]
  BY <1>9 DEF Restrict
<1>14. DOMAIN chan' = {v \in Socket : st'[v] \in {"open", "closing"}}
  BY <1>12, <1>13 DEF Types, ChanTypes
<1>15. ChanTypes' BY <1>9, <1>13, <1>14 DEF Types, ChanTypes
<1>16. DOMAIN page' = {v \in Socket : st'[v] = "open"}
  BY <1>7, <1>9, <1>12 DEF Types, PageTypes
<1>17. PageTypes' BY <1>9, <1>16 DEF Types, PageTypes
<1> QED BY <1>2, <1>5, <1>7, <1>10, <1>11, <1>15, <1>17 DEF Types, DiscardMove

LEMMA TypesBroadcast ==
  ASSUME Types, NEW s \in Socket, Broadcast(s)
  PROVE  /\ \E h, b : CastCase(s, Arg(s), h, b) /\ Move(s, h, b)
         /\ EventIn(drawn, Arg(s)) /\ Arg(s).who = Who[s] /\ st[s] \in {"open", "closing"} /\ Types'
<1>1. HandTypes /\ drawn \in Nat BY DEF Types, HandTypes
<1>2. /\ \E h, b : CastCase(s, Arg(s), h, b) /\ Move(s, h, b)
      /\ EventIn(drawn, Arg(s)) /\ Arg(s).who = Who[s] /\ st[s] \in {"open", "closing"} /\ HandTypes'
  BY <1>1, CastEffect
<1>3. /\ drawn' = drawn /\ st' = st /\ mix' = mix /\ left' = left /\ drawn' >= drawn
      /\ UNCHANGED <<rows, hash, uploads, page>> /\ chan' = Everyone(Arg(s))
  BY <1>1 DEF Broadcast
<1>4. RowTypes' BY <1>1, <1>3, RowsSame DEF Types, RowTypes
<1>5. ChanTypes' BY <1>2, <1>3, ChanCast DEF Types
<1>6. PageTypes' BY <1>1, <1>3, PageSame DEF Types
<1> QED BY <1>2, <1>4, <1>5, <1>6 DEF Types

(* An event reaches its page.                                              *)
LEMMA FanoutEffect ==
  ASSUME Types, NEW s \in Socket, Fanout(s)
  PROVE  /\ s \in DOMAIN chan /\ chan[s] # <<>> /\ EventIn(drawn, Head(chan[s])) /\ hand[s] = <<>>
         /\ chan' = [chan EXCEPT ![s] = Tail(chan[s])] /\ Types'
         /\ s \notin DOMAIN page => UNCHANGED <<page, inbox>>
         /\ s \in DOMAIN page => \E q \in Pages(drawn) : \E b :
              /\ page' = [page EXCEPT ![s] = q] /\ inbox' = [inbox EXCEPT ![s] = b]
              /\ q.shown = OnEvent(s, page[s], Head(chan[s])).shown
              /\ q.members = OnEvent(s, page[s], Head(chan[s])).members
              /\ q.signs = OnEvent(s, page[s], Head(chan[s])).signs
              /\ Reported(drawn, s, inbox[s], b)
<1> DEFINE ev == Head(chan[s])  p == OnEvent(s, page[s], ev)
<1>1. /\ s \in DOMAIN chan /\ chan[s] # <<>> /\ drawn' = drawn /\ st' = st /\ mix' = mix /\ left' = left /\ hand' = hand
      /\ UNCHANGED <<rows, hash, uploads>> /\ hand[s] = <<>> /\ chan' = [chan EXCEPT ![s] = Tail(chan[s])]
  BY DEF Fanout
<1>2. HandTypes /\ drawn \in Nat /\ drawn' \in Nat /\ drawn' >= drawn BY <1>1 DEF Types, HandTypes
<1>3. Queue(drawn, Tail(chan[s])) /\ EventIn(drawn, ev) BY <1>1, QueueTail DEF Types, ChanTypes
<1>4. RowTypes' BY <1>1, <1>2, RowsSame DEF Types, RowTypes
<1>5. ChanTypes'
  <2>1. /\ DOMAIN chan' = DOMAIN chan /\ chan'[s] = Tail(chan[s]) /\ \A v \in DOMAIN chan \ {s} : chan'[v] = chan[v]
        /\ chan' = [v \in DOMAIN chan' |-> chan'[v]]
    BY <1>1 DEF Types, ChanTypes
  <2> QED BY <1>1, <1>3, <2>1 DEF Types, ChanTypes
<1>6. CASE s \notin DOMAIN page
  <2>1. UNCHANGED <<page, inbox>> BY <1>6 DEF Fanout
  <2>2. HandTypes' BY <1>1, <1>2, <2>1 DEF HandTypes
  <2>3. PageTypes' BY <1>1, <1>2, <2>1, PageSame DEF Types
  <2> QED BY <1>1, <1>3, <1>4, <1>5, <1>6, <2>1, <2>2, <2>3 DEF Types
<1>7. CASE s \in DOMAIN page
  <2>1. st[s] = "open" /\ page[s] \in Pages(drawn) BY <1>7 DEF Types, PageTypes
  <2>2. p \in Pages(drawn) BY <1>2, <1>3, <2>1, OnEvents
  <2>3. Fine(drawn, s, "open", hand[s], inbox[s]) BY <1>2, <2>1 DEF HandTypes
  <2> HIDE DEF p
  <2>4. \E q \in Pages(drawn) : \E b : /\ page' = [page EXCEPT ![s] = q] /\ inbox' = [inbox EXCEPT ![s] = b]
                                   /\ SamePage(p, q) /\ Reported(drawn, s, inbox[s], b)
    <3>1. CASE ev.type = "message"
      <4>1. MarkRead(s, p, inbox[s]) BY <1>7, <3>1 DEF Fanout, p
      <4> QED BY <1>2, <2>2, <4>1, MarkReadEffect
    <3>2. CASE ev.type # "message"
      <4>1. page' = [page EXCEPT ![s] = p] /\ inbox' = inbox BY <1>7, <3>2 DEF Fanout, Tell, p
      <4>2. inbox' = [inbox EXCEPT ![s] = inbox[s]] BY <1>2, <4>1 DEF HandTypes
      <4>3. SamePage(p, p) /\ Reported(drawn, s, inbox[s], inbox[s]) BY DEF SamePage, Reported
      <4> QED BY <2>2, <4>1, <4>2, <4>3
    <3> QED BY <3>1, <3>2
  <2>5. PICK q, b : /\ q \in Pages(drawn)
                    /\ page' = [page EXCEPT ![s] = q] /\ inbox' = [inbox EXCEPT ![s] = b]
                    /\ SamePage(p, q) /\ Reported(drawn, s, inbox[s], b)
    BY <2>4
  <2>6. Fine(drawn', s, st[s], hand[s], b) BY <1>1, <2>1, <2>3, <2>5, ReportedFine
  <2>7. HandTypes' BY <1>1, <1>2, <2>5, <2>6, SayTypes
  <2>8. q \in Pages(drawn') BY <1>1, <2>5
  <2>9. PageTypes' BY <1>1, <1>2, <1>7, <2>5, <2>8, PageChange DEF Types
  <2>10. q.shown = p.shown /\ q.members = p.members /\ q.signs = p.signs BY <2>5 DEF SamePage
  <2> QED BY <1>1, <1>3, <1>4, <1>5, <1>7, <2>5, <2>7, <2>9, <2>10 DEF Types, p
<1> QED BY <1>6, <1>7

LEMMA TypesAllow ==
  ASSUME Types, NEW s \in Socket, Allow(s)
  PROVE  /\ TellMove(s, Kinds, Arg(s)) /\ Own(drawn, s, Arg(s)) /\ st[s] \in {"open", "closing"} /\ Types'
<1> DEFINE f == Arg(s)
<1>1. HandTypes /\ drawn \in Nat BY DEF Types, HandTypes
<1>2. /\ drawn' = drawn /\ st' = st /\ mix' = mix /\ left' = left /\ drawn' >= drawn /\ At(s, "allow")
      /\ UNCHANGED <<rows, hash, uploads, page, chan>> /\ Took(s) /\ (Go(s, <<>>) \/ Go(s, <<Cast(f)>>))
  BY <1>1 DEF Allow
<1>3. Busy(s) /\ Begins(s, f) BY <1>1, <1>2, AtFrame
<1>4. Own(drawn, s, f) /\ st[s] \in {"open", "closing"} BY <1>3 DEF Begins, FrameIn, Busy
<1>5. TellMove(s, Kinds, f) /\ HandTypes' BY <1>1, <1>2, <1>4, TellEffect
<1>6. RowTypes' BY <1>1, <1>2, RowsSame DEF Types, RowTypes
<1>7. ChanTypes' /\ PageTypes' BY <1>1, <1>2, ChanSame, PageSame DEF Types
<1> QED BY <1>4, <1>5, <1>6, <1>7 DEF Types

LEMMA TypesCreate ==
  ASSUME Types, NEW s \in Socket, CreateMessage(s)
  PROVE  /\ CreateMove(s, Arg(s)) /\ Own(drawn, s, Arg(s)) /\ st[s] \in {"open", "closing"} /\ Types'
         /\ DOMAIN msgs' = DOMAIN msgs \cup {Arg(s).m}
         /\ msgs'[Arg(s).m] = [by |-> Who[s], text |-> Cut(Arg(s).val), deleted |-> FALSE, voice |-> FALSE]
         /\ \A m \in DOMAIN msgs \ {Arg(s).m} : msgs'[m] = msgs[m]
<1> DEFINE f == Arg(s)  row == [by |-> Who[s], text |-> Cut(f.val), deleted |-> FALSE, voice |-> FALSE]
<1>1. HandTypes /\ drawn \in Nat BY DEF Types, HandTypes
<1>2. CreateMove(s, f) /\ HandTypes' BY <1>1, CreateEffect
<1>3. Own(drawn, s, f) /\ f.type = "message" BY <1>2 DEF CreateMove, Begins, FrameIn
<1>4. st[s] \in {"open", "closing"} BY <1>1, AtFrame DEF CreateMessage, Busy
<1>5. /\ drawn' = drawn /\ st' = st /\ mix' = mix /\ left' = left /\ drawn' >= drawn
      /\ UNCHANGED <<reacts, receipts, plays, hash, uploads, page, chan>>
      /\ msgs' = Put(msgs, f.m, row)
  BY <1>1, <1>3 DEF CreateMessage, Own
<1>6. f.m \in 1..drawn /\ Cut(f.val) \in RowTexts(drawn) BY <1>1, <1>3, CutTexts DEF Own, Drawn
<1>7. row \in MessageType BY <1>6, WhoTyped DEF MessageType
<1>8. msgs \in [DOMAIN msgs -> MessageType] BY DEF Types, RowTypes
<1> HIDE DEF row, f
<1>9. /\ msgs' \in [DOMAIN msgs \cup {f.m} -> MessageType] /\ DOMAIN msgs' = DOMAIN msgs \cup {f.m}
      /\ msgs'[f.m] = row /\ \A m \in DOMAIN msgs \ {f.m} : msgs'[m] = msgs[m]
  BY <1>5, <1>7, <1>8 DEF Put
<1>10. MessageType' = MessageType BY <1>5 DEF MessageType
<1>11. RowTypes' BY <1>5, <1>6, <1>9, <1>10 DEF Types, RowTypes, PerReader
<1>12. ChanTypes' /\ PageTypes' BY <1>1, <1>5, ChanSame, PageSame DEF Types
<1> QED BY <1>2, <1>3, <1>4, <1>9, <1>11, <1>12 DEF Types, row, f

LEMMA TypesStatus ==
  ASSUME Types, NEW s \in Socket, Status(s)
  PROVE  /\ StatusMove(s, Arg(s)) /\ Types'
         /\ s \notin DOMAIN page => page' = page
         /\ s \in DOMAIN page => \E q \in Pages(drawn), new \in {"delivered", "sent"} :
              /\ page' = [page EXCEPT ![s] = q] /\ DOMAIN q.shown = DOMAIN page[s].shown
              /\ q.members = page[s].members /\ q.signs = page[s].signs
              /\ \A m \in DOMAIN q.shown :
                   q.shown[m] = IF m = Arg(s).m /\ page[s].shown[m].tick # "read"
                                THEN [page[s].shown[m] EXCEPT !.tick = new] ELSE page[s].shown[m]
<1> DEFINE f == Arg(s)  new == IF hash \ {Who[s]} # {} THEN "delivered" ELSE "sent"  ev == [f EXCEPT !.type = new]
<1>1. HandTypes /\ drawn \in Nat BY DEF Types, HandTypes
<1>2. StatusMove(s, f) /\ HandTypes' BY <1>1, StatusEffect
<1>3. /\ drawn' = drawn /\ st' = st /\ mix' = mix /\ left' = left /\ drawn' >= drawn
      /\ UNCHANGED <<rows, hash, uploads, chan>>
  BY <1>1 DEF Status
<1>4. RowTypes' BY <1>1, <1>3, RowsSame DEF Types, RowTypes
<1>5. ChanTypes' BY <1>1, <1>3, ChanSame DEF Types
<1>6. CASE s \notin DOMAIN page
  <2>1. page' = page BY <1>6 DEF Status
  <2>2. PageTypes' BY <1>1, <1>3, <2>1, PageSame DEF Types
  <2> QED BY <1>2, <1>4, <1>5, <1>6, <2>1, <2>2 DEF Types
<1>7. CASE s \in DOMAIN page
  <2> DEFINE p == page[s]  e == [p.shown[f.m] EXCEPT !.tick = IF @ = "read" THEN @ ELSE new]
  <2>1. p \in Pages(drawn) /\ new \in {"delivered", "sent"} BY <1>7 DEF Types, PageTypes
  <2>2. ev.m = f.m /\ ev.type = new BY <1>2 DEF StatusMove, Own, Event
  <2>3. HandleStatus(p, ev) = Patch(p, f.m, e) BY <2>2 DEF HandleStatus
  <2>4. page' = [page EXCEPT ![s] = Patch(p, f.m, e)] BY <1>7, <2>3 DEF Status
  <2>5. ASSUME f.m \in DOMAIN p.shown
        PROVE  e \in Entry /\ e = IF p.shown[f.m].tick # "read" THEN [p.shown[f.m] EXCEPT !.tick = new] ELSE p.shown[f.m]
    <3>1. p.shown[f.m] \in Entry BY <2>1, <2>5, PageGet, EntryGet
    <3>2. new \in Ticks BY <2>1 DEF Ticks
    <3> HIDE DEF new
    <3> QED BY <3>1, <3>2 DEF Entry
  <2> DEFINE q == Patch(p, f.m, e)
  <2> HIDE DEF e, p, f, new
  <2>6. /\ q \in Pages(drawn) /\ DOMAIN q.shown = DOMAIN p.shown
        /\ \A x \in DOMAIN p.shown : q.shown[x] = IF x = f.m THEN e ELSE p.shown[x]
        /\ q.members = p.members /\ q.signs = p.signs
    BY <1>1, <2>1, <2>5, Patched
  <2>7. \A m \in DOMAIN q.shown : q.shown[m] = IF m = f.m /\ p.shown[m].tick # "read"
                                THEN [p.shown[m] EXCEPT !.tick = new] ELSE p.shown[m]
    BY <2>5, <2>6
  <2> HIDE DEF q
  <2>8. page' = [page EXCEPT ![s] = q] BY <2>4 DEF q
  <2>9. q \in Pages(drawn') BY <1>3, <2>6
  <2>10. PageTypes' BY <1>1, <1>3, <1>7, <2>8, <2>9, PageChange DEF Types
  <2>11. Types' BY <1>2, <1>4, <1>5, <2>10 DEF Types
  <2> QED BY <1>2, <1>7, <2>1, <2>6, <2>7, <2>8, <2>11 DEF p, f
<1> QED BY <1>6, <1>7

(* The receipts announced: messages of others, not deleted.                *)
ReadIds(s) == {m \in Arg(s).ids \cap Alive : msgs[m].by # Who[s]}
ReadEvent(s) == [Arg(s) EXCEPT !.ids = ReadIds(s)]

LEMMA TypesRead ==
  ASSUME Types, NEW s \in Socket, ReadMessages(s)
  PROVE  /\ TellMove(s, {"read"}, ReadEvent(s)) /\ Own(drawn, s, Arg(s)) /\ Own(drawn, s, ReadEvent(s))
         /\ ReadEvent(s).ids = ReadIds(s) /\ ReadEvent(s).type = "read" /\ ReadEvent(s).who = Who[s]
         /\ receipts' = receipts \cup (ReadIds(s) \X {Who[s]}) /\ Types'
<1> DEFINE f == Arg(s)  ids == ReadIds(s)  g == ReadEvent(s)
<1>1. HandTypes /\ drawn \in Nat BY DEF Types, HandTypes
<1>2. /\ drawn' = drawn /\ st' = st /\ mix' = mix /\ left' = left /\ drawn' >= drawn /\ At(s, "read")
      /\ UNCHANGED <<msgs, reacts, plays, hash, uploads, page, chan>> /\ Took(s)
      /\ Go(s, <<>>) \/ Go(s, <<Cast(g)>>)
      /\ receipts' = receipts \cup (ids \X {Who[s]})
  BY <1>1 DEF ReadMessages, ReadIds, ReadEvent
<1>3. Busy(s) /\ Begins(s, f) /\ f.type = "read" BY <1>1, <1>2, AtFrame DEF Named
<1>4. Own(drawn, s, f) BY <1>3 DEF Begins, FrameIn
<1>5. ids \subseteq DOMAIN msgs /\ ids \subseteq Nat BY DEF ReadIds, Alive, Types, RowTypes
<1> HIDE DEF ids, f
<1>6. g = [f EXCEPT !.ids = ids] BY DEF ReadEvent, ids, f
<1>7. g \in Event /\ g.type = "read" /\ g.who = Who[s] /\ g.ids = ids
  BY <1>3, <1>4, <1>5, <1>6 DEF Event, Own
<1> HIDE DEF g
<1>8. Own(drawn, s, g) BY <1>7 DEF Own, Drawn
<1>9. g.type = Arg(s).type BY <1>3, <1>7 DEF f
<1>10. TellMove(s, {"read"}, g) /\ HandTypes'
  BY <1>1, <1>2, <1>8, <1>9, TellEffect DEF Named
<1>11. receipts' \subseteq PerReader
  BY <1>2, <1>5, WhoTyped DEF Types, RowTypes, PerReader
<1>12. RowTypes' BY <1>2, <1>11 DEF Types, RowTypes, PerReader, MessageType
<1>13. ChanTypes' /\ PageTypes' BY <1>1, <1>2, ChanSame, PageSame DEF Types
<1> QED BY <1>2, <1>4, <1>7, <1>8, <1>10, <1>12, <1>13 DEF Types, f, g, ids

(* A voice message is played for the first time.                           *)
NewPlay(s) ==
  LET m == Arg(s).m IN m \in Alive /\ msgs[m].voice /\ msgs[m].by # Who[s] /\ <<m, Who[s]>> \notin plays

LEMMA TypesPlay ==
  ASSUME Types, NEW s \in Socket, PlayMessage(s)
  PROVE  /\ TellMove(s, {"played"}, Arg(s)) /\ Own(drawn, s, Arg(s)) /\ Types'
         /\ plays' = plays \cup (IF NewPlay(s) THEN {<<Arg(s).m, Who[s]>>} ELSE {})
         /\ ~NewPlay(s) => Move(s, <<>>, Tail(inbox[s]))
<1> DEFINE f == Arg(s)
<1>1. HandTypes /\ drawn \in Nat BY DEF Types, HandTypes
<1>2. /\ drawn' = drawn /\ st' = st /\ mix' = mix /\ left' = left /\ drawn' >= drawn /\ At(s, "played")
      /\ UNCHANGED <<msgs, reacts, receipts, hash, uploads, page, chan>> /\ Took(s)
      /\ Go(s, IF NewPlay(s) THEN <<Cast(f)>> ELSE <<>>)
      /\ plays' = plays \cup (IF NewPlay(s) THEN {<<f.m, Who[s]>>} ELSE {})
  BY <1>1 DEF PlayMessage, NewPlay
<1>3. Busy(s) /\ Begins(s, f) BY <1>1, <1>2, AtFrame DEF Named
<1>4. Own(drawn, s, f) BY <1>3 DEF Begins, FrameIn
<1>5. Go(s, <<>>) \/ Go(s, <<Cast(f)>>) BY <1>2
<1>6. TellMove(s, {"played"}, f) /\ HandTypes' /\ (Go(s, <<>>) => Move(s, <<>>, Tail(inbox[s])))
  BY <1>1, <1>2, <1>4, <1>5, TellEffect DEF Named
<1>7. plays' \subseteq PerReader
  BY <1>2, WhoTyped DEF Types, RowTypes, PerReader, NewPlay, Alive
<1>8. RowTypes' BY <1>2, <1>7 DEF Types, RowTypes, PerReader, MessageType
<1>9. ChanTypes' /\ PageTypes' BY <1>1, <1>2, ChanSame, PageSame DEF Types
<1> QED BY <1>2, <1>4, <1>6, <1>8, <1>9 DEF Types

Crashed(S) ==
  /\ \A v \in S : st'[v] = "crashed" /\ hand'[v] = <<>> /\ inbox'[v] = <<>>
  /\ \A v \in Socket \ S : st'[v] = st[v] /\ hand'[v] = hand[v] /\ inbox'[v] = inbox[v]
  /\ DOMAIN chan' = DOMAIN chan \ S /\ \A v \in DOMAIN chan' : chan'[v] = chan[v]
  /\ DOMAIN page' = DOMAIN page \ S /\ \A v \in DOMAIN page' : page'[v] = page[v]

LEMMA CrashParts ==
  ASSUME NEW S \in SUBSET Socket, Crash(S)
  PROVE  Crashed(S)
<1>1. /\ \A v \in S : st'[v] = "crashed" /\ hand'[v] = <<>> /\ inbox'[v] = <<>>
      /\ \A v \in Socket \ S : st'[v] = st[v] /\ hand'[v] = hand[v] /\ inbox'[v] = inbox[v]
  BY DEF Crash
<1>2. /\ DOMAIN chan' = DOMAIN chan \ S /\ \A v \in DOMAIN chan' : chan'[v] = chan[v]
      /\ DOMAIN page' = DOMAIN page \ S /\ \A v \in DOMAIN page' : page'[v] = page[v]
  BY DEF Crash, Restrict
<1> QED BY <1>1, <1>2 DEF Crashed

LEMMA CrashTypes ==
  ASSUME HandTypes, ChanTypes, PageTypes, NEW S \in SUBSET Socket, Crash(S), drawn' = drawn
  PROVE  HandTypes' /\ ChanTypes' /\ PageTypes'
<1>1. /\ \A v \in S : st'[v] = "crashed" /\ hand'[v] = <<>> /\ inbox'[v] = <<>>
      /\ \A v \in Socket \ S : st'[v] = st[v] /\ hand'[v] = hand[v] /\ inbox'[v] = inbox[v]
  BY CrashParts DEF Crashed
<1>2. /\ DOMAIN chan' = DOMAIN chan \ S /\ \A v \in DOMAIN chan' : chan'[v] = chan[v]
      /\ chan' = [v \in DOMAIN chan' |-> chan'[v]]
  BY DEF Crash, Restrict
<1>3. DOMAIN page' = DOMAIN page \ S /\ page' = [v \in DOMAIN page \ S |-> page[v]]
  BY DEF Crash, Restrict
<1>4. HandTypes'
  <2>1. st' \in [Socket -> States]
    <3>1. \A v \in Socket : st'[v] \in States BY <1>1 DEF HandTypes, States
    <3>2. st' = [v \in Socket |-> st'[v]] BY DEF Crash
    <3> QED BY <3>1, <3>2
  <2>2. hand' = [v \in Socket |-> hand'[v]] /\ inbox' = [v \in Socket |-> inbox'[v]] BY DEF Crash
  <2>3. \A v \in Socket : Fine(drawn, v, "crashed", <<>>, <<>>) BY Hand1 DEF Fine, Box, States
  <2>4. \A v \in Socket : Fine(drawn, v, st'[v], hand'[v], inbox'[v]) BY <1>1, <2>3 DEF HandTypes
  <2> QED BY <2>1, <2>2, <2>4 DEF HandTypes
<1>5. ChanTypes'
  <2>1. DOMAIN chan' = {v \in Socket : st'[v] \in {"open", "closing"}} BY <1>1, <1>2 DEF ChanTypes
  <2> QED BY <1>2, <2>1 DEF ChanTypes
<1>6. PageTypes'
  <2>1. DOMAIN page' = {v \in Socket : st'[v] = "open"} BY <1>1, <1>3 DEF PageTypes
  <2>2. page' \in [DOMAIN page' -> Pages(drawn)] BY <1>3 DEF PageTypes
  <2> QED BY <2>1, <2>2 DEF PageTypes
<1> QED BY <1>4, <1>5, <1>6

(* A reaction is written and announced, or refused, or kills its consumer. *)
ReactKey(s) == <<Arg(s).m, Who[s]>>
Tombstone(s) == Arg(s).m \in Alive /\ ReactKey(s) \in DOMAIN reacts /\ reacts[ReactKey(s)]
Reacted(s) == Put(reacts, ReactKey(s), ReactKey(s) \in DOMAIN reacts)
ReactEvent(s) == [Arg(s) EXCEPT !.val = Count(Reacted(s), Arg(s).m)]

LEMMA TypesToggle ==
  ASSUME Types, NEW s \in Socket, Toggle(s)
  PROVE  /\ Begins(s, Arg(s)) /\ Own(drawn, s, Arg(s)) /\ Arg(s).type = "reaction" /\ Types'
         /\ Tombstone(s) => Crash({s}) /\ UNCHANGED <<reacts, raced>>
         /\ ~Tombstone(s) => UNCHANGED <<st, chan, page>>
         /\ Arg(s).m \in Alive /\ ~Tombstone(s) =>
              /\ reacts' = Reacted(s) /\ Races(s, Arg(s).m)
              /\ Own(drawn, s, ReactEvent(s)) /\ ReactEvent(s).type = "reaction"
              /\ ReactEvent(s).m = Arg(s).m /\ ReactEvent(s).val = Count(Reacted(s), Arg(s).m)
              /\ Move(s, Tells(ReactEvent(s)), Tail(inbox[s]))
         /\ Arg(s).m \notin Alive => UNCHANGED <<reacts, raced>> /\ Move(s, <<>>, Tail(inbox[s]))
<1> DEFINE f == Arg(s)  g == ReactEvent(s)
<1>1. HandTypes /\ ChanTypes /\ PageTypes /\ drawn \in Nat BY DEF Types, HandTypes
<1>2. /\ drawn' = drawn /\ mix' = mix /\ left' = left /\ drawn' >= drawn /\ At(s, "reaction")
      /\ UNCHANGED <<msgs, receipts, plays, hash, uploads>>
  BY <1>1 DEF Toggle
<1>3. Busy(s) /\ Begins(s, f) /\ f.type = "reaction" BY <1>1, <1>2, AtFrame DEF Named
<1>4. Own(drawn, s, f) BY <1>3 DEF Begins, FrameIn
<1>5. CASE Tombstone(s)
  <2>1. Crash({s}) /\ UNCHANGED <<reacts, raced>> BY <1>5 DEF Toggle, Tombstone, ReactKey
  <2>2. HandTypes' /\ ChanTypes' /\ PageTypes' BY <1>1, <1>2, <2>1, CrashTypes
  <2>3. RowTypes' BY <1>2, <2>1 DEF Types, RowTypes, PerReader, MessageType
  <2> QED BY <1>3, <1>4, <1>5, <2>1, <2>2, <2>3 DEF Types, Tombstone
<1>6. CASE ~Tombstone(s)
  <2>1. UNCHANGED <<st, chan, page>> /\ Took(s) BY <1>6 DEF Toggle, Tombstone, ReactKey
  <2>2. ChanTypes' /\ PageTypes' BY <1>1, <1>2, <2>1, ChanSame, PageSame
  <2>3. CASE f.m \in Alive
    <3>1. reacts' = Reacted(s) /\ Races(s, f.m) /\ Go(s, <<Cast(g)>>)
      BY <1>6, <2>3 DEF Toggle, Tombstone, Reacted, ReactKey, ReactEvent
    <3>2. Count(Reacted(s), f.m) \in Nat BY CountNat
    <3>3. g \in Event /\ g.type = "reaction" /\ g.who = Who[s] /\ g.m = f.m /\ g.val = Count(Reacted(s), f.m)
      BY <1>3, <1>4, <3>2 DEF ReactEvent, Own, Event
    <3>4. Own(drawn, s, g)
      <4> HIDE DEF g
      <4>1. g.val \in Nat BY <3>2, <3>3
      <4> QED BY <3>3, <4>1 DEF Own, Drawn
    <3>5. Move(s, Tells(g), Tail(inbox[s])) /\ HandTypes'
      BY <1>1, <1>2, <1>3, <2>1, <3>1, <3>3, <3>4, TellEffect DEF Named
    <3>6. RowTypes'
      <4>1. ReactKey(s) \in PerReader BY <2>3, WhoTyped DEF ReactKey, PerReader, Alive
      <4>2. DOMAIN reacts' = DOMAIN reacts \cup {ReactKey(s)} /\ reacts' \in [DOMAIN reacts' -> BOOLEAN]
        <5> DEFINE k == ReactKey(s)  v == (ReactKey(s) \in DOMAIN reacts)
        <5>1. v \in BOOLEAN /\ reacts \in [DOMAIN reacts -> BOOLEAN] BY DEF Types, RowTypes
        <5>2. reacts' = Put(reacts, k, v) BY <3>1 DEF Reacted
        <5> HIDE DEF k, v
        <5>3. reacts' \in [DOMAIN reacts \cup {k} -> BOOLEAN] BY <5>1, <5>2, PutTyped
        <5> QED BY <5>3 DEF k
      <4>3. DOMAIN reacts' \subseteq PerReader BY <4>1, <4>2 DEF Types, RowTypes
      <4> QED BY <1>2, <4>2, <4>3 DEF Types, RowTypes, PerReader, MessageType
    <3> QED BY <1>3, <1>4, <1>6, <2>1, <2>2, <2>3, <3>1, <3>3, <3>4, <3>5, <3>6 DEF Types
  <2>4. CASE f.m \notin Alive
    <3>1. Go(s, <<>>) /\ UNCHANGED <<reacts, raced>>
      BY <1>6, <2>4 DEF Toggle, Tombstone
    <3>2. Move(s, <<>>, Tail(inbox[s])) /\ HandTypes'
      BY <1>1, <1>2, <1>3, <1>4, <2>1, <3>1, TellEffect DEF Named
    <3>3. RowTypes' BY <1>2, <3>1 DEF Types, RowTypes, PerReader, MessageType
    <3> QED BY <1>3, <1>4, <1>6, <2>1, <2>2, <2>4, <3>1, <3>2, <3>3 DEF Types
  <2> QED BY <2>3, <2>4
<1> QED BY <1>5, <1>6

LEMMA TypesEdit ==
  ASSUME Types, NEW s \in Socket, EditMessage(s)
  PROVE  /\ Begins(s, Arg(s)) /\ Own(drawn, s, Arg(s)) /\ Arg(s).type = "edit" /\ Types'
         /\ Mine(s, Arg(s).m) => /\ msgs' = [msgs EXCEPT ![Arg(s).m].text = Cut(Arg(s).val)] /\ Races(s, Arg(s).m)
                                 /\ Move(s, Tells(Arg(s)), Tail(inbox[s]))
         /\ ~Mine(s, Arg(s).m) => UNCHANGED <<msgs, raced>> /\ Move(s, <<>>, Tail(inbox[s]))
<1> DEFINE f == Arg(s)
<1>1. HandTypes /\ ChanTypes /\ PageTypes /\ drawn \in Nat BY DEF Types, HandTypes
<1>2. /\ drawn' = drawn /\ mix' = mix /\ left' = left /\ drawn' >= drawn /\ At(s, "edit") /\ Took(s) /\ st' = st
      /\ UNCHANGED <<reacts, receipts, plays, hash, uploads, chan, page>>
  BY <1>1 DEF EditMessage
<1>3. Busy(s) /\ Begins(s, f) /\ f.type = "edit" BY <1>1, <1>2, AtFrame DEF Named
<1>4. Own(drawn, s, f) BY <1>3 DEF Begins, FrameIn
<1>5. Cut(f.val) \in RowTexts(drawn) BY <1>1, <1>3, <1>4, CutTexts DEF Own, Drawn
<1>6. ChanTypes' /\ PageTypes' BY <1>1, <1>2, ChanSame, PageSame
<1>7. CASE Mine(s, f.m)
  <2>1. msgs' = [msgs EXCEPT ![f.m].text = Cut(f.val)] /\ Races(s, f.m) /\ Go(s, <<Cast(f)>>)
    BY <1>7 DEF EditMessage
  <2>2. Move(s, Tells(f), Tail(inbox[s])) /\ HandTypes'
    BY <1>1, <1>2, <1>3, <1>4, <2>1, TellEffect DEF Named
  <2>3. msgs' \in [DOMAIN msgs -> MessageType] /\ DOMAIN msgs' = DOMAIN msgs
    BY <1>5, <2>1 DEF Types, RowTypes, MessageType
  <2>4. RowTypes' BY <1>2, <2>3 DEF Types, RowTypes, PerReader, MessageType
  <2> QED BY <1>3, <1>4, <1>6, <1>7, <2>1, <2>2, <2>4 DEF Types
<1>8. CASE ~Mine(s, f.m)
  <2>1. UNCHANGED <<msgs, raced>> /\ Go(s, <<>>) BY <1>8 DEF EditMessage
  <2>2. Move(s, <<>>, Tail(inbox[s])) /\ HandTypes'
    BY <1>1, <1>2, <1>3, <1>4, <2>1, TellEffect DEF Named
  <2>3. RowTypes' BY <1>2, <2>1 DEF Types, RowTypes, PerReader, MessageType
  <2> QED BY <1>3, <1>4, <1>6, <1>8, <2>1, <2>2, <2>3 DEF Types
<1> QED BY <1>7, <1>8

LEMMA TypesDelete ==
  ASSUME Types, NEW s \in Socket, DeleteMessage(s)
  PROVE  /\ Begins(s, Arg(s)) /\ Own(drawn, s, Arg(s)) /\ Arg(s).type = "delete" /\ Types'
         /\ Mine(s, Arg(s).m) => /\ msgs' = [msgs EXCEPT ![Arg(s).m].deleted = TRUE] /\ Races(s, Arg(s).m)
                                 /\ Move(s, Tells(Arg(s)), Tail(inbox[s]))
         /\ ~Mine(s, Arg(s).m) => UNCHANGED <<msgs, raced>> /\ Move(s, <<>>, Tail(inbox[s]))
<1> DEFINE f == Arg(s)
<1>1. HandTypes /\ ChanTypes /\ PageTypes /\ drawn \in Nat BY DEF Types, HandTypes
<1>2. /\ drawn' = drawn /\ mix' = mix /\ left' = left /\ drawn' >= drawn /\ At(s, "delete") /\ Took(s) /\ st' = st
      /\ UNCHANGED <<reacts, receipts, plays, hash, uploads, chan, page>>
  BY <1>1 DEF DeleteMessage
<1>3. Busy(s) /\ Begins(s, f) /\ f.type = "delete" BY <1>1, <1>2, AtFrame DEF Named
<1>4. Own(drawn, s, f) BY <1>3 DEF Begins, FrameIn
<1>6. ChanTypes' /\ PageTypes' BY <1>1, <1>2, ChanSame, PageSame
<1>7. CASE Mine(s, f.m)
  <2>1. msgs' = [msgs EXCEPT ![f.m].deleted = TRUE] /\ Races(s, f.m) /\ Go(s, <<Cast(f)>>)
    BY <1>7 DEF DeleteMessage
  <2>2. Move(s, Tells(f), Tail(inbox[s])) /\ HandTypes'
    BY <1>1, <1>2, <1>3, <1>4, <2>1, TellEffect DEF Named
  <2>3. msgs' \in [DOMAIN msgs -> MessageType] /\ DOMAIN msgs' = DOMAIN msgs
    BY <2>1 DEF Types, RowTypes, MessageType
  <2>4. RowTypes' BY <1>2, <2>3 DEF Types, RowTypes, PerReader, MessageType
  <2> QED BY <1>3, <1>4, <1>6, <1>7, <2>1, <2>2, <2>4 DEF Types
<1>8. CASE ~Mine(s, f.m)
  <2>1. UNCHANGED <<msgs, raced>> /\ Go(s, <<>>) BY <1>8 DEF DeleteMessage
  <2>2. Move(s, <<>>, Tail(inbox[s])) /\ HandTypes'
    BY <1>1, <1>2, <1>3, <1>4, <2>1, TellEffect DEF Named
  <2>3. RowTypes' BY <1>2, <2>1 DEF Types, RowTypes, PerReader, MessageType
  <2> QED BY <1>3, <1>4, <1>6, <1>8, <2>1, <2>2, <2>3 DEF Types
<1> QED BY <1>7, <1>8

-----------------------------------------------------------------------------
(* What users do, as what it does to their page and to its inbox.          *)
Asks(s, type, m, val) == Ev(type, Who[s], m, val)

LEMMA AskFrame ==
  ASSUME NEW n \in Nat, NEW s \in Socket, NEW type \in FrameTypes \ {"message", "edit", "disconnect"}, NEW m \in Nat
  PROVE  /\ FrameIn(n, s, Asks(s, type, m, 0)) /\ Asks(s, type, m, 0).type = type /\ Asks(s, type, m, 0).m = m
         /\ Asks(s, type, m, 0).ids = {}
BY WhoTyped DEF Asks, Ev, FrameIn, Own, Event, Drawn

LEMMA SayOne ==
  ASSUME HandTypes, PageTypes, NEW s \in DOMAIN page, drawn' \in Nat, drawn' >= drawn, NEW f, FrameIn(drawn', s, f),
         f.type # "disconnect", inbox' = [inbox EXCEPT ![s] = Append(@, f)], hand' = hand, st' = st
  PROVE  HandTypes' /\ s \in Socket /\ st[s] = "open" /\ inbox' = [inbox EXCEPT ![s] = Append(inbox[s], f)]
<1>1. s \in Socket /\ st[s] = "open" BY DEF PageTypes
<1>2. Fine(drawn', s, "open", hand[s], inbox[s]) BY <1>1, FineGrows DEF HandTypes
<1>3. Fine(drawn', s, st[s], hand[s], Append(inbox[s], f)) BY <1>1, <1>2, NewFrame
<1>4. inbox' = [inbox EXCEPT ![s] = Append(inbox[s], f)] OBVIOUS
<1> QED BY <1>1, <1>3, <1>4, SayTypes

LEMMA PageAt ==
  ASSUME PageTypes, NEW s \in DOMAIN page
  PROVE  s \in Socket /\ st[s] = "open" /\ page[s] \in Pages(drawn)
BY DEF PageTypes

LEMMA TypesSend ==
  ASSUME Types, NEW s \in DOMAIN page, Send(s)
  PROVE  /\ drawn' = drawn + 1 /\ Types' /\ s \in Socket
         /\ \E q \in Pages(drawn') : \E b, f :
              /\ page' = [page EXCEPT ![s] = q] /\ inbox' = [inbox EXCEPT ![s] = b]
              /\ q.shown = Put(page[s].shown, drawn', Bubble(s, drawn'))
              /\ q.members = page[s].members /\ q.signs = page[s].signs
              /\ f = Asks(s, "message", drawn', drawn') /\ FrameIn(drawn', s, f)
              /\ \/ b = Append(inbox[s], f)
                 \/ b = Append(Append(inbox[s], f), Asks(s, "typing_stop", 0, 0))
<1> DEFINE f == Asks(s, "message", drawn', drawn')  g == Asks(s, "typing_stop", 0, 0)
<1> DEFINE sh == Put(page[s].shown, drawn', Bubble(s, drawn'))
<1> DEFINE q == [page[s] EXCEPT !.shown = sh, !.busy = @ \ {"typing"}]
<1>1. HandTypes /\ ChanTypes /\ PageTypes /\ drawn \in Nat BY DEF Types, HandTypes
<1>2. /\ drawn' = drawn + 1 /\ drawn' \in Nat /\ drawn' >= drawn /\ mix' = mix /\ left' = left - 1 /\ left > 0
      /\ UNCHANGED <<rows, hash, uploads, st, hand, chan>>
  BY <1>1 DEF Send, UserAct
<1>3. left' \in Nat BY <1>2 DEF Types, RowTypes
<1>4. s \in Socket /\ st[s] = "open" /\ page[s] \in Pages(drawn') BY <1>1, <1>2, PageAt, ShownGrows
<1>5. FrameIn(drawn', s, f) /\ f.type = "message"
  <2>1. f.type = "message" /\ f.who = Who[s] /\ f.m = drawn' /\ f.val = drawn' /\ f \in Event
    BY <1>2, <1>4, WhoTyped DEF Asks, Ev, Event, FrameTypes
  <2>2. drawn' \in 1..drawn' /\ drawn' \in Texts(drawn') BY <1>1, <1>2, CutTexts
  <2> HIDE DEF f
  <2> QED BY <2>1, <2>2 DEF FrameIn, Own, Drawn, FrameTypes
<1>6. FrameIn(drawn', s, g) /\ g.type = "typing_stop" BY <1>2, <1>4, AskFrame DEF FrameTypes
<1>7. Fine(drawn', s, "open", hand[s], inbox[s]) BY <1>1, <1>2, <1>4, FineGrows DEF HandTypes
<1>8. inbox[s] \in Seq(Event) /\ f \in Event /\ g \in Event BY <1>5, <1>6, <1>7 DEF Fine, Box, FrameIn, Own
<1>9. page' = [page EXCEPT ![s] = q] BY DEF Send
<1>10. q \in Pages(drawn') /\ q.shown = sh /\ q.members = page[s].members /\ q.signs = page[s].signs
  <2>1. Bubble(s, drawn') \in Entry BY <1>2, <1>4, BubbleEntry
  <2>2. page[s].shown \in Shown(drawn') BY <1>4, PageGet
  <2>3. drawn' \in 1..drawn' BY <1>1, <1>2
  <2>4. sh \in Shown(drawn') BY <1>2, <2>1, <2>2, <2>3, ShownPut
  <2> HIDE DEF sh
  <2> QED BY <1>4, <2>4 DEF Pages
<1>11. \/ inbox' = [inbox EXCEPT ![s] = Append(@, f) \o <<>>]
       \/ inbox' = [inbox EXCEPT ![s] = Append(@, f) \o <<g>>]
  BY DEF Send, Asks
<1> HIDE DEF f, g, q, sh
<1>12. /\ Append(inbox[s], f) \o <<>> = Append(inbox[s], f)
       /\ Append(inbox[s], f) \o <<g>> = Append(Append(inbox[s], f), g)
  BY <1>8
<1>13. PICK b : inbox' = [inbox EXCEPT ![s] = b] /\ (b = Append(inbox[s], f) \/ b = Append(Append(inbox[s], f), g))
  BY <1>11, <1>12
<1>14. Fine(drawn', s, "open", hand[s], b)
  <2>1. Fine(drawn', s, "open", hand[s], Append(inbox[s], f)) BY <1>4, <1>5, <1>7, NewFrame
  <2>2. Fine(drawn', s, "open", hand[s], Append(Append(inbox[s], f), g)) BY <1>4, <1>6, <2>1, NewFrame
  <2> QED BY <1>13, <2>1, <2>2
<1>15. HandTypes' BY <1>1, <1>2, <1>4, <1>13, <1>14, SayTypes
<1>16. RowTypes' BY <1>2, <1>3, RowsSame DEF Types
<1>17. ChanTypes' BY <1>1, <1>2, ChanSame
<1>18. PageTypes' BY <1>1, <1>2, <1>9, <1>10, PageChange
<1> QED BY <1>2, <1>4, <1>5, <1>9, <1>10, <1>13, <1>15, <1>16, <1>17, <1>18 DEF Types, f, g, sh

(* Steps of a page that add one frame f to its inbox, and draw no number.  *)
SaysOne(s, q, f) ==
  /\ page' = [page EXCEPT ![s] = q] /\ inbox' = [inbox EXCEPT ![s] = Append(inbox[s], f)]
  /\ FrameIn(drawn', s, f)
  /\ q.members = page[s].members /\ q.signs = page[s].signs

LEMMA SayPage ==
  ASSUME Types, NEW s \in DOMAIN page, drawn' \in Nat, drawn' >= drawn, NEW f, FrameIn(drawn', s, f), f.type # "disconnect",
         inbox' = [inbox EXCEPT ![s] = Append(@, f)], NEW q \in Pages(drawn'), page' = [page EXCEPT ![s] = q],
         left > 0, left' = left - 1, UNCHANGED <<mix, rows, hash, st, hand, chan>>
  PROVE  /\ HandTypes' /\ ChanTypes' /\ PageTypes' /\ inbox' = [inbox EXCEPT ![s] = Append(inbox[s], f)]
         /\ uploads' = uploads => RowTypes'
<1>1. HandTypes /\ ChanTypes /\ PageTypes /\ drawn \in Nat BY DEF Types, HandTypes
<1>2. left' \in Nat BY DEF Types, RowTypes
<1>3. HandTypes' /\ inbox' = [inbox EXCEPT ![s] = Append(inbox[s], f)] BY <1>1, SayOne
<1>4. ChanTypes' BY <1>1, ChanSame
<1>5. PageTypes' BY <1>1, PageChange
<1>6. uploads' = uploads => RowTypes' BY <1>2, RowsSame DEF Types
<1> QED BY <1>3, <1>4, <1>5, <1>6

LEMMA TypesStart ==
  ASSUME Types, NEW s \in DOMAIN page, NEW type \in Kinds, Start(s, type) \/ Stop(s, type)
  PROVE  /\ Types' /\ s \in Socket /\ drawn' = drawn
         /\ \E q \in Pages(drawn') : \E f : SaysOne(s, q, f) /\ q.shown = page[s].shown /\ f.type \notin Named \cup {"message"}
<1> DEFINE said == IF Start(s, type) THEN type ELSE StopSign[type]  f == Asks(s, said, 0, 0)
<1> DEFINE q == [page[s] EXCEPT !.busy = IF Start(s, type) THEN @ \cup {type} ELSE @ \ {type}]
<1>1. HandTypes /\ ChanTypes /\ PageTypes /\ drawn \in Nat BY DEF Types, HandTypes
<1>2. /\ drawn' = drawn /\ drawn' \in Nat /\ drawn' >= drawn /\ mix' = mix /\ left' = left - 1 /\ left > 0
      /\ UNCHANGED <<mix, rows, hash, uploads, st, hand, chan>>
  BY <1>1 DEF Start, Stop, UserAct
<1>3. s \in Socket /\ page[s] \in Pages(drawn') BY <1>1, <1>2, PageAt
<1>4. said \in {"typing", "recording", "typing_stop", "recording_stop"} BY DEF StopSign, Kinds
<1>5. FrameIn(drawn', s, f) /\ f.type = said /\ f.type # "disconnect" /\ f.type \notin Named \cup {"message"}
  BY <1>2, <1>3, <1>4, AskFrame DEF FrameTypes, Kinds, Named
<1>6. page' = [page EXCEPT ![s] = q] /\ inbox' = [inbox EXCEPT ![s] = Append(@, f)]
  <2>1. CASE Start(s, type) BY <2>1 DEF Start, ToServer, Asks
  <2>2. CASE ~Start(s, type) BY <2>2 DEF Stop, ToServer, Asks
  <2> QED BY <2>1, <2>2
<1>7. q \in Pages(drawn') /\ q.shown = page[s].shown /\ q.members = page[s].members /\ q.signs = page[s].signs
  BY <1>3 DEF Pages
<1> HIDE DEF f, q, said
<1>8. /\ HandTypes' /\ ChanTypes' /\ PageTypes' /\ inbox' = [inbox EXCEPT ![s] = Append(inbox[s], f)] /\ RowTypes'
  BY <1>2, <1>5, <1>6, <1>7, SayPage
<1> QED BY <1>2, <1>3, <1>5, <1>6, <1>7, <1>8 DEF Types, SaysOne

(* What the page's own acts do to what it shows of m.                      *)
LEMMA ShowSet ==
  ASSUME NEW n \in Nat, NEW p \in Pages(n), NEW m \in DOMAIN p.shown, NEW e \in Entry
  PROVE  LET q == [p EXCEPT !.shown = [p.shown EXCEPT ![m] = e]] IN
         /\ q \in Pages(n) /\ DOMAIN q.shown = DOMAIN p.shown
         /\ \A x \in DOMAIN p.shown : q.shown[x] = IF x = m THEN e ELSE p.shown[x]
         /\ q.members = p.members /\ q.signs = p.signs
<1> DEFINE sh == [p.shown EXCEPT ![m] = e]
<1>1. sh \in Shown(n) /\ DOMAIN sh = DOMAIN p.shown /\ sh[m] = e /\ \A x \in DOMAIN p.shown \ {m} : sh[x] = p.shown[x]
  BY PageGet, ShownSet
<1> HIDE DEF sh
<1>2. /\ [p EXCEPT !.shown = sh] \in Pages(n) /\ [p EXCEPT !.shown = sh].shown = sh
      /\ [p EXCEPT !.shown = sh].members = p.members /\ [p EXCEPT !.shown = sh].signs = p.signs
  BY <1>1 DEF Pages
<1> QED BY <1>1, <1>2 DEF sh

Shows(s, q, m, e) ==
  /\ DOMAIN q.shown = DOMAIN page[s].shown
  /\ \A x \in DOMAIN page[s].shown : q.shown[x] = IF x = m THEN e ELSE page[s].shown[x]

LEMMA ServerIdNat ==
  ASSUME NEW e, NEW m \in Nat
  PROVE  /\ ServerId(e, m) \in Nat /\ ServerId(e, m) = IF e.bubble = "unconfirmed" THEN 0 ELSE m
BY DEF ServerId

LEMMA TypesReact ==
  ASSUME Types, NEW s \in DOMAIN page, NEW m \in DOMAIN page[s].shown, React(s, m)
  PROVE  LET old == page[s].shown[m]
             f == Asks(s, "reaction", ServerId(old, m), 0) IN
         /\ Types' /\ s \in Socket /\ drawn' = drawn
         /\ \E q \in Pages(drawn') : SaysOne(s, q, f) /\ Shows(s, q, m, [old EXCEPT !.count = @ + 1])
<1> DEFINE old == page[s].shown[m]  e == [old EXCEPT !.count = @ + 1]  f == Asks(s, "reaction", ServerId(old, m), 0)
<1> DEFINE q == [page[s] EXCEPT !.shown = [page[s].shown EXCEPT ![m] = e]]
<1>1. HandTypes /\ ChanTypes /\ PageTypes /\ drawn \in Nat BY DEF Types, HandTypes
<1>2. /\ drawn' = drawn /\ drawn' \in Nat /\ drawn' >= drawn /\ mix' = mix /\ left' = left - 1 /\ left > 0
      /\ UNCHANGED <<mix, rows, hash, uploads, st, hand, chan>>
  BY <1>1 DEF React, UserAct
<1>3. s \in Socket /\ page[s] \in Pages(drawn') BY <1>1, <1>2, PageAt
<1>4. old \in Entry /\ m \in Nat BY <1>2, <1>3, PageGet, EntryGet
<1>5. e \in Entry BY <1>4 DEF Entry
<1>6. FrameIn(drawn', s, f) /\ f.type # "disconnect"
  <2> DEFINE k == ServerId(old, m)
  <2>1. k \in Nat /\ drawn' \in Nat /\ "reaction" \in FrameTypes \ {"message", "edit", "disconnect"}
    BY <1>2, <1>4, ServerIdNat DEF FrameTypes, Named
  <2> HIDE DEF k
  <2>2. /\ FrameIn(drawn', s, Asks(s, "reaction", k, 0)) /\ Asks(s, "reaction", k, 0).type = "reaction"
    BY <1>3, <2>1, AskFrame
  <2> QED BY <2>2 DEF k
<1>7. page' = [page EXCEPT ![s] = q] /\ inbox' = [inbox EXCEPT ![s] = Append(@, f)]
  BY DEF React, ToServer, Asks
<1>8. q \in Pages(drawn') /\ Shows(s, q, m, e) /\ q.members = page[s].members /\ q.signs = page[s].signs
  <2> HIDE DEF e
  <2> QED BY <1>2, <1>3, <1>5, ShowSet DEF Shows
<1> HIDE DEF f, q, e
<1>9. HandTypes' /\ ChanTypes' /\ PageTypes' /\ inbox' = [inbox EXCEPT ![s] = Append(inbox[s], f)] /\ RowTypes'
  BY <1>2, <1>6, <1>7, <1>8, SayPage
<1> QED BY <1>2, <1>3, <1>6, <1>7, <1>8, <1>9 DEF Types, SaysOne, e, f

LEMMA TypesCommitEdit ==
  ASSUME Types, NEW s \in DOMAIN page, NEW m \in DOMAIN page[s].shown, CommitEdit(s, m)
  PROVE  LET old == page[s].shown[m]
             f == Asks(s, "edit", ServerId(old, m), drawn') IN
         /\ Types' /\ s \in Socket /\ drawn' = drawn + 1 /\ old.by = Who[s]
         /\ \E q \in Pages(drawn') : SaysOne(s, q, f) /\ Shows(s, q, m, [old EXCEPT !.text = drawn'])
<1> DEFINE old == page[s].shown[m]  e == [old EXCEPT !.text = drawn']  f == Asks(s, "edit", ServerId(old, m), drawn')
<1> DEFINE q == [page[s] EXCEPT !.shown = [page[s].shown EXCEPT ![m] = e]]
<1>1. HandTypes /\ ChanTypes /\ PageTypes /\ drawn \in Nat BY DEF Types, HandTypes
<1>2. /\ drawn' = drawn + 1 /\ drawn' \in Nat /\ drawn' >= drawn /\ mix' = mix /\ left' = left - 1 /\ left > 0
      /\ UNCHANGED <<mix, rows, hash, uploads, st, hand, chan>> /\ old.by = Who[s]
  BY <1>1 DEF CommitEdit, UserAct
<1>3. s \in Socket /\ page[s] \in Pages(drawn') BY <1>1, <1>2, PageAt, ShownGrows
<1>4. old \in Entry /\ m \in Nat BY <1>2, <1>3, PageGet, EntryGet
<1>5. e \in Entry BY <1>2, <1>4 DEF Entry
<1>6. FrameIn(drawn', s, f) /\ f.type # "disconnect"
  <2>1. f.type = "edit" /\ f.who = Who[s] /\ f.val = drawn' /\ f \in Event
    BY <1>2, <1>3, <1>4, WhoTyped, ServerIdNat DEF Asks, Ev, Event, FrameTypes, Named
  <2>2. drawn' \in 1..drawn' BY <1>1, <1>2
  <2> HIDE DEF f
  <2> QED BY <2>1, <2>2 DEF FrameIn, Own, Drawn, FrameTypes, Named
<1>7. page' = [page EXCEPT ![s] = q] /\ inbox' = [inbox EXCEPT ![s] = Append(@, f)]
  BY DEF CommitEdit, ToServer, Asks
<1>8. q \in Pages(drawn') /\ Shows(s, q, m, e) /\ q.members = page[s].members /\ q.signs = page[s].signs
  <2> HIDE DEF e
  <2> QED BY <1>2, <1>3, <1>5, ShowSet DEF Shows
<1> HIDE DEF f, q, e
<1>9. HandTypes' /\ ChanTypes' /\ PageTypes' /\ inbox' = [inbox EXCEPT ![s] = Append(inbox[s], f)] /\ RowTypes'
  BY <1>2, <1>6, <1>7, <1>8, SayPage
<1> QED BY <1>2, <1>3, <1>6, <1>7, <1>8, <1>9 DEF Types, SaysOne, e, f

LEMMA TypesDel ==
  ASSUME Types, NEW s \in DOMAIN page, NEW m \in DOMAIN page[s].shown, Del(s, m)
  PROVE  LET old == page[s].shown[m]
             f == Asks(s, "delete", ServerId(old, m), 0) IN
         /\ Types' /\ s \in Socket /\ drawn' = drawn /\ old.by = Who[s]
         /\ \E q \in Pages(drawn') : SaysOne(s, q, f) /\ Shows(s, q, m, [old EXCEPT !.deleted = TRUE, !.count = 0])
<1> DEFINE old == page[s].shown[m]  e == [old EXCEPT !.deleted = TRUE, !.count = 0]
<1> DEFINE f == Asks(s, "delete", ServerId(old, m), 0)
<1> DEFINE q == [page[s] EXCEPT !.shown = [page[s].shown EXCEPT ![m] = e]]
<1>1. HandTypes /\ ChanTypes /\ PageTypes /\ drawn \in Nat BY DEF Types, HandTypes
<1>2. /\ drawn' = drawn /\ drawn' \in Nat /\ drawn' >= drawn /\ mix' = mix /\ left' = left - 1 /\ left > 0
      /\ UNCHANGED <<mix, rows, hash, uploads, st, hand, chan>> /\ old.by = Who[s]
  BY <1>1 DEF Del, UserAct
<1>3. s \in Socket /\ page[s] \in Pages(drawn') BY <1>1, <1>2, PageAt
<1>4. old \in Entry /\ m \in Nat BY <1>2, <1>3, PageGet, EntryGet
<1>5. e \in Entry BY <1>4 DEF Entry
<1>6. FrameIn(drawn', s, f) /\ f.type # "disconnect"
  <2> DEFINE k == ServerId(old, m)
  <2>1. k \in Nat /\ drawn' \in Nat /\ "delete" \in FrameTypes \ {"message", "edit", "disconnect"}
    BY <1>2, <1>4, ServerIdNat DEF FrameTypes, Named
  <2> HIDE DEF k
  <2>2. /\ FrameIn(drawn', s, Asks(s, "delete", k, 0)) /\ Asks(s, "delete", k, 0).type = "delete"
    BY <1>3, <2>1, AskFrame
  <2> QED BY <2>2 DEF k
<1>7. page' = [page EXCEPT ![s] = q] /\ inbox' = [inbox EXCEPT ![s] = Append(@, f)]
  BY DEF Del, ToServer, Asks
<1>8. q \in Pages(drawn') /\ Shows(s, q, m, e) /\ q.members = page[s].members /\ q.signs = page[s].signs
  <2> HIDE DEF e
  <2> QED BY <1>2, <1>3, <1>5, ShowSet DEF Shows
<1> HIDE DEF f, q, e
<1>9. HandTypes' /\ ChanTypes' /\ PageTypes' /\ inbox' = [inbox EXCEPT ![s] = Append(inbox[s], f)] /\ RowTypes'
  BY <1>2, <1>6, <1>7, <1>8, SayPage
<1> QED BY <1>2, <1>3, <1>6, <1>7, <1>8, <1>9 DEF Types, SaysOne, e, f

LEMMA TypesPlayed ==
  ASSUME Types, NEW s \in DOMAIN page, NEW m \in DOMAIN page[s].shown, Play(s, m)
  PROVE  /\ Types' /\ s \in Socket /\ drawn' = drawn /\ page' = page
         /\ SaysOne(s, page[s], Asks(s, "played", m, 0))
<1> DEFINE f == Asks(s, "played", m, 0)
<1>1. HandTypes /\ ChanTypes /\ PageTypes /\ drawn \in Nat BY DEF Types, HandTypes
<1>2. /\ drawn' = drawn /\ drawn' \in Nat /\ drawn' >= drawn /\ mix' = mix /\ left' = left - 1 /\ left > 0
      /\ UNCHANGED <<mix, rows, hash, uploads, st, hand, chan, page>>
  BY <1>1 DEF Play, UserAct
<1>3. s \in Socket /\ page[s] \in Pages(drawn') BY <1>1, <1>2, PageAt
<1>4. m \in Nat BY <1>2, <1>3, PageGet, EntryGet
<1>6. FrameIn(drawn', s, f) /\ f.type # "disconnect"
  <2>1. drawn' \in Nat /\ "played" \in FrameTypes \ {"message", "edit", "disconnect"} BY <1>2 DEF FrameTypes, Named
  <2>2. FrameIn(drawn', s, Asks(s, "played", m, 0)) /\ Asks(s, "played", m, 0).type = "played"
    BY <1>3, <1>4, <2>1, AskFrame
  <2> QED BY <2>2
<1>7. page' = [page EXCEPT ![s] = page[s]] /\ inbox' = [inbox EXCEPT ![s] = Append(@, f)]
  BY <1>1, <1>2 DEF Play, ToServer, Asks, PageTypes
<1> HIDE DEF f
<1>9. HandTypes' /\ ChanTypes' /\ PageTypes' /\ inbox' = [inbox EXCEPT ![s] = Append(inbox[s], f)] /\ RowTypes'
  BY <1>2, <1>3, <1>6, <1>7, SayPage
<1> QED BY <1>2, <1>3, <1>6, <1>7, <1>9 DEF Types, SaysOne, f

LEMMA TypesClose ==
  ASSUME Types, NEW s \in DOMAIN page, CloseSocket(s)
  PROVE  /\ Types' /\ s \in Socket /\ st[s] = "open" /\ drawn' = drawn
         /\ st' = [st EXCEPT ![s] = "closing"]
         /\ DOMAIN page' = DOMAIN page \ {s} /\ \A v \in DOMAIN page' : page'[v] = page[v]
         /\ inbox' = [inbox EXCEPT ![s] = Append(inbox[s], Bye(Who[s]))]
<1>1. HandTypes /\ ChanTypes /\ PageTypes /\ drawn \in Nat BY DEF Types, HandTypes
<1>2. /\ drawn' = drawn /\ drawn' >= drawn /\ mix' = mix /\ left' = left - 1 /\ left > 0
      /\ UNCHANGED <<rows, hash, uploads, hand, chan>> /\ st' = [st EXCEPT ![s] = "closing"]
      /\ inbox' = [inbox EXCEPT ![s] = Append(inbox[s], Bye(Who[s]))]
      /\ page' = Restrict(page, DOMAIN page \ {s})
  BY <1>1 DEF CloseSocket, UserAct, ToServer, Bye
<1>3. s \in Socket /\ st[s] = "open" BY <1>1, PageAt
<1>4. RowTypes'
  <2>1. left' \in Nat BY <1>2 DEF Types, RowTypes
  <2> QED BY <1>1, <1>2, <2>1, RowsSame DEF Types
<1>5. /\ st' \in [Socket -> States] /\ st'[s] = "closing" /\ \A v \in Socket \ {s} : st'[v] = st[v]
  BY <1>1, <1>2, <1>3 DEF HandTypes, States
<1>6. /\ inbox' = [v \in Socket |-> inbox'[v]] /\ inbox'[s] = Append(inbox[s], Bye(Who[s]))
      /\ \A v \in Socket \ {s} : inbox'[v] = inbox[v]
  BY <1>1, <1>2, <1>3 DEF HandTypes
<1>7. Fine(drawn, s, "closing", hand[s], inbox'[s])
  <2>1. Fine(drawn, s, "open", hand[s], inbox[s]) BY <1>1, <1>3 DEF HandTypes
  <2>2. Fine(drawn, s, "closing", hand[s], Append(inbox[s], Bye(Who[s]))) BY <1>3, <2>1, NewBye
  <2> QED BY <1>6, <2>2
<1>8. HandTypes'
  <2>1. \A v \in Socket : Fine(drawn, v, st'[v], hand[v], inbox'[v]) BY <1>1, <1>5, <1>6, <1>7 DEF HandTypes
  <2> QED BY <1>1, <1>2, <1>5, <1>6, <2>1 DEF HandTypes
<1>9. ChanTypes'
  <2>1. DOMAIN chan' = {v \in Socket : st'[v] \in {"open", "closing"}} BY <1>1, <1>2, <1>3, <1>5 DEF ChanTypes
  <2> QED BY <1>1, <1>2, <2>1 DEF ChanTypes
<1>10. DOMAIN page' = DOMAIN page \ {s} /\ page' = [v \in DOMAIN page \ {s} |-> page[v]]
  BY <1>2 DEF Restrict
<1>11. PageTypes'
  <2>1. DOMAIN page' = {v \in Socket : st'[v] = "open"} BY <1>1, <1>3, <1>5, <1>10 DEF PageTypes
  <2>2. page' \in [DOMAIN page' -> Pages(drawn)] BY <1>1, <1>10 DEF PageTypes
  <2> QED BY <1>2, <2>1, <2>2 DEF PageTypes
<1> QED BY <1>2, <1>3, <1>4, <1>8, <1>9, <1>10, <1>11 DEF Types

LEMMA TypesSendVoice ==
  ASSUME Types, NEW s \in DOMAIN page, SendVoice(s)
  PROVE  /\ drawn' = drawn + 1 /\ Types' /\ s \in Socket
         /\ uploads' = Put(uploads, drawn', [by |-> s, stored |-> FALSE])
         /\ \E q \in Pages(drawn') : /\ SaysOne(s, q, Asks(s, "recording_stop", 0, 0))
                                     /\ q.shown = Put(page[s].shown, drawn', Bubble(s, drawn'))
<1> DEFINE f == Asks(s, "recording_stop", 0, 0)  up == [by |-> s, stored |-> FALSE]
<1> DEFINE sh == Put(page[s].shown, drawn', Bubble(s, drawn'))
<1> DEFINE q == [page[s] EXCEPT !.shown = sh, !.busy = @ \ {"recording"}]
<1>1. HandTypes /\ ChanTypes /\ PageTypes /\ drawn \in Nat BY DEF Types, HandTypes
<1>2. /\ drawn' = drawn + 1 /\ drawn' \in Nat /\ drawn' >= drawn /\ mix' = mix /\ left' = left - 1 /\ left > 0
      /\ UNCHANGED <<mix, rows, hash, st, hand, chan>> /\ uploads' = Put(uploads, drawn', up)
  BY <1>1 DEF SendVoice, UserAct
<1>3. s \in Socket /\ page[s] \in Pages(drawn') BY <1>1, <1>2, PageAt, ShownGrows
<1>4. FrameIn(drawn', s, f) /\ f.type = "recording_stop"
  <2>1. "recording_stop" \in FrameTypes \ {"message", "edit", "disconnect"} /\ 0 \in Nat BY DEF FrameTypes
  <2> QED BY <1>2, <1>3, <2>1, AskFrame
<1>5. page' = [page EXCEPT ![s] = q] /\ inbox' = [inbox EXCEPT ![s] = Append(@, f)]
  BY DEF SendVoice, ToServer, Asks
<1>6. q \in Pages(drawn') /\ q.shown = sh /\ q.members = page[s].members /\ q.signs = page[s].signs
  <2>1. Bubble(s, drawn') \in Entry BY <1>2, <1>3, BubbleEntry
  <2>2. page[s].shown \in Shown(drawn') BY <1>3, PageGet
  <2>3. drawn' \in 1..drawn' BY <1>1, <1>2
  <2>4. sh \in Shown(drawn') BY <1>2, <2>1, <2>2, <2>3, ShownPut
  <2> HIDE DEF sh
  <2> QED BY <1>3, <2>4 DEF Pages
<1> HIDE DEF f, q, sh
<1>7. /\ HandTypes' /\ ChanTypes' /\ PageTypes' /\ inbox' = [inbox EXCEPT ![s] = Append(inbox[s], f)]
  BY <1>2, <1>4, <1>5, <1>6, SayPage
<1>8. RowTypes'
  <2>1. up \in Upload /\ up.stored = FALSE BY <1>3 DEF Upload
  <2> HIDE DEF up
  <2>2. /\ uploads' \in [DOMAIN uploads \cup {drawn'} -> Upload] /\ DOMAIN uploads' = DOMAIN uploads \cup {drawn'}
        /\ uploads'[drawn'] = up /\ \A m \in DOMAIN uploads \ {drawn'} : uploads'[m] = uploads[m]
    BY <1>2, <2>1 DEF Put, Types, RowTypes
  <2>3. 1..drawn \subseteq 1..drawn' /\ drawn' \in 1..drawn' /\ drawn + 1 \notin 1..drawn BY <1>1, <1>2
  <2>4. MessageType \subseteq MessageType' BY <1>1, <1>2, <2>3, TextsGrow DEF MessageType
  <2>5. msgs \in [DOMAIN msgs -> MessageType'] BY <2>4 DEF Types, RowTypes
  <2>6. UNCHANGED <<msgs, reacts, receipts, plays>> BY <1>2 DEF rows
  <2>7. left' \in Nat BY <1>2 DEF Types, RowTypes
  <2>8. \A m \in DOMAIN uploads' : uploads'[m].stored => m \in DOMAIN msgs'
    BY <1>2, <2>1, <2>2, <2>3, <2>6 DEF Types, RowTypes
  <2> QED BY <1>2, <2>2, <2>3, <2>5, <2>6, <2>7, <2>8 DEF Types, RowTypes, PerReader
<1> QED BY <1>2, <1>3, <1>4, <1>5, <1>6, <1>7, <1>8 DEF Types, SaysOne, f, sh

LEMMA TypesStore ==
  ASSUME Types, NEW m \in DOMAIN uploads, Store(m)
  PROVE  /\ Types' /\ DOMAIN msgs' = DOMAIN msgs \cup {m} /\ DOMAIN uploads' = DOMAIN uploads /\ m \in 1..drawn
         /\ uploads[m] \in Upload /\ uploads'[m].stored /\ uploads'[m].by = uploads[m].by
         /\ \A x \in DOMAIN uploads \ {m} : uploads'[x] = uploads[x]
         /\ msgs'[m] = [by |-> Who[uploads[m].by], text |-> Cut(m), deleted |-> FALSE, voice |-> TRUE]
         /\ \A x \in DOMAIN msgs \ {m} : msgs'[x] = msgs[x]
<1> DEFINE row == [by |-> Who[uploads[m].by], text |-> Cut(m), deleted |-> FALSE, voice |-> TRUE]
<1>1. HandTypes /\ ChanTypes /\ PageTypes /\ drawn \in Nat /\ m \in 1..drawn /\ uploads[m] \in Upload
  BY DEF Types, HandTypes, RowTypes
<1>2. /\ drawn' = drawn /\ drawn' >= drawn /\ mix' = mix /\ left' = left /\ msgs' = Put(msgs, m, row)
      /\ uploads' = [uploads EXCEPT ![m].stored = TRUE]
      /\ UNCHANGED <<reacts, receipts, plays, hash, st, hand, inbox, chan, page>>
  BY <1>1 DEF Store
<1>3. row \in MessageType BY <1>1, CutTexts, WhoTyped DEF MessageType, Upload, Texts
<1>4. msgs \in [DOMAIN msgs -> MessageType] /\ uploads \in [DOMAIN uploads -> Upload] BY DEF Types, RowTypes
<1> HIDE DEF row
<1>5. /\ msgs' \in [DOMAIN msgs \cup {m} -> MessageType] /\ DOMAIN msgs' = DOMAIN msgs \cup {m}
      /\ msgs'[m] = row /\ \A x \in DOMAIN msgs \ {m} : msgs'[x] = msgs[x]
  BY <1>2, <1>3, <1>4 DEF Put
<1>6. /\ uploads' \in [DOMAIN uploads -> Upload] /\ DOMAIN uploads' = DOMAIN uploads
      /\ uploads'[m].stored /\ uploads'[m].by = uploads[m].by
      /\ \A x \in DOMAIN uploads \ {m} : uploads'[x] = uploads[x]
  BY <1>2, <1>4 DEF Upload
<1>7. MessageType' = MessageType BY <1>2 DEF MessageType
<1>8. RowTypes'
  <2>1. \A x \in DOMAIN uploads' : uploads'[x].stored => x \in DOMAIN msgs'
    BY <1>5, <1>6 DEF Types, RowTypes
  <2> QED BY <1>1, <1>2, <1>5, <1>6, <1>7, <2>1 DEF Types, RowTypes, PerReader
<1>9. HandTypes' BY <1>1, <1>2 DEF HandTypes
<1>10. ChanTypes' /\ PageTypes' BY <1>1, <1>2, ChanSame, PageSame
<1> QED BY <1>1, <1>5, <1>6, <1>8, <1>9, <1>10 DEF Types, row

(* An upload is dropped.                                                   *)
LEMMA RowsDrop ==
  ASSUME RowTypes, NEW S, uploads' = Restrict(uploads, DOMAIN uploads \ S), left' = left, drawn' = drawn, mix' = mix,
         UNCHANGED <<rows, hash>>
  PROVE  /\ RowTypes' /\ DOMAIN uploads' = DOMAIN uploads \ S /\ \A m \in DOMAIN uploads' : uploads'[m] = uploads[m]
<1>1. DOMAIN uploads' = DOMAIN uploads \ S /\ uploads' = [m \in DOMAIN uploads \ S |-> uploads[m]]
  BY DEF Restrict
<1>2. UNCHANGED <<msgs, reacts, receipts, plays>> BY DEF rows
<1>3. uploads' \in [DOMAIN uploads' -> Upload] BY <1>1 DEF RowTypes
<1> QED BY <1>1, <1>2, <1>3 DEF RowTypes, PerReader, MessageType

VoiceEvent(m) == Ev("message", msgs[m].by, m, msgs[m].text)

LEMMA TypesAnnounce ==
  ASSUME Types, NEW m \in DOMAIN uploads, Announce(m)
  PROVE  /\ Types' /\ m \in DOMAIN msgs /\ DOMAIN uploads' = DOMAIN uploads \ {m}
         /\ \A x \in DOMAIN uploads' : uploads'[x] = uploads[x]
         /\ EventIn(drawn, VoiceEvent(m)) /\ VoiceEvent(m).type = "message" /\ VoiceEvent(m).m = m
         /\ VoiceEvent(m).who = msgs[m].by /\ VoiceEvent(m).val = msgs[m].text
         /\ \/ chan' = Everyone(VoiceEvent(m)) /\ UNCHANGED lost
            \/ lost' = lost \cup {m} /\ UNCHANGED chan
<1>1. HandTypes /\ ChanTypes /\ PageTypes /\ drawn \in Nat /\ drawn' = drawn /\ st' = st /\ drawn' >= drawn
  BY DEF Types, HandTypes, Announce
<1>2. m \in DOMAIN msgs /\ m \in 1..drawn /\ msgs[m].by \in Person /\ msgs[m].text \in RowTexts(drawn)
      /\ msgs[m].text \in Texts(drawn) /\ msgs[m].text \in Int
  BY <1>1, CutTexts DEF Announce, Types, RowTypes, MessageType
<1>3. /\ VoiceEvent(m).type = "message" /\ VoiceEvent(m).m = m
      /\ VoiceEvent(m).who = msgs[m].by /\ VoiceEvent(m).val = msgs[m].text /\ VoiceEvent(m) \in Event
  BY <1>1, <1>2 DEF VoiceEvent, Ev, Event, FrameTypes
<1>4. EventIn(drawn, VoiceEvent(m))
  <2> DEFINE ev == VoiceEvent(m)
  <2>1. ev.type = "message" /\ ev.m = m /\ ev.val = msgs[m].text /\ ev \in Event BY <1>3
  <2> HIDE DEF ev
  <2>2. EventIn(drawn, ev) BY <1>2, <2>1 DEF EventIn, EventTypes, Drawn
  <2> QED BY <2>2 DEF ev
<1>5. \/ chan' = Everyone(VoiceEvent(m)) /\ UNCHANGED lost
      \/ lost' = lost \cup {m} /\ UNCHANGED chan
  BY DEF Announce, VoiceEvent
<1>6. ChanTypes' BY <1>1, <1>4, <1>5, ChanCast, ChanSame
<1>7. /\ RowTypes' /\ DOMAIN uploads' = DOMAIN uploads \ {m} /\ \A x \in DOMAIN uploads' : uploads'[x] = uploads[x]
  BY RowsDrop DEF Announce, Types
<1>8. HandTypes' /\ PageTypes' BY <1>1, PageSame DEF Announce, HandTypes
<1> QED BY <1>2, <1>3, <1>4, <1>5, <1>6, <1>7, <1>8 DEF Types

(* A bubble fails.                                                         *)
Failed(e) == [e EXCEPT !.tick = "failed"]
LEMMA FailTypes ==
  ASSUME NEW n \in Nat, NEW p \in Pages(n), NEW m
  PROVE  LET q == Fail(p, m) IN
         /\ q \in Pages(n) /\ DOMAIN q.shown = DOMAIN p.shown /\ q.members = p.members /\ q.signs = p.signs
         /\ \A x \in DOMAIN p.shown : q.shown[x] = IF x = m THEN Failed(p.shown[x]) ELSE p.shown[x]
<1> DEFINE e == Failed(p.shown[m])
<1>1. Fail(p, m) = Patch(p, m, e) BY DEF Fail, Failed
<1>2. m \in DOMAIN p.shown => e \in Entry
  BY PageGet, EntryGet DEF Failed, Entry, Ticks
<1> HIDE DEF e
<1>3. LET q == Patch(p, m, e) IN
      /\ q \in Pages(n) /\ DOMAIN q.shown = DOMAIN p.shown /\ q.members = p.members /\ q.signs = p.signs
      /\ \A x \in DOMAIN p.shown : q.shown[x] = IF x = m THEN e ELSE p.shown[x]
  BY <1>2, Patched
<1> QED BY <1>1, <1>3 DEF e

(* What a failed bubble changes: page s, and of it the tick of m.          *)
FailMove(s, m) ==
  /\ s \in DOMAIN page
  /\ \E q \in Pages(drawn) :
       /\ page' = [page EXCEPT ![s] = q] /\ DOMAIN q.shown = DOMAIN page[s].shown
       /\ q.members = page[s].members /\ q.signs = page[s].signs
       /\ \A x \in DOMAIN page[s].shown : q.shown[x] = IF x = m THEN Failed(page[s].shown[x]) ELSE page[s].shown[x]

LEMMA TypesRefuse ==
  ASSUME Types, NEW m \in DOMAIN uploads, Refuse(m)
  PROVE  /\ Types' /\ DOMAIN uploads' = DOMAIN uploads \ {m} /\ \A x \in DOMAIN uploads' : uploads'[x] = uploads[x]
         /\ uploads[m] \in Upload /\ (page' = page \/ FailMove(uploads[m].by, m))
<1> DEFINE s == uploads[m].by
<1>1. HandTypes /\ ChanTypes /\ PageTypes /\ drawn \in Nat /\ drawn' = drawn /\ st' = st /\ drawn' >= drawn
      /\ uploads[m] \in Upload
  BY DEF Types, HandTypes, Refuse, RowTypes
<1>2. /\ RowTypes' /\ DOMAIN uploads' = DOMAIN uploads \ {m} /\ \A x \in DOMAIN uploads' : uploads'[x] = uploads[x]
  BY RowsDrop DEF Refuse, Types
<1>3. HandTypes' /\ ChanTypes' BY <1>1, ChanSame DEF Refuse, HandTypes
<1>4. CASE s \notin DOMAIN page
  <2>1. page' = page BY <1>4 DEF Refuse
  <2> QED BY <1>1, <1>2, <1>3, <2>1, PageSame DEF Types
<1>5. CASE s \in DOMAIN page
  <2>0. page[s] \in Pages(drawn) BY <1>1, <1>5, PageAt
  <2> DEFINE q == Fail(page[s], m)
  <2>1. page' = [page EXCEPT ![s] = q] BY <1>5 DEF Refuse
  <2>2. /\ q \in Pages(drawn) /\ DOMAIN q.shown = DOMAIN page[s].shown /\ q.members = page[s].members /\ q.signs = page[s].signs
        /\ \A x \in DOMAIN page[s].shown : q.shown[x] = IF x = m THEN Failed(page[s].shown[x]) ELSE page[s].shown[x]
    BY <1>1, <2>0, FailTypes
  <2> HIDE DEF q
  <2>3. q \in Pages(drawn') BY <1>1, <2>2
  <2>4. PageTypes' BY <1>1, <1>5, <2>1, <2>3, PageChange
  <2>5. FailMove(s, m) BY <1>5, <2>1, <2>2 DEF FailMove
  <2> QED BY <1>1, <1>2, <1>3, <2>4, <2>5 DEF Types
<1> QED BY <1>4, <1>5

LEMMA TypesLoseAnswer ==
  ASSUME Types, NEW s \in DOMAIN page, NEW m \in DOMAIN page[s].shown, LoseAnswer(s, m)
  PROVE  Types' /\ FailMove(s, m)
<1>1. HandTypes /\ ChanTypes /\ PageTypes /\ drawn \in Nat /\ drawn' = drawn /\ st' = st /\ drawn' >= drawn
  BY DEF Types, HandTypes, LoseAnswer
<1>2. RowTypes' BY <1>1, RowsSame DEF LoseAnswer, Types, RowTypes
<1>3. HandTypes' /\ ChanTypes' BY <1>1, ChanSame DEF LoseAnswer, HandTypes
<1>4. page[s] \in Pages(drawn) BY <1>1, PageAt
<1> DEFINE q == Fail(page[s], m)
<1>5. page' = [page EXCEPT ![s] = q] BY DEF LoseAnswer
<1>6. /\ q \in Pages(drawn) /\ DOMAIN q.shown = DOMAIN page[s].shown /\ q.members = page[s].members /\ q.signs = page[s].signs
      /\ \A x \in DOMAIN page[s].shown : q.shown[x] = IF x = m THEN Failed(page[s].shown[x]) ELSE page[s].shown[x]
  BY <1>1, <1>4, FailTypes
<1> HIDE DEF q
<1>7. q \in Pages(drawn') BY <1>1, <1>6
<1>8. PageTypes' BY <1>1, <1>5, <1>7, PageChange
<1> QED BY <1>2, <1>3, <1>5, <1>6, <1>8 DEF Types, FailMove

(* The rest: restart, the TTL, a sign that times out.                      *)
Living == {s \in Socket : st[s] \in {"open", "closing"}}

LEMMA TypesRestart ==
  ASSUME Types, Restart
  PROVE  /\ Types' /\ Living \subseteq Socket /\ drawn' = drawn /\ uploads' = <<>> /\ DOMAIN uploads' = {}
         /\ \A v \in Living : st'[v] = "crashed" /\ hand'[v] = <<>> /\ inbox'[v] = <<>>
         /\ \A v \in Socket \ Living : st'[v] = st[v] /\ hand'[v] = hand[v] /\ inbox'[v] = inbox[v]
         /\ DOMAIN chan' = {} /\ DOMAIN page' = {}
<1>1. HandTypes /\ ChanTypes /\ PageTypes /\ drawn \in Nat BY DEF Types, HandTypes
<1>2. /\ drawn' = drawn /\ mix' = mix /\ left' = left - 1 /\ left > 0 /\ Crash(Living) /\ Living \in SUBSET Socket
      /\ UNCHANGED <<rows, hash>> /\ uploads' = <<>>
  BY DEF Restart, Living
<1>3. /\ HandTypes' /\ ChanTypes' /\ PageTypes'
      /\ \A v \in Living : st'[v] = "crashed" /\ hand'[v] = <<>> /\ inbox'[v] = <<>>
      /\ \A v \in Socket \ Living : st'[v] = st[v] /\ hand'[v] = hand[v] /\ inbox'[v] = inbox[v]
      /\ DOMAIN chan' = DOMAIN chan \ Living /\ DOMAIN page' = DOMAIN page \ Living
  <2>1. HandTypes' /\ ChanTypes' /\ PageTypes' BY <1>1, <1>2, CrashTypes
  <2>2. Crashed(Living) BY <1>2, CrashParts
  <2> QED BY <2>1, <2>2 DEF Crashed
<1>4. DOMAIN chan \subseteq Living /\ DOMAIN page \subseteq Living BY <1>1 DEF ChanTypes, PageTypes, Living
<1>5. DOMAIN uploads' = {} /\ uploads' \in [{} -> Upload]
  <2>1. DOMAIN <<>> = {} /\ <<>> \in [{} -> Upload] OBVIOUS
  <2> QED BY <1>2, <2>1
<1>6. RowTypes'
  <2>1. UNCHANGED <<msgs, reacts, receipts, plays>> BY <1>2 DEF rows
  <2>2. left' \in Nat BY <1>2 DEF Types, RowTypes
  <2> QED BY <1>2, <1>5, <2>1, <2>2 DEF Types, RowTypes, PerReader, MessageType
<1> QED BY <1>2, <1>3, <1>4, <1>5, <1>6 DEF Types

LEMMA TypesFade ==
  ASSUME Types, Fade
  PROVE  Types'
<1>1. HandTypes /\ ChanTypes /\ PageTypes /\ drawn \in Nat /\ drawn' = drawn /\ st' = st /\ drawn' >= drawn
  BY DEF Types, HandTypes, Fade
<1>2. RowTypes' BY DEF Fade, rows, Types, RowTypes, PerReader, MessageType
<1>3. HandTypes' /\ ChanTypes' /\ PageTypes' BY <1>1, ChanSame, PageSame DEF Fade, HandTypes
<1> QED BY <1>2, <1>3 DEF Types

LEMMA TypesSign ==
  ASSUME Types, NEW s \in DOMAIN page, SignTimeout(s)
  PROVE  /\ Types' /\ s \in Socket
         /\ \E q \in Pages(drawn) : /\ page' = [page EXCEPT ![s] = q] /\ q.shown = page[s].shown
                                    /\ q.members = page[s].members /\ q.signs \subseteq page[s].signs
<1>1. HandTypes /\ ChanTypes /\ PageTypes /\ drawn \in Nat /\ drawn' = drawn /\ st' = st /\ drawn' >= drawn
  BY DEF Types, HandTypes, SignTimeout
<1>2. RowTypes' BY <1>1, RowsSame DEF SignTimeout, Types, RowTypes
<1>3. HandTypes' /\ ChanTypes' BY <1>1, ChanSame DEF SignTimeout, HandTypes
<1>4. page[s] \in Pages(drawn) /\ s \in Socket BY <1>1, PageAt
<1>5. PICK sign \in page[s].signs : page' = [page EXCEPT ![s].signs = @ \ {sign}] BY DEF SignTimeout
<1> DEFINE q == [page[s] EXCEPT !.signs = @ \ {sign}]
<1>6. /\ q \in Pages(drawn) /\ q.shown = page[s].shown
      /\ q.members = page[s].members /\ q.signs \subseteq page[s].signs
  BY <1>4 DEF Pages
<1>7. page' = [page EXCEPT ![s] = q] BY <1>5
<1> HIDE DEF q
<1>8. q \in Pages(drawn') BY <1>1, <1>6
<1>9. PageTypes' BY <1>1, <1>7, <1>8, PageChange
<1> QED BY <1>2, <1>3, <1>4, <1>6, <1>7, <1>9 DEF Types

-----------------------------------------------------------------------------
(* The room at the start.                                                  *)
LEMMA InitFacts ==
  ASSUME Init
  PROVE  /\ mix \in Mixes /\ left \in Nat /\ drawn \in Nat /\ mix.on \in SUBSET Socket
         /\ DOMAIN msgs = 1..drawn /\ \A m \in 1..drawn :
              msgs[m] \in MessageType /\ msgs[m].by \in Person /\ msgs[m].text = Cut(m) /\ msgs[m].deleted = FALSE
         /\ DOMAIN uploads = {} /\ \A s \in Socket : hand[s] = <<>> /\ inbox[s] = <<>>
         /\ \A s \in Socket : st[s] = IF s \in mix.on THEN "open" ELSE "new"
         /\ DOMAIN chan = mix.on /\ \A s \in mix.on : chan[s] = <<>>
         /\ DOMAIN page = mix.on /\ hash \subseteq Person
         /\ \A s \in mix.on :
              /\ page[s].shown = [m \in DOMAIN msgs |-> FromServer(s, msgs[m].by, msgs[m].text, 0)]
              /\ page[s].members = hash /\ page[s].signs = {} /\ page[s] \in Pages(drawn)
<1>1. mix \in Mixes /\ left \in Nat /\ mix.posted \in Seq(Person) /\ mix.on \in SUBSET Socket
  BY MixesAssumption DEF Init
<1>2. drawn = Len(mix.posted) /\ drawn \in Nat /\ \A m \in 1..drawn : mix.posted[m] \in Person
  <2> DEFINE p == mix.posted
  <2>1. drawn = Len(p) BY DEF Init
  <2> HIDE DEF p
  <2>2. p \in Seq(Person) BY <1>1 DEF p
  <2>3. Len(p) \in Nat /\ \A m \in 1..Len(p) : p[m] \in Person BY <2>2
  <2> QED BY <2>1, <2>3 DEF p
<1>3. DOMAIN msgs = 1..drawn /\ \A m \in 1..drawn :
        msgs[m] \in MessageType /\ msgs[m].by \in Person /\ msgs[m].text = Cut(m) /\ msgs[m].deleted = FALSE
  <2>1. msgs = [m \in 1..drawn |-> [by |-> mix.posted[m], text |-> Cut(m), deleted |-> FALSE, voice |-> "played" \in mix.acts]]
    BY DEF Init
  <2>2. ("played" \in mix.acts) \in BOOLEAN OBVIOUS
  <2> DEFINE v == ("played" \in mix.acts)
  <2> HIDE DEF v
  <2>3. \A m \in 1..drawn : [by |-> mix.posted[m], text |-> Cut(m), deleted |-> FALSE, voice |-> v] \in MessageType
    BY <1>2, <2>2, CutTexts DEF MessageType, Texts, v
  <2> QED BY <1>2, <2>1, <2>3 DEF v
<1>4. hash \subseteq Person BY <1>1, WhoTyped DEF Init
<1>5. ASSUME NEW s \in mix.on
      PROVE  /\ page[s].shown = [m \in DOMAIN msgs |-> FromServer(s, msgs[m].by, msgs[m].text, 0)]
             /\ page[s].members = hash /\ page[s].signs = {} /\ page[s] \in Pages(drawn)
  <2> DEFINE sh == [m \in DOMAIN msgs |-> FromServer(s, msgs[m].by, msgs[m].text, 0)]
             seen == {m \in DOMAIN msgs : <<m, Who[s]>> \in receipts}
  <2>1. page[s] = [NewPage EXCEPT !.shown = sh, !.members = hash, !.seen = seen] BY DEF Init
  <2>2. sh \in Shown(drawn)
    <3>1. ASSUME NEW m \in DOMAIN msgs PROVE FromServer(s, msgs[m].by, msgs[m].text, 0) \in Entry
      <4>1. s \in Socket /\ msgs[m].by \in Person /\ msgs[m].text \in Int /\ 0 \in Nat
        BY <1>1, <1>2, <1>3, CutTexts DEF Texts
      <4> QED BY <4>1, ServerEntry
    <3>2. DOMAIN sh = 1..drawn /\ sh \in [DOMAIN sh -> Entry] BY <1>3, <3>1
    <3> HIDE DEF sh
    <3> QED BY <3>2, ShownIn
  <2>3. seen \subseteq Nat BY <1>2, <1>3
  <2> HIDE DEF sh, seen
  <2>4. /\ page[s].shown = sh /\ page[s].members = hash /\ page[s].signs = {} /\ page[s].seen = seen /\ page[s].busy = {}
        /\ page[s] = [shown |-> sh, members |-> hash, signs |-> {}, seen |-> seen, busy |-> {}]
    BY <2>1 DEF NewPage
  <2>5. page[s] \in Pages(drawn) BY <1>4, <2>2, <2>3, <2>4 DEF Pages
  <2> QED BY <2>4, <2>5 DEF sh
<1>6. DOMAIN uploads = {}
  <2>1. DOMAIN <<>> = {} OBVIOUS
  <2> QED BY <2>1 DEF Init
<1>7. /\ \A s \in Socket : hand[s] = <<>> /\ inbox[s] = <<>> /\ st[s] = IF s \in mix.on THEN "open" ELSE "new"
      /\ DOMAIN chan = mix.on /\ (\A s \in mix.on : chan[s] = <<>>) /\ DOMAIN page = mix.on
  BY DEF Init
<1> QED BY <1>1, <1>2, <1>3, <1>4, <1>5, <1>6, <1>7

LEMMA TypesInit == ASSUME Init PROVE Types
<1> USE InitFacts
<1>1. RowTypes
  <2>1. DOMAIN reacts = {} /\ reacts \in [{} -> BOOLEAN] /\ plays = {} /\ uploads \in [{} -> Upload]
    <3>1. DOMAIN <<>> = {} /\ <<>> \in [{} -> BOOLEAN] /\ <<>> \in [{} -> Upload] OBVIOUS
    <3> QED BY <3>1 DEF Init
  <2>2. receipts \subseteq PerReader
    <3>1. receipts \subseteq (DOMAIN msgs) \X hash BY DEF Init
    <3> QED BY <3>1 DEF PerReader
  <2>3. msgs \in [DOMAIN msgs -> MessageType]
    <3>1. msgs = [m \in DOMAIN msgs |-> msgs[m]] BY DEF Init
    <3> QED BY <3>1
  <2> QED BY <2>1, <2>2, <2>3 DEF RowTypes
<1>2. HandTypes
  <2>1. st \in [Socket -> States] BY DEF Init, States
  <2>2. hand = [s \in Socket |-> hand[s]] /\ inbox = [s \in Socket |-> inbox[s]] BY DEF Init
  <2>3. ASSUME NEW s \in Socket PROVE Fine(drawn, s, st[s], <<>>, <<>>)
    <3>1. HandIn(drawn, s, <<>>) /\ ~Departing(<<>>) BY Hand1, WhoTyped, Departure
    <3> QED BY <3>1 DEF Fine, Box, States
  <2> QED BY <2>1, <2>2, <2>3 DEF HandTypes
<1>3. ChanTypes
  <2>1. Queue(drawn, <<>>) BY DEF Queue
  <2>2. chan = [s \in DOMAIN chan |-> chan[s]] BY DEF Init
  <2>3. DOMAIN chan = {s \in Socket : st[s] \in {"open", "closing"}} OBVIOUS
  <2> QED BY <2>1, <2>2, <2>3 DEF ChanTypes
<1>4. PageTypes
  <2>1. page = [s \in DOMAIN page |-> page[s]] BY DEF Init
  <2>2. DOMAIN page = {s \in Socket : st[s] = "open"} OBVIOUS
  <2> QED BY <2>1, <2>2 DEF PageTypes
<1> QED BY <1>1, <1>2, <1>3, <1>4 DEF Types

LEMMA TypesSame == ASSUME Types, UNCHANGED vars PROVE Types'
<1>1. UNCHANGED <<mix, left, drawn, msgs, reacts, receipts, plays, hash, st, hand, inbox, chan, page, uploads>>
  BY DEF vars
<1>2. RowTypes' BY <1>1 DEF Types, RowTypes, PerReader, MessageType
<1>3. HandTypes' BY <1>1 DEF Types, HandTypes
<1>4. ChanTypes' BY <1>1 DEF Types, ChanTypes
<1>5. PageTypes' BY <1>1 DEF Types, PageTypes
<1> QED BY <1>2, <1>3, <1>4, <1>5 DEF Types

LEMMA TypesNext == ASSUME Types, [Next]_vars PROVE Types'
<1>1. ASSUME NEW s \in Socket, ConsumerStep(s) PROVE Types'
  <2>1. CASE Connect(s) BY <2>1, TypesConnect
  <2>2. CASE History(s) BY <2>2, HistoryEffect
  <2>3. CASE Join(s) BY <2>3, TypesJoin
  <2>4. CASE Snapshot(s) BY <2>4, TypesSnapshot
  <2>5. CASE Leave(s) BY <2>5, TypesLeave
  <2>6. CASE Discard(s) BY <2>6, TypesDiscard
  <2>7. CASE Broadcast(s) BY <2>7, TypesBroadcast
  <2>8. CASE Fanout(s) BY <2>8, FanoutEffect
  <2>9. CASE Allow(s) BY <2>9, TypesAllow
  <2>10. CASE CreateMessage(s) BY <2>10, TypesCreate
  <2>11. CASE Status(s) BY <2>11, TypesStatus
  <2>12. CASE ReadMessages(s) BY <2>12, TypesRead
  <2>13. CASE PlayMessage(s) BY <2>13, TypesPlay
  <2>14. CASE Toggle(s) BY <2>14, TypesToggle
  <2>15. CASE EditMessage(s) BY <2>15, TypesEdit
  <2>16. CASE DeleteMessage(s) BY <2>16, TypesDelete
  <2> QED BY <1>1, <2>1, <2>2, <2>3, <2>4, <2>5, <2>6, <2>7, <2>8, <2>9, <2>10, <2>11, <2>12, <2>13, <2>14,
             <2>15, <2>16 DEF ConsumerStep
<1>2. ASSUME NEW s \in DOMAIN page, PageStep(s) PROVE Types'
  <2>1. CASE Send(s) BY <2>1, TypesSend
  <2>2. CASE CloseSocket(s) BY <2>2, TypesClose
  <2>3. CASE SendVoice(s) BY <2>3, TypesSendVoice
  <2>4. ASSUME NEW type \in {"typing", "recording"}, Start(s, type) \/ Stop(s, type) PROVE Types'
    BY <2>4, TypesStart DEF Kinds
  <2>5. ASSUME NEW m \in DOMAIN page[s].shown, React(s, m) PROVE Types' BY <2>5, TypesReact
  <2>6. ASSUME NEW m \in DOMAIN page[s].shown, CommitEdit(s, m) PROVE Types' BY <2>6, TypesCommitEdit
  <2>7. ASSUME NEW m \in DOMAIN page[s].shown, Del(s, m) PROVE Types' BY <2>7, TypesDel
  <2>8. ASSUME NEW m \in DOMAIN page[s].shown, Play(s, m) PROVE Types' BY <2>8, TypesPlayed
  <2> QED BY <1>2, <2>1, <2>2, <2>3, <2>4, <2>5, <2>6, <2>7, <2>8 DEF PageStep
<1>3. ASSUME NEW s \in DOMAIN page, SignTimeout(s) PROVE Types' BY <1>3, TypesSign
<1>4. CASE UploadStep
  <2>1. ASSUME NEW m \in DOMAIN uploads, Store(m) PROVE Types' BY <2>1, TypesStore
  <2>2. ASSUME NEW m \in DOMAIN uploads, Announce(m) PROVE Types' BY <2>2, TypesAnnounce
  <2>3. ASSUME NEW m \in DOMAIN uploads, Refuse(m) PROVE Types' BY <2>3, TypesRefuse
  <2>4. ASSUME NEW s \in DOMAIN page, NEW m \in DOMAIN page[s].shown, LoseAnswer(s, m) PROVE Types'
    BY <2>4, TypesLoseAnswer
  <2> QED BY <1>4, <2>1, <2>2, <2>3, <2>4 DEF UploadStep
<1>5. CASE Restart BY <1>5, TypesRestart
<1>6. CASE Fade BY <1>6, TypesFade
<1>7. CASE UNCHANGED vars BY <1>7, TypesSame
<1> QED BY <1>1, <1>2, <1>3, <1>4, <1>5, <1>6, <1>7 DEF Next

LEMMA TypesImply == ASSUME Types PROVE TypeOK
<1>1. ASSUME NEW s \in Socket, st[s] \in {"new", "gone", "crashed"} PROVE Todo(s) = <<>>
  BY <1>1 DEF Types, HandTypes, Fine, Todo
<1>2. ASSUME NEW s \in DOMAIN page, NEW m \in DOMAIN page[s].shown
      PROVE  page[s].shown[m].tick \in Ticks /\ page[s].shown[m].count \in Nat
  <2>1. page[s] \in Pages(drawn) BY PageAt DEF Types
  <2>2. page[s].shown[m] \in Entry BY <2>1, PageGet, EntryGet
  <2> QED BY <2>2 DEF Entry
<1> QED BY <1>1, <1>2 DEF Types, RowTypes, ChanTypes, PageTypes, TypeOK

LEMMA TypesHold == Spec => []Types
<1>1. Init => Types BY TypesInit
<1>2. Types /\ [Next]_vars => Types' BY TypesNext
<1> QED BY <1>1, <1>2, PTL DEF Spec

(* Rows, pages and consumers keep their types, whatever the mix: a socket  *)
(* is in the group exactly while its consumer lives, it has a page until   *)
(* it closes, and a consumer that has ended has nothing left to do.        *)
THEOREM TypeOKHolds == Spec => []TypeOK
<1>1. Types => TypeOK BY TypesImply
<1> QED BY <1>1, TypesHold, PTL

-----------------------------------------------------------------------------
(* The frames of an inbox, and the events of a channel.                    *)
LEMMA RangeEmpty == Range(<<>>) = {}
BY DEF Range

LEMMA RangeAppend ==
  ASSUME NEW S, NEW q \in Seq(S), NEW x \in S
  PROVE  Range(Append(q, x)) = Range(q) \cup {x}
<1>1. /\ Len(q) \in Nat /\ DOMAIN q = 1..Len(q) /\ DOMAIN Append(q, x) = 1..(Len(q) + 1)
      /\ \A k \in 1..Len(q) : Append(q, x)[k] = q[k]
      /\ Append(q, x)[Len(q)+1] = x
  OBVIOUS
<1>2. ASSUME NEW y \in Range(Append(q, x)) PROVE y \in Range(q) \cup {x}
  <2>1. PICK k \in 1..(Len(q) + 1) : Append(q, x)[k] = y BY <1>1 DEF Range
  <2>2. k \in 1..Len(q) \/ k = Len(q) + 1 BY <1>1
  <2> QED BY <1>1, <2>1, <2>2 DEF Range
<1>3. ASSUME NEW y \in Range(q) PROVE y \in Range(Append(q, x))
  <2>1. PICK k \in 1..Len(q) : q[k] = y BY <1>1 DEF Range
  <2>2. k \in 1..(Len(q) + 1) BY <1>1
  <2> QED BY <1>1, <2>1, <2>2 DEF Range
<1>4. x \in Range(Append(q, x))
  <2>1. Len(q) + 1 \in 1..(Len(q) + 1) BY <1>1
  <2> QED BY <1>1, <2>1 DEF Range
<1> QED BY <1>2, <1>3, <1>4

LEMMA RangeTail ==
  ASSUME NEW S, NEW q \in Seq(S), q # <<>>
  PROVE  Head(q) \in Range(q) /\ Head(q) \in S /\ Range(q) = {Head(q)} \cup Range(Tail(q))
<1>1. /\ Head(q) = q[1] /\ Head(q) \in S /\ Len(q) \in Nat \ {0} /\ 1 \in 1..Len(q)
      /\ Tail(q) \in Seq(S) /\ Len(Tail(q)) = Len(q) - 1 /\ Len(Tail(q)) \in Nat
      /\ \A k \in 1..Len(Tail(q)) : k+1 \in 1..Len(q) /\ Tail(q)[k] = q[k+1]
  BY HeadTail
<1>2. DOMAIN q = 1..Len(q) /\ DOMAIN Tail(q) = 1..Len(Tail(q)) BY <1>1
<1>3. Head(q) \in Range(q) BY <1>1, <1>2 DEF Range
<1>4. ASSUME NEW y \in Range(Tail(q)) PROVE y \in Range(q)
  <2>1. PICK k \in 1..Len(Tail(q)) : Tail(q)[k] = y BY <1>2, <1>4 DEF Range
  <2> QED BY <1>1, <1>2, <2>1 DEF Range
<1>5. ASSUME NEW y \in Range(q), y # Head(q) PROVE y \in Range(Tail(q))
  <2>1. PICK k \in 1..Len(q) : q[k] = y BY <1>2, <1>5 DEF Range
  <2>2. k # 1 BY <1>1, <1>5, <2>1
  <2>3. k-1 \in 1..Len(Tail(q)) /\ (k-1)+1 = k BY <1>1, <2>2
  <2>4. Tail(q)[k-1] = q[k] BY <1>1, <2>3
  <2> QED BY <1>2, <2>1, <2>3, <2>4 DEF Range
<1> QED BY <1>1, <1>3, <1>4, <1>5

LEMMA MoveParts ==
  ASSUME HandTypes, NEW s \in Socket, NEW h, NEW b, Move(s, h, b)
  PROVE  /\ hand'[s] = h /\ inbox'[s] = b
         /\ \A v \in Socket \ {s} : hand'[v] = hand[v] /\ inbox'[v] = inbox[v]
BY DEF Move, HandTypes

LEMMA PageParts ==
  ASSUME PageTypes, NEW s \in DOMAIN page, NEW q, page' = [page EXCEPT ![s] = q]
  PROVE  DOMAIN page' = DOMAIN page /\ page'[s] = q /\ \A v \in DOMAIN page \ {s} : page'[v] = page[v]
BY DEF PageTypes

LEMMA InboxParts ==
  ASSUME HandTypes, NEW s \in Socket, NEW b, inbox' = [inbox EXCEPT ![s] = b]
  PROVE  inbox'[s] = b /\ \A v \in Socket \ {s} : inbox'[v] = inbox[v]
BY DEF HandTypes

LEMMA HandParts ==
  ASSUME HandTypes, NEW s \in Socket, NEW h, hand' = [hand EXCEPT ![s] = h]
  PROVE  hand'[s] = h /\ \A v \in Socket \ {s} : hand'[v] = hand[v]
BY DEF HandTypes

(* The frames and events there are, by their types.                        *)
LEMMA Boxed ==
  ASSUME HandTypes, NEW s \in Socket
  PROVE  inbox[s] \in Seq(Event) /\ \A f \in Range(inbox[s]) : FrameIn(drawn, s, f)
<1>1. Box(drawn, s, inbox[s]) BY DEF HandTypes, Fine
<1>2. DOMAIN inbox[s] = 1..Len(inbox[s]) BY <1>1 DEF Box
<1> QED BY <1>1, <1>2 DEF Box, Range

LEMMA Queued ==
  ASSUME ChanTypes, NEW s \in DOMAIN chan
  PROVE  s \in Socket /\ chan[s] \in Seq(Event) /\ \A ev \in Range(chan[s]) : EventIn(drawn, ev)
<1>1. Queue(drawn, chan[s]) /\ s \in Socket BY DEF ChanTypes
<1>2. DOMAIN chan[s] = 1..Len(chan[s]) BY <1>1 DEF Queue
<1> QED BY <1>1, <1>2 DEF Queue, Range

(* What an inbox holds once its first frame is taken, or one is added.     *)
LEMMA BoxTail ==
  ASSUME HandTypes, NEW s \in Socket, NEW f, Begins(s, f)
  PROVE  f \in Range(inbox[s]) /\ Range(inbox[s]) = {f} \cup Range(Tail(inbox[s])) /\ FrameIn(drawn, s, f)
BY Boxed, RangeTail DEF Begins

LEMMA BoxAppend ==
  ASSUME HandTypes, NEW s \in Socket, NEW f \in Event
  PROVE  Range(Append(inbox[s], f)) = Range(inbox[s]) \cup {f}
BY Boxed, RangeAppend

LEMMA BoxReported ==
  ASSUME HandTypes, NEW s \in Socket, NEW b, Reported(drawn, s, inbox[s], b)
  PROVE  Range(inbox[s]) \subseteq Range(b) /\ \A f \in Range(b) : f \in Range(inbox[s]) \/ f.type = "read"
<1>1. ASSUME NEW f, FrameIn(drawn, s, f), f.type = "read", b = Append(inbox[s], f)
      PROVE  Range(b) = Range(inbox[s]) \cup {f}
  BY <1>1, BoxAppend DEF FrameIn, Own
<1> QED BY <1>1 DEF Reported

LEMMA ChanAppend ==
  ASSUME ChanTypes, NEW ev \in Event, chan' = Everyone(ev)
  PROVE  DOMAIN chan' = DOMAIN chan /\ \A v \in DOMAIN chan : Range(chan'[v]) = Range(chan[v]) \cup {ev}
<1>1. DOMAIN chan' = DOMAIN chan /\ \A v \in DOMAIN chan : chan'[v] = Append(chan[v], ev) BY DEF Everyone
<1>2. ASSUME NEW v \in DOMAIN chan PROVE Range(Append(chan[v], ev)) = Range(chan[v]) \cup {ev}
  BY Queued, RangeAppend
<1> QED BY <1>1, <1>2

LEMMA ChanTaken ==
  ASSUME ChanTypes, NEW s \in DOMAIN chan, chan[s] # <<>>, chan' = [chan EXCEPT ![s] = Tail(chan[s])]
  PROVE  /\ DOMAIN chan' = DOMAIN chan /\ Range(chan[s]) = {Head(chan[s])} \cup Range(chan'[s])
         /\ chan'[s] = Tail(chan[s]) /\ EventIn(drawn, Head(chan[s])) /\ Head(chan[s]) \in Range(chan[s])
         /\ \A v \in DOMAIN chan \ {s} : chan'[v] = chan[v]
<1>1. /\ DOMAIN chan' = DOMAIN chan /\ chan'[s] = Tail(chan[s])
      /\ \A v \in DOMAIN chan \ {s} : chan'[v] = chan[v]
  BY DEF ChanTypes
<1> QED BY <1>1, Queued, RangeTail

(* What a hand awaits, and the hands that are neither sending nor telling. *)
LEMMA HandShapes ==
  ASSUME NEW s \in Socket
  PROVE  LET i == Who[s] IN
         /\ Head(Joining1(i)).await = "history" /\ Head(Joining2(i)).await = "join"
         /\ Head(Joining3(i)).await = "cast" /\ Head(Joining3(i)).ev = Hello(i) /\ Hello(i).type = "join"
         /\ Head(Joining4(i)).await = "snapshot"
         /\ Head(Leaving2(i)).await = "cast" /\ Head(Leaving2(i)).ev = As(Bye(i), "recording_stop")
         /\ As(Bye(i), "recording_stop").type = "recording_stop"
         /\ Head(Leaving3(i)).await = "leave"
         /\ Head(Leaving4(i)).await = "cast" /\ Head(Leaving4(i)).ev = As(Bye(i), "leave")
         /\ As(Bye(i), "leave").type = "leave"
         /\ Head(Leaving5(i)).await = "discard"
<1>1. Hello(Who[s]).type = "join" /\ As(Bye(Who[s]), "recording_stop").type = "recording_stop"
      /\ As(Bye(Who[s]), "leave").type = "leave"
  BY WhoTyped, Events DEF EventTypes
<1>2. LET i == Who[s] IN
      /\ Head(Joining1(i)).await = "history" /\ Head(Joining2(i)).await = "join"
      /\ Head(Joining3(i)).await = "cast" /\ Head(Joining3(i)).ev = Hello(i)
      /\ Head(Joining4(i)).await = "snapshot"
  BY JoiningHands, DoParts, CastParts
<1>3. LET i == Who[s] IN
      /\ Head(Leaving2(i)).await = "cast" /\ Head(Leaving2(i)).ev = As(Bye(i), "recording_stop")
      /\ Head(Leaving3(i)).await = "leave"
      /\ Head(Leaving4(i)).await = "cast" /\ Head(Leaving4(i)).ev = As(Bye(i), "leave")
      /\ Head(Leaving5(i)).await = "discard"
  BY LeavingHands, DoParts, CastParts
<1> QED BY <1>1, <1>2, <1>3

LEMMA FrameShapes ==
  ASSUME NEW f
  PROVE  /\ Head(Sends(f)).await = "cast" /\ Head(Sends(f)).ev = f /\ Sends(f) # <<>>
         /\ Head(Reports(f)).await = "status" /\ Head(Reports(f)).ev = f /\ Reports(f) # <<>>
         /\ Head(Tells(f)).await = "cast" /\ Head(Tells(f)).ev = f /\ Tells(f) # <<>>
BY FrameHands, DoParts, CastParts

(* The event that is cast is the one in hand, unless a frame is passed on  *)
(* or a disconnect begins.                                                 *)
LEMMA CastFacts ==
  ASSUME HandTypes, NEW s \in Socket, NEW ev, NEW h, NEW b, CastCase(s, ev, h, b)
  PROVE  /\ Range(b) \subseteq Range(inbox[s])
         /\ \/ hand[s] # <<>> /\ Head(hand[s]).await = "cast" /\ Head(hand[s]).ev = ev /\ b = inbox[s]
            \/ hand[s] = <<>> /\ ev.type \in {"typing_stop", "recording_stop"} /\ b = Tail(inbox[s])
         /\ \/ h = <<>>
            \/ ev.type = "message" /\ h = Reports(ev)
            \/ ev.type \notin Named \cup {"message"} /\ Head(h).await \in {"snapshot", "leave", "discard"}
            \/ ev.type = "typing_stop" /\ h # <<>> /\ Head(h).await = "cast" /\ Head(h).ev.type = "recording_stop"
<1> USE DEF Named
<1>1. CASE hand[s] = Joining3(Who[s]) /\ ev = Hello(Who[s]) /\ h = Joining4(Who[s]) /\ b = inbox[s]
  BY <1>1, HandShapes, JoiningHands
<1>2. CASE hand[s] = Leaving2(Who[s]) /\ ev = As(Bye(Who[s]), "recording_stop") /\ h = Leaving3(Who[s]) /\ b = inbox[s]
  BY <1>2, HandShapes, LeavingHands
<1>3. CASE hand[s] = Leaving4(Who[s]) /\ ev = As(Bye(Who[s]), "leave") /\ h = Leaving5(Who[s]) /\ b = inbox[s]
  BY <1>3, HandShapes, LeavingHands
<1>4. CASE Own(drawn, s, ev) /\ ev.type = "message" /\ hand[s] = Sends(ev) /\ h = Reports(ev) /\ b = inbox[s]
  BY <1>4, FrameShapes
<1>5. CASE Own(drawn, s, ev) /\ ev.type \in Kinds \cup Named /\ hand[s] = Tells(ev) /\ h = <<>> /\ b = inbox[s]
  BY <1>5, FrameShapes
<1>6. CASE Begins(s, ev) /\ ev.type \in {"typing_stop", "recording_stop"} /\ h = <<>> /\ b = Tail(inbox[s])
  BY <1>6, BoxTail DEF Begins
<1>7. CASE Begins(s, Bye(Who[s])) /\ ev = As(Bye(Who[s]), "typing_stop") /\ h = Leaving2(Who[s]) /\ b = Tail(inbox[s])
  <2>1. ev.type = "typing_stop" BY <1>7, WhoTyped, Events DEF EventTypes
  <2> QED BY <1>7, <2>1, BoxTail, HandShapes, LeavingHands DEF Begins
<1> QED BY <1>1, <1>2, <1>3, <1>4, <1>5, <1>6, <1>7 DEF CastCase

-----------------------------------------------------------------------------
(* Receipts are earned.  au tells who wrote each message drawn so far.  A  *)
(* read or played event names receipts that are in the rows, of somebody   *)
(* who is not the author; and everything that names a message in flight    *)
(* agrees on who wrote it.                                                 *)
FrameSound(au, s, f) == f.type = "message" => Who[s] = au[f.m]
Sound(au, rs, ps, ev) ==
  /\ ev.type = "message" => ev.who = au[ev.m]
  /\ ev.type = "read" => \A m \in ev.ids : <<m, ev.who>> \in rs /\ au[m] # ev.who
  /\ ev.type = "played" => <<ev.m, ev.who>> \in ps /\ au[ev.m] # ev.who
HandSound(au, rs, ps, h) == h # <<>> /\ Head(h).await \in {"cast", "status"} => Sound(au, rs, ps, Head(h).ev)
EntrySound(au, rs, ps, s, m, e) ==
  /\ e.by = au[m]
  /\ e.bubble # "none" /\ e.tick = "read" => \E i \in Person \ {Who[s]} : <<m, i>> \in rs
  /\ e.played => \E i \in Person \ {Who[s]} : <<m, i>> \in ps

Earned(au) ==
  /\ \A m \in DOMAIN msgs : msgs[m].by = au[m]
  /\ \A m \in DOMAIN uploads : Who[uploads[m].by] = au[m]
  /\ \A s \in Socket : \A f \in Range(inbox[s]) : FrameSound(au, s, f)
  /\ \A s \in Socket : HandSound(au, receipts, plays, hand[s])
  /\ \A s \in DOMAIN chan : \A ev \in Range(chan[s]) : Sound(au, receipts, plays, ev)
  /\ \A s \in DOMAIN page : \A m \in DOMAIN page[s].shown :
       EntrySound(au, receipts, plays, s, m, page[s].shown[m])
Authors == \E au \in [1..drawn -> Person] : Earned(au)

(* What a hand says is of a message drawn.                                 *)
LEMMA HandDrawn ==
  ASSUME HandTypes, NEW s \in Socket, hand[s] # <<>>, Head(hand[s]).await \in {"cast", "status"}
  PROVE  /\ Head(hand[s]).ev \in Event
         /\ Head(hand[s]).ev.type = "message" => Head(hand[s]).ev.m \in 1..drawn
<1>1. HandIn(drawn, s, hand[s]) /\ drawn \in Nat BY DEF HandTypes, Fine
<1>2. ASSUME NEW f \in Event, Own(drawn, s, f), hand[s] \in {Sends(f), Reports(f), Tells(f)} PROVE Head(hand[s]).ev = f
  BY <1>2, FrameShapes
<1>3. Hello(Who[s]) \in Event /\ As(Bye(Who[s]), "recording_stop") \in Event /\ As(Bye(Who[s]), "leave") \in Event
  BY WhoTyped, Events DEF EventTypes
<1> QED BY <1>1, <1>2, <1>3, Fronts, HandShapes DEF Own, Drawn

LEMMA SoundGrows ==
  ASSUME NEW n \in Nat, NEW au, NEW au2, \A m \in 1..n : au2[m] = au[m],
         NEW rs, NEW rs2, rs \subseteq (1..n) \X Person, rs \subseteq rs2,
         NEW ps, NEW ps2, ps \subseteq (1..n) \X Person, ps \subseteq ps2,
         NEW ev, ev.type = "message" => ev.m \in 1..n, Sound(au, rs, ps, ev)
  PROVE  Sound(au2, rs2, ps2, ev)
<1>1. ev.type = "read" => \A m \in ev.ids : <<m, ev.who>> \in rs2 /\ au2[m] # ev.who
  <2>1. ASSUME ev.type = "read", NEW m \in ev.ids PROVE <<m, ev.who>> \in rs /\ au[m] # ev.who /\ m \in 1..n
    BY <2>1 DEF Sound
  <2> QED BY <2>1
<1>2. ev.type = "played" => <<ev.m, ev.who>> \in ps2 /\ au2[ev.m] # ev.who
  <2>1. ev.type = "played" => <<ev.m, ev.who>> \in ps /\ au[ev.m] # ev.who /\ ev.m \in 1..n
    BY DEF Sound
  <2> QED BY <2>1
<1> QED BY <1>1, <1>2 DEF Sound

(* Every step leaves what was sound sound, and adds only what is.          *)
LEMMA EarnedStep ==
  ASSUME Types, drawn' \in Nat, drawn' >= drawn, NEW au, NEW au2, Earned(au), \A m \in 1..drawn : au2[m] = au[m],
         receipts \subseteq receipts', plays \subseteq plays',
         \A m \in DOMAIN msgs' : (m \in DOMAIN msgs /\ msgs'[m].by = msgs[m].by) \/ msgs'[m].by = au2[m],
         \A m \in DOMAIN uploads' : (m \in DOMAIN uploads /\ uploads'[m].by = uploads[m].by) \/ Who[uploads'[m].by] = au2[m],
         \A v \in Socket : \A f \in Range(inbox'[v]) : f \in Range(inbox[v]) \/ FrameSound(au2, v, f),
         \A v \in Socket : hand'[v] = hand[v] \/ HandSound(au2, receipts', plays', hand'[v]),
         \A v \in DOMAIN chan' : \A ev \in Range(chan'[v]) :
           (v \in DOMAIN chan /\ ev \in Range(chan[v])) \/ Sound(au2, receipts', plays', ev),
         \A v \in DOMAIN page' : \A m \in DOMAIN page'[v].shown :
           \/ v \in DOMAIN page /\ m \in DOMAIN page[v].shown /\ page'[v].shown[m] = page[v].shown[m]
           \/ EntrySound(au2, receipts', plays', v, m, page'[v].shown[m])
  PROVE  Earned(au2)'
<1>1. /\ HandTypes /\ ChanTypes /\ PageTypes /\ drawn \in Nat
      /\ receipts \subseteq (1..drawn) \X Person /\ plays \subseteq (1..drawn) \X Person
      /\ DOMAIN msgs \subseteq 1..drawn /\ DOMAIN uploads \subseteq 1..drawn
  BY DEF Types, RowTypes, PerReader
<1>2. ASSUME NEW ev, ev.type = "message" => ev.m \in 1..drawn, Sound(au, receipts, plays, ev)
      PROVE  Sound(au2, receipts', plays', ev)
  BY <1>1, <1>2, SoundGrows
<1>3. \A m \in DOMAIN msgs' : msgs'[m].by = au2[m] BY <1>1 DEF Earned
<1>4. \A m \in DOMAIN uploads' : Who[uploads'[m].by] = au2[m] BY <1>1 DEF Earned
<1>5. ASSUME NEW v \in Socket, NEW f \in Range(inbox'[v]) PROVE FrameSound(au2, v, f)
  <2>1. CASE f \in Range(inbox[v])
    <3>1. FrameSound(au, v, f) BY <2>1 DEF Earned
    <3>2. f.type = "message" => f.m \in 1..drawn BY <1>1, <2>1, Boxed DEF FrameIn, Own, Drawn
    <3> QED BY <3>1, <3>2 DEF FrameSound
  <2> QED BY <2>1
<1>6. ASSUME NEW v \in Socket PROVE HandSound(au2, receipts', plays', hand'[v])
  <2>1. ASSUME hand'[v] = hand[v], hand[v] # <<>>, Head(hand[v]).await \in {"cast", "status"}
        PROVE  Sound(au2, receipts', plays', Head(hand[v]).ev)
    <3>1. Sound(au, receipts, plays, Head(hand[v]).ev) BY <2>1 DEF Earned, HandSound
    <3> QED BY <1>1, <1>2, <2>1, <3>1, HandDrawn
  <2> QED BY <2>1 DEF HandSound
<1>7. ASSUME NEW v \in DOMAIN chan', NEW ev \in Range(chan'[v]) PROVE Sound(au2, receipts', plays', ev)
  <2>1. ASSUME v \in DOMAIN chan, ev \in Range(chan[v]) PROVE Sound(au2, receipts', plays', ev)
    <3>1. Sound(au, receipts, plays, ev) BY <2>1 DEF Earned
    <3>2. EventIn(drawn, ev) BY <1>1, <2>1, Queued
    <3> QED BY <1>2, <3>1, <3>2 DEF EventIn, Drawn
  <2> QED BY <2>1
<1>8. ASSUME NEW v \in DOMAIN page', NEW m \in DOMAIN page'[v].shown
      PROVE  EntrySound(au2, receipts', plays', v, m, page'[v].shown[m])
  <2>1. ASSUME v \in DOMAIN page, m \in DOMAIN page[v].shown, page'[v].shown[m] = page[v].shown[m]
        PROVE  EntrySound(au2, receipts', plays', v, m, page'[v].shown[m])
    <3>1. EntrySound(au, receipts, plays, v, m, page[v].shown[m]) BY <2>1 DEF Earned
    <3>2. m \in 1..drawn BY <1>1, <2>1, PageAt, PageGet, ShownIn
    <3> QED BY <2>1, <3>1, <3>2 DEF EntrySound
  <2> QED BY <2>1
<1> QED BY <1>3, <1>4, <1>5, <1>6, <1>7, <1>8 DEF Earned

LEMMA EntryKeeps ==
  ASSUME NEW au, NEW rs, NEW rs2, rs \subseteq rs2, NEW ps, NEW ps2, ps \subseteq ps2, NEW s, NEW m, NEW e, NEW g,
         EntrySound(au, rs, ps, s, m, e), g.by = e.by, g.played => e.played,
         g.bubble # "none" /\ g.tick = "read" => e.bubble # "none" /\ e.tick = "read"
  PROVE  EntrySound(au, rs2, ps2, s, m, g)
BY DEF EntrySound

(* Steps that draw no number and touch neither uploads nor authors, of a   *)
(* consumer whose hand becomes h and whose inbox becomes b.                *)
LEMMA EarnedMove ==
  ASSUME Types, drawn' = drawn, NEW au, Earned(au), NEW s \in Socket, NEW h, NEW b, Move(s, h, b),
         UNCHANGED uploads, DOMAIN msgs' = DOMAIN msgs, \A m \in DOMAIN msgs : msgs'[m].by = msgs[m].by,
         receipts \subseteq receipts', plays \subseteq plays',
         \A f \in Range(b) : f \in Range(inbox[s]) \/ f.type # "message",
         HandSound(au, receipts', plays', h),
         \A v \in DOMAIN chan' : \A ev \in Range(chan'[v]) :
           (v \in DOMAIN chan /\ ev \in Range(chan[v])) \/ Sound(au, receipts', plays', ev),
         \A v \in DOMAIN page' : \A m \in DOMAIN page'[v].shown :
           \/ v \in DOMAIN page /\ m \in DOMAIN page[v].shown /\ page'[v].shown[m] = page[v].shown[m]
           \/ EntrySound(au, receipts', plays', v, m, page'[v].shown[m])
  PROVE  Earned(au)'
<1>1. HandTypes /\ drawn' \in Nat /\ drawn' >= drawn BY DEF Types, HandTypes
<1>2. hand'[s] = h /\ inbox'[s] = b /\ \A v \in Socket \ {s} : hand'[v] = hand[v] /\ inbox'[v] = inbox[v]
  BY <1>1, MoveParts
<1>3. \A v \in Socket : hand'[v] = hand[v] \/ HandSound(au, receipts', plays', hand'[v]) BY <1>2
<1>4. \A v \in Socket : \A f \in Range(inbox'[v]) : f \in Range(inbox[v]) \/ FrameSound(au, v, f)
  BY <1>2 DEF FrameSound
<1> QED BY <1>1, <1>3, <1>4, EarnedStep

(* Hands that say nothing of a message.                                    *)
LEMMA HandSilent ==
  ASSUME NEW au, NEW rs, NEW ps, NEW h, h # <<>> => Head(h).await \notin {"cast", "status"}
  PROVE  HandSound(au, rs, ps, h)
BY DEF HandSound

LEMMA EarnedSimple ==
  ASSUME Types, NEW au, Earned(au), NEW s \in Socket, Join(s) \/ Leave(s) \/ Snapshot(s) \/ Allow(s)
  PROVE  Earned(au)'
<1>1. HandTypes /\ ChanTypes /\ PageTypes /\ drawn \in Nat BY DEF Types, HandTypes
<1>2. UNCHANGED <<drawn, rows, chan, uploads>> BY DEF Join, Leave, Snapshot, Allow
<1>3. UNCHANGED <<msgs, reacts, receipts, plays>> BY <1>2 DEF rows
<1>4. \E h, b : /\ Move(s, h, b) /\ Range(b) \subseteq Range(inbox[s]) /\ HandSound(au, receipts, plays, h)
  <2>1. CASE Join(s)
    <3>1. Move(s, Joining3(Who[s]), inbox[s]) BY <2>1, TypesJoin DEF JoinMove
    <3>2. HandSound(au, receipts, plays, Joining3(Who[s])) BY HandShapes DEF HandSound, Sound
    <3> QED BY <3>1, <3>2
  <2>2. CASE Leave(s)
    <3>1. Move(s, Leaving4(Who[s]), inbox[s]) BY <2>2, TypesLeave DEF LeaveMove
    <3>2. HandSound(au, receipts, plays, Leaving4(Who[s])) BY HandShapes DEF HandSound, Sound
    <3> QED BY <3>1, <3>2
  <2>3. CASE Snapshot(s)
    <3>1. Move(s, <<>>, inbox[s]) BY <2>3, TypesSnapshot DEF SnapshotMove
    <3>2. HandSound(au, receipts, plays, <<>>) BY DEF HandSound
    <3> QED BY <3>1, <3>2
  <2>4. CASE Allow(s)
    <3>1. /\ Move(s, <<>>, Tail(inbox[s])) \/ Move(s, Tells(Arg(s)), Tail(inbox[s]))
          /\ Begins(s, Arg(s)) /\ Arg(s).type \in Kinds
      BY <2>4, TypesAllow DEF TellMove
    <3>2. HandSound(au, receipts, plays, <<>>) BY DEF HandSound
    <3>3. HandSound(au, receipts, plays, Tells(Arg(s))) BY <3>1, FrameShapes DEF HandSound, Sound, Kinds
    <3>4. Range(Tail(inbox[s])) \subseteq Range(inbox[s]) BY <1>1, <3>1, BoxTail
    <3> QED BY <3>1, <3>2, <3>3, <3>4
  <2> QED BY <2>1, <2>2, <2>3, <2>4
<1>5. \A v \in DOMAIN page' : v \in DOMAIN page /\ page'[v].shown = page[v].shown
  <2>1. CASE ~Snapshot(s) BY <2>1 DEF Join, Leave, Allow
  <2>2. CASE Snapshot(s) /\ s \in DOMAIN page
    <3> DEFINE q == [page[s] EXCEPT !.members = hash \cup {Who[s]}]
    <3>1. page' = [page EXCEPT ![s] = q] BY <2>2 DEF Snapshot
    <3>2. q.shown = page[s].shown BY <1>1, <2>2, PageAt DEF Pages
    <3> HIDE DEF q
    <3> QED BY <1>1, <2>2, <3>1, <3>2, PageParts
  <2>3. CASE Snapshot(s) /\ s \notin DOMAIN page BY <2>3 DEF Snapshot
  <2> QED BY <2>1, <2>2, <2>3
<1>6. PICK h, b : /\ Move(s, h, b) /\ Range(b) \subseteq Range(inbox[s]) /\ HandSound(au, receipts, plays, h) BY <1>4
<1> QED BY <1>2, <1>3, <1>5, <1>6, EarnedMove

LEMMA EarnedConnect ==
  ASSUME Types, NEW au, Earned(au), NEW s \in Socket, Connect(s)
  PROVE  Earned(au)'
<1>1. HandTypes /\ ChanTypes /\ PageTypes /\ drawn \in Nat BY DEF Types, HandTypes
<1>2. /\ drawn' = drawn /\ UNCHANGED <<rows, uploads, inbox>> /\ chan' = Put(chan, s, <<>>)
      /\ page' = Put(page, s, NewPage) /\ hand' = [hand EXCEPT ![s] = Joining1(Who[s])]
  BY DEF Connect, Joining1
<1>3. UNCHANGED <<msgs, reacts, receipts, plays>> BY <1>2 DEF rows
<1>4. Move(s, Joining1(Who[s]), inbox[s]) BY <1>1, <1>2 DEF Move, HandTypes
<1>5. HandSound(au, receipts, plays, Joining1(Who[s])) BY HandShapes, HandSilent
<1>6. ASSUME NEW v \in DOMAIN chan' PROVE (v \in DOMAIN chan /\ chan'[v] = chan[v]) \/ Range(chan'[v]) = {}
  BY <1>2, RangeEmpty DEF Put
<1>7. ASSUME NEW v \in DOMAIN page' PROVE (v \in DOMAIN page /\ page'[v] = page[v]) \/ DOMAIN page'[v].shown = {}
  <2>1. DOMAIN NewPage.shown = {} BY DEF NewPage
  <2> QED BY <1>2, <2>1 DEF Put
<1> QED BY <1>2, <1>3, <1>4, <1>5, <1>6, <1>7, EarnedMove

LEMMA EarnedDiscard ==
  ASSUME Types, NEW au, Earned(au), NEW s \in Socket, Discard(s)
  PROVE  Earned(au)'
<1>1. UNCHANGED <<drawn, rows, page, uploads>> /\ chan' = Restrict(chan, DOMAIN chan \ {s}) BY DEF Discard
<1>2. UNCHANGED <<msgs, reacts, receipts, plays>> BY <1>1 DEF rows
<1>3. Move(s, <<>>, inbox[s]) BY TypesDiscard DEF DiscardMove
<1>4. HandSound(au, receipts, plays, <<>>) BY DEF HandSound
<1>5. \A v \in DOMAIN chan' : v \in DOMAIN chan /\ chan'[v] = chan[v] BY <1>1 DEF Restrict
<1> QED BY <1>1, <1>2, <1>3, <1>4, <1>5, EarnedMove

LEMMA EarnedBroadcast ==
  ASSUME Types, NEW au, Earned(au), NEW s \in Socket, Broadcast(s)
  PROVE  Earned(au)'
<1>1. HandTypes /\ ChanTypes /\ PageTypes /\ drawn \in Nat BY DEF Types, HandTypes
<1>2. UNCHANGED <<drawn, rows, page, uploads>> /\ chan' = Everyone(Arg(s)) BY DEF Broadcast
<1>3. UNCHANGED <<msgs, reacts, receipts, plays>> BY <1>2 DEF rows
<1>4. PICK h, b : CastCase(s, Arg(s), h, b) /\ Move(s, h, b) BY TypesBroadcast
<1> DEFINE ev == Arg(s)
<1>5. ev \in Event BY TypesBroadcast DEF EventIn
<1> HIDE DEF ev
<1>6. /\ Range(b) \subseteq Range(inbox[s])
      /\ \/ hand[s] # <<>> /\ Head(hand[s]).await = "cast" /\ Head(hand[s]).ev = ev
         \/ ev.type \in {"typing_stop", "recording_stop"}
      /\ \/ h = <<>>
         \/ ev.type = "message" /\ h = Reports(ev)
         \/ Head(h).await \in {"snapshot", "leave", "discard"}
         \/ ev.type = "typing_stop" /\ h # <<>> /\ Head(h).await = "cast" /\ Head(h).ev.type = "recording_stop"
  BY <1>1, <1>4, CastFacts DEF ev
<1>7. Sound(au, receipts, plays, ev)
  <2>1. CASE ev.type \in {"typing_stop", "recording_stop"} BY <2>1 DEF Sound
  <2>2. CASE hand[s] # <<>> /\ Head(hand[s]).await = "cast" /\ Head(hand[s]).ev = ev
    BY <2>2 DEF Earned, HandSound
  <2> QED BY <1>6, <2>1, <2>2
<1>8. HandSound(au, receipts, plays, h)
  <2>1. CASE h = <<>> BY <2>1 DEF HandSound
  <2>2. CASE h = Reports(ev) BY <1>7, <2>2, FrameShapes DEF HandSound
  <2>3. CASE Head(h).await \in {"snapshot", "leave", "discard"} BY <2>3, HandSilent
  <2>4. CASE Head(h).await = "cast" /\ Head(h).ev.type = "recording_stop" BY <2>4 DEF HandSound, Sound
  <2> QED BY <1>6, <2>1, <2>2, <2>3, <2>4
<1>9. DOMAIN chan' = DOMAIN chan /\ \A v \in DOMAIN chan : Range(chan'[v]) = Range(chan[v]) \cup {ev}
  BY <1>1, <1>2, <1>5, ChanAppend DEF ev
<1> QED BY <1>2, <1>3, <1>4, <1>6, <1>7, <1>8, <1>9, EarnedMove

LEMMA EarnedCreate ==
  ASSUME Types, NEW au, Earned(au), NEW s \in Socket, CreateMessage(s)
  PROVE  Earned(au)'
<1> DEFINE f == Arg(s)  g == AsStored(f)
<1>1. HandTypes /\ drawn \in Nat /\ drawn' = drawn /\ drawn' >= drawn BY DEF Types, HandTypes, CreateMessage
<1>2. UNCHANGED <<receipts, plays, uploads, chan, page>> BY DEF CreateMessage
<1>3. /\ Begins(s, f) /\ f.type = "message" /\ Move(s, Sends(g), Tail(inbox[s])) /\ Own(drawn, s, f)
      /\ DOMAIN msgs' = DOMAIN msgs \cup {f.m}
      /\ msgs'[f.m] = [by |-> Who[s], text |-> Cut(f.val), deleted |-> FALSE, voice |-> FALSE]
      /\ \A m \in DOMAIN msgs \ {f.m} : msgs'[m] = msgs[m]
  BY TypesCreate DEF CreateMove
<1> HIDE DEF f
<1>4. f \in Range(inbox[s]) /\ Range(Tail(inbox[s])) \subseteq Range(inbox[s]) BY <1>1, <1>3, BoxTail
<1>5. Who[s] = au[f.m] BY <1>3, <1>4 DEF Earned, FrameSound
<1>11. g \in Event /\ g.type = "message" /\ g.m = f.m /\ g.who = Who[s]
  BY <1>1, <1>3, StoredFrame DEF Own
<1> HIDE DEF g
<1>6. HandSound(au, receipts, plays, Sends(g)) BY <1>5, <1>11, FrameShapes DEF HandSound, Sound, Own
<1>7. /\ hand'[s] = Sends(g) /\ inbox'[s] = Tail(inbox[s])
      /\ \A v \in Socket \ {s} : hand'[v] = hand[v] /\ inbox'[v] = inbox[v]
  BY <1>1, <1>3, MoveParts
<1>8. \A m \in DOMAIN msgs' : (m \in DOMAIN msgs /\ msgs'[m].by = msgs[m].by) \/ msgs'[m].by = au[m]
  <2>1. msgs'[f.m].by = Who[s] BY <1>3
  <2> QED BY <1>3, <1>5, <2>1
<1>9. \A v \in Socket : hand'[v] = hand[v] \/ HandSound(au, receipts', plays', hand'[v]) BY <1>2, <1>6, <1>7
<1>10. \A v \in Socket : Range(inbox'[v]) \subseteq Range(inbox[v]) BY <1>4, <1>7
<1> QED BY <1>1, <1>2, <1>8, <1>9, <1>10, EarnedStep

(* The page shows the history it is sent: each message as the rows have it.*)
LEMMA HistoryShows ==
  ASSUME Types, NEW s \in Socket, History(s)
  PROVE  /\ UNCHANGED <<drawn, rows, chan, uploads>> /\ hand[s] = Joining1(Who[s])
         /\ \E b : /\ Move(s, Joining2(Who[s]), b) /\ Range(inbox[s]) \subseteq Range(b) /\ Reported(drawn, s, inbox[s], b)
                   /\ \A f \in Range(b) : f \in Range(inbox[s]) \/ f.type = "read"
         /\ DOMAIN page' = DOMAIN page /\ \A v \in DOMAIN page \ {s} : page'[v] = page[v]
         /\ s \in DOMAIN page =>
              /\ DOMAIN page'[s].shown = Alive
              /\ \A m \in Alive : page'[s].shown[m] = FromServer(s, msgs[m].by, msgs[m].text, Summary(m))
              /\ page'[s].members = page[s].members /\ page'[s].signs = page[s].signs
<1>1. HandTypes /\ ChanTypes /\ PageTypes BY DEF Types
<1>2. UNCHANGED <<drawn, rows, chan, uploads>> BY DEF History
<1>3. hand' = [hand EXCEPT ![s] = Joining2(Who[s])] /\ hand[s] = Joining1(Who[s]) BY HistoryEffect DEF HistoryMove
<1>4. CASE s \notin DOMAIN page
  <2>1. UNCHANGED <<page, inbox>> BY <1>4, HistoryEffect
  <2>2. Move(s, Joining2(Who[s]), inbox[s]) BY <1>1, <1>3, <2>1 DEF Move, HandTypes
  <2>3. Reported(drawn, s, inbox[s], inbox[s]) BY DEF Reported
  <2> QED BY <1>2, <1>3, <1>4, <2>1, <2>2, <2>3
<1>5. CASE s \in DOMAIN page
  <2> DEFINE sh == [m \in Alive |-> FromServer(s, msgs[m].by, msgs[m].text, Summary(m))]
  <2>1. PICK q, b :
              /\ q \in Pages(drawn)
              /\ page' = [page EXCEPT ![s] = q] /\ inbox' = [inbox EXCEPT ![s] = b]
              /\ q.shown = sh /\ q.members = page[s].members /\ q.signs = page[s].signs
              /\ Reported(drawn, s, inbox[s], b)
    BY <1>5, HistoryEffect
  <2>2. Move(s, Joining2(Who[s]), b) BY <1>3, <2>1 DEF Move
  <2>3. Range(inbox[s]) \subseteq Range(b) /\ \A f \in Range(b) : f \in Range(inbox[s]) \/ f.type = "read"
    BY <1>1, <2>1, BoxReported
  <2>4. DOMAIN page' = DOMAIN page /\ page'[s] = q /\ \A v \in DOMAIN page \ {s} : page'[v] = page[v]
    BY <1>1, <1>5, <2>1, PageParts
  <2>5. DOMAIN sh = Alive /\ \A m \in Alive : sh[m] = FromServer(s, msgs[m].by, msgs[m].text, Summary(m)) OBVIOUS
  <2> HIDE DEF sh
  <2> QED BY <1>2, <1>3, <1>5, <2>1, <2>2, <2>3, <2>4, <2>5
<1> QED BY <1>4, <1>5

LEMMA EarnedHistory ==
  ASSUME Types, NEW au, Earned(au), NEW s \in Socket, History(s)
  PROVE  Earned(au)'
<1>1. drawn' = drawn /\ UNCHANGED <<msgs, receipts, plays, chan, uploads>> BY HistoryShows DEF rows
<1>2. PICK b : /\ Move(s, Joining2(Who[s]), b) /\ \A f \in Range(b) : f \in Range(inbox[s]) \/ f.type = "read"
  BY HistoryShows
<1>3. HandSound(au, receipts, plays, Joining2(Who[s])) BY HandShapes, HandSilent
<1>4. ASSUME NEW v \in DOMAIN page', NEW m \in DOMAIN page'[v].shown
      PROVE  \/ v \in DOMAIN page /\ m \in DOMAIN page[v].shown /\ page'[v].shown[m] = page[v].shown[m]
             \/ EntrySound(au, receipts, plays, v, m, page'[v].shown[m])
  <2>1. v \in DOMAIN page BY HistoryShows
  <2>2. CASE v # s
    <3>1. page'[v] = page[v] BY <2>1, <2>2, HistoryShows
    <3> QED BY <2>1, <3>1
  <2>3. CASE v = s
    <3>1. m \in Alive /\ page'[v].shown[m] = FromServer(s, msgs[m].by, msgs[m].text, Summary(m))
      BY <2>1, <2>3, HistoryShows
    <3>2. msgs[m].by = au[m] /\ m \in DOMAIN msgs BY <3>1 DEF Earned, Alive
    <3>3. msgs[m].by \in Person BY <3>2 DEF Types, RowTypes, MessageType
    <3>4. LET e == page'[v].shown[m] IN e.by = msgs[m].by /\ e.bubble = "none" /\ e.played = FALSE
      <4>2. LET e == FromServer(s, msgs[m].by, msgs[m].text, Summary(m)) IN
            e.by = msgs[m].by /\ e.bubble = "none" /\ e.played = FALSE
        BY DEF FromServer
      <4> QED BY <3>1, <4>2
    <3> QED BY <3>2, <3>4 DEF EntrySound
  <2> QED BY <2>2, <2>3
<1> QED BY <1>1, <1>2, <1>3, <1>4, EarnedMove

(* What the fan-out of an event changes.                                   *)
LEMMA FanoutShows ==
  ASSUME Types, NEW s \in Socket, Fanout(s)
  PROVE  LET ev == Head(chan[s]) IN
         /\ UNCHANGED <<drawn, rows, uploads, hand, st, hash>> /\ s \in DOMAIN chan /\ hand[s] = <<>>
         /\ DOMAIN chan' = DOMAIN chan /\ Range(chan[s]) = {ev} \cup Range(chan'[s]) /\ ev \in Range(chan[s])
         /\ chan[s] # <<>> /\ chan'[s] = Tail(chan[s])
         /\ EventIn(drawn, ev) /\ \A v \in DOMAIN chan \ {s} : chan'[v] = chan[v]
         /\ \E b : /\ Move(s, <<>>, b) /\ Range(inbox[s]) \subseteq Range(b) /\ Reported(drawn, s, inbox[s], b)
                   /\ \A f \in Range(b) : f \in Range(inbox[s]) \/ f.type = "read"
         /\ DOMAIN page' = DOMAIN page /\ \A v \in DOMAIN page \ {s} : page'[v] = page[v]
         /\ s \in DOMAIN page =>
              /\ DOMAIN page'[s].shown = DOMAIN page[s].shown \cup (IF ev.type = "message" THEN {ev.m} ELSE {})
              /\ \A m \in DOMAIN page[s].shown : page'[s].shown[m] = EntryAfter(s, ev, m, page[s].shown[m])
              /\ ev.type = "message" /\ ev.m \notin DOMAIN page[s].shown =>
                   page'[s].shown[ev.m] = FromServer(s, ev.who, ev.val, 0)
              /\ page'[s].members = MembersAfter(page[s], ev) /\ page'[s].signs = SignsAfter(s, page[s], ev)
<1> DEFINE ev == Head(chan[s])  p == OnEvent(s, page[s], ev)
<1>1. HandTypes /\ ChanTypes /\ PageTypes /\ drawn \in Nat BY DEF Types, HandTypes
<1>2. UNCHANGED <<drawn, rows, uploads, hand, st, hash>> BY DEF Fanout
<1>3. s \in DOMAIN chan /\ chan[s] # <<>> /\ EventIn(drawn, ev) /\ hand[s] = <<>> /\ chan' = [chan EXCEPT ![s] = Tail(chan[s])]
  BY FanoutEffect
<1>4. /\ DOMAIN chan' = DOMAIN chan /\ Range(chan[s]) = {ev} \cup Range(chan'[s]) /\ ev \in Range(chan[s])
      /\ chan'[s] = Tail(chan[s])
      /\ \A v \in DOMAIN chan \ {s} : chan'[v] = chan[v]
  BY <1>1, <1>3, ChanTaken
<1>5. hand = [hand EXCEPT ![s] = <<>>] BY <1>1, <1>3 DEF HandTypes
<1> HIDE DEF ev
<1>6. CASE s \notin DOMAIN page
  <2>1. UNCHANGED <<page, inbox>> BY <1>6, FanoutEffect
  <2>2. Move(s, <<>>, inbox[s]) BY <1>1, <1>2, <1>5, <2>1 DEF Move, HandTypes
  <2>3. Reported(drawn, s, inbox[s], inbox[s]) BY DEF Reported
  <2> QED BY <1>2, <1>3, <1>4, <1>6, <2>1, <2>2, <2>3 DEF ev
<1>7. CASE s \in DOMAIN page
  <2>1. PICK q, b :
              /\ q \in Pages(drawn)
              /\ page' = [page EXCEPT ![s] = q] /\ inbox' = [inbox EXCEPT ![s] = b]
              /\ q.shown = p.shown /\ q.members = p.members /\ q.signs = p.signs
              /\ Reported(drawn, s, inbox[s], b)
    BY <1>7, FanoutEffect DEF ev
  <2>2. Move(s, <<>>, b) BY <1>2, <1>5, <2>1 DEF Move
  <2>3. Range(inbox[s]) \subseteq Range(b) /\ \A f \in Range(b) : f \in Range(inbox[s]) \/ f.type = "read"
    BY <1>1, <2>1, BoxReported
  <2>4. DOMAIN page' = DOMAIN page /\ page'[s] = q /\ \A v \in DOMAIN page \ {s} : page'[v] = page[v]
    BY <1>1, <1>7, <2>1, PageParts
  <2>5. page[s] \in Pages(drawn) BY <1>1, <1>7, PageAt
  <2>6. /\ DOMAIN p.shown = DOMAIN page[s].shown \cup (IF ev.type = "message" THEN {ev.m} ELSE {})
        /\ \A m \in DOMAIN page[s].shown : p.shown[m] = EntryAfter(s, ev, m, page[s].shown[m])
        /\ ev.type = "message" /\ ev.m \notin DOMAIN page[s].shown =>
             p.shown[ev.m] = FromServer(s, ev.who, ev.val, 0)
        /\ p.members = MembersAfter(page[s], ev) /\ p.signs = SignsAfter(s, page[s], ev)
    BY <1>1, <1>3, <2>5, OnEvents
  <2> HIDE DEF p
  <2> QED BY <1>2, <1>3, <1>4, <1>7, <2>1, <2>2, <2>3, <2>4, <2>6 DEF ev
<1> QED BY <1>6, <1>7

LEMMA EntryAfterSound ==
  ASSUME NEW n, NEW au, NEW rs, NEW ps, NEW s \in Socket, NEW m, NEW e \in Entry, EntrySound(au, rs, ps, s, m, e),
         NEW ev, EventIn(n, ev), Sound(au, rs, ps, ev)
  PROVE  EntrySound(au, rs, ps, s, m, EntryAfter(s, ev, m, e))
<1> DEFINE g == EntryAfter(s, ev, m, e)
<1>1. ev.who \in Person BY DEF EventIn, Event
<1>2. g.by = e.by BY EntryAfterTyped
<1>3. CASE ev.type = "message" /\ m = ev.m
  <2>1. g.played = e.played /\ (g.bubble # "none" /\ g.tick = "read" => e.bubble # "none" /\ e.tick = "read")
    BY <1>3, EchoedEntry DEF EntryAfter
  <2> QED BY <1>2, <2>1, EntryKeeps
<1>4. CASE ev.type = "read" /\ m \in ev.ids /\ e.by = Who[s]
  <2>1. g.played = e.played BY <1>4 DEF EntryAfter, Entry
  <2>2. <<m, ev.who>> \in rs /\ ev.who # Who[s] BY <1>4 DEF Sound, EntrySound
  <2> QED BY <1>1, <1>2, <2>1, <2>2 DEF EntrySound
<1>5. CASE ev.type = "played" /\ m = ev.m
  <2>1. g.tick = e.tick /\ g.bubble = e.bubble /\ (g.played => e.played \/ e.by = Who[s])
    BY <1>5 DEF EntryAfter, Entry
  <2>2. e.by = Who[s] => <<m, ev.who>> \in ps /\ ev.who # Who[s] BY <1>5 DEF Sound, EntrySound
  <2> QED BY <1>1, <1>2, <2>1, <2>2 DEF EntrySound
<1>6. CASE ~(ev.type = "message" /\ m = ev.m) /\ ~(ev.type = "read" /\ m \in ev.ids /\ e.by = Who[s])
           /\ ~(ev.type = "played" /\ m = ev.m)
  <2>1. g.tick = e.tick /\ g.bubble = e.bubble /\ g.played = e.played
    BY <1>6 DEF EntryAfter, Entry
  <2> QED BY <1>2, <2>1, EntryKeeps
<1> QED BY <1>3, <1>4, <1>5, <1>6

LEMMA EarnedFanout ==
  ASSUME Types, NEW au, Earned(au), NEW s \in Socket, Fanout(s)
  PROVE  Earned(au)'
<1> DEFINE ev == Head(chan[s])
<1>1. HandTypes /\ ChanTypes /\ PageTypes /\ drawn \in Nat BY DEF Types, HandTypes
<1>2. drawn' = drawn /\ UNCHANGED <<msgs, receipts, plays, uploads>> BY FanoutShows DEF rows
<1>3. PICK b : Move(s, <<>>, b) /\ \A f \in Range(b) : f \in Range(inbox[s]) \/ f.type = "read"
  BY FanoutShows
<1>4. HandSound(au, receipts, plays, <<>>) BY DEF HandSound
<1>5. EventIn(drawn, ev) /\ Sound(au, receipts, plays, ev)
  <2>1. s \in DOMAIN chan /\ ev \in Range(chan[s]) BY FanoutShows
  <2> QED BY <2>1, FanoutShows DEF Earned
<1>6. \A v \in DOMAIN chan' : v \in DOMAIN chan /\ Range(chan'[v]) \subseteq Range(chan[v])
  <2>1. /\ DOMAIN chan' = DOMAIN chan /\ Range(chan[s]) = {ev} \cup Range(chan'[s])
        /\ \A v \in DOMAIN chan \ {s} : chan'[v] = chan[v]
    BY FanoutShows
  <2> QED BY <2>1
<1> HIDE DEF ev
<1>7. ASSUME NEW v \in DOMAIN page', NEW m \in DOMAIN page'[v].shown
      PROVE  \/ v \in DOMAIN page /\ m \in DOMAIN page[v].shown /\ page'[v].shown[m] = page[v].shown[m]
             \/ EntrySound(au, receipts, plays, v, m, page'[v].shown[m])
  <2>1. v \in DOMAIN page BY FanoutShows
  <2>2. CASE v # s
    <3>1. page'[v] = page[v] BY <2>1, <2>2, FanoutShows
    <3> QED BY <2>1, <3>1
  <2>3. CASE v = s /\ m \in DOMAIN page[s].shown
    <3>1. page'[s].shown[m] = EntryAfter(s, ev, m, page[s].shown[m]) BY <2>1, <2>3, FanoutShows DEF ev
    <3>2. EntrySound(au, receipts, plays, s, m, page[s].shown[m]) BY <2>1, <2>3 DEF Earned
    <3>3. page[s].shown[m] \in Entry BY <1>1, <2>1, <2>3, PageAt, PageGet, EntryGet
    <3> QED BY <1>5, <2>3, <3>1, <3>2, <3>3, EntryAfterSound
  <2>4. CASE v = s /\ m \notin DOMAIN page[s].shown
    <3>1. ev.type = "message" /\ m = ev.m /\ page'[s].shown[m] = FromServer(s, ev.who, ev.val, 0)
      BY <2>1, <2>4, FanoutShows DEF ev
    <3>2. ev.who = au[m] /\ ev.who \in Person BY <1>5, <3>1 DEF Sound, EventIn, Event
    <3>3. LET e == page'[s].shown[m] IN e.by = ev.who /\ e.bubble = "none" /\ e.played = FALSE
      <4>2. LET e == FromServer(s, ev.who, ev.val, 0) IN e.by = ev.who /\ e.bubble = "none" /\ e.played = FALSE
        BY DEF FromServer
      <4> QED BY <3>1, <4>2
    <3> QED BY <2>4, <3>2, <3>3 DEF EntrySound
  <2> QED BY <2>2, <2>3, <2>4
<1> QED BY <1>2, <1>3, <1>4, <1>6, <1>7, EarnedMove

LEMMA EarnedStatus ==
  ASSUME Types, NEW au, Earned(au), NEW s \in Socket, Status(s)
  PROVE  Earned(au)'
<1>1. HandTypes /\ ChanTypes /\ PageTypes /\ drawn \in Nat BY DEF Types, HandTypes
<1>2. drawn' = drawn /\ UNCHANGED <<msgs, receipts, plays, uploads, chan>> BY DEF Status, rows
<1>3. Move(s, <<>>, inbox[s]) BY TypesStatus DEF StatusMove
<1>4. HandSound(au, receipts, plays, <<>>) BY DEF HandSound
<1>5. ASSUME NEW v \in DOMAIN page', NEW m \in DOMAIN page'[v].shown
      PROVE  \/ v \in DOMAIN page /\ m \in DOMAIN page[v].shown /\ page'[v].shown[m] = page[v].shown[m]
             \/ EntrySound(au, receipts, plays, v, m, page'[v].shown[m])
  <2>1. CASE s \notin DOMAIN page BY <2>1, TypesStatus
  <2>2. CASE s \in DOMAIN page
    <3>1. PICK q \in Pages(drawn), new \in {"delivered", "sent"} :
              /\ page' = [page EXCEPT ![s] = q] /\ DOMAIN q.shown = DOMAIN page[s].shown
              /\ \A x \in DOMAIN q.shown :
                   q.shown[x] = IF x = Arg(s).m /\ page[s].shown[x].tick # "read"
                                THEN [page[s].shown[x] EXCEPT !.tick = new] ELSE page[s].shown[x]
      BY <2>2, TypesStatus, SMTT(30)
    <3>2. DOMAIN page' = DOMAIN page /\ page'[s] = q /\ \A w \in DOMAIN page \ {s} : page'[w] = page[w]
      BY <1>1, <2>2, <3>1, PageParts
    <3>3. CASE v # s BY <3>2, <3>3
    <3>4. CASE v = s
      <4> DEFINE e == page[s].shown[m]
      <4>1. m \in DOMAIN page[s].shown /\ q.shown[m] \in {[e EXCEPT !.tick = new], e} /\ page'[v].shown[m] = q.shown[m]
        BY <3>1, <3>2, <3>4
      <4>2. e \in Entry /\ EntrySound(au, receipts, plays, s, m, e)
        BY <1>1, <2>2, <4>1, PageAt, PageGet, EntryGet DEF Earned
      <4> HIDE DEF e
      <4>3. LET g == [e EXCEPT !.tick = new] IN g.by = e.by /\ g.tick = new /\ g.played = e.played
        BY <4>2 DEF Entry
      <4>4. EntrySound(au, receipts, plays, s, m, [e EXCEPT !.tick = new]) BY <4>2, <4>3 DEF EntrySound
      <4> QED BY <3>4, <4>1, <4>2, <4>4
    <3> QED BY <3>3, <3>4
  <2> QED BY <2>1, <2>2
<1> QED BY <1>1, <1>2, <1>3, <1>4, <1>5, EarnedMove

(* Receipts come before their event.                                       *)
LEMMA EarnedRead ==
  ASSUME Types, NEW au, Earned(au), NEW s \in Socket, ReadMessages(s)
  PROVE  Earned(au)'
<1> DEFINE g == ReadEvent(s)
<1>1. HandTypes /\ drawn' = drawn /\ UNCHANGED <<msgs, plays, uploads, chan, page>> BY DEF Types, ReadMessages
<1>2. /\ Move(s, <<>>, Tail(inbox[s])) \/ Move(s, Tells(g), Tail(inbox[s]))
      /\ g.ids = ReadIds(s) /\ g.type = "read" /\ g.who = Who[s]
      /\ receipts' = receipts \cup (ReadIds(s) \X {Who[s]})
  BY TypesRead DEF TellMove
<1>3. Range(Tail(inbox[s])) \subseteq Range(inbox[s])
  BY <1>1, BoxTail, TypesRead DEF TellMove
<1>4. \A m \in ReadIds(s) : m \in DOMAIN msgs /\ msgs[m].by # Who[s] /\ au[m] = msgs[m].by
  BY DEF ReadIds, Alive, Earned
<1> HIDE DEF g
<1>5. Sound(au, receipts', plays', g) BY <1>2, <1>4 DEF Sound
<1>6. HandSound(au, receipts', plays', <<>>) BY DEF HandSound
<1>7. HandSound(au, receipts', plays', Tells(g)) BY <1>5, FrameShapes DEF HandSound
<1>8. receipts \subseteq receipts' BY <1>2
<1>9. CASE Move(s, <<>>, Tail(inbox[s])) BY <1>1, <1>3, <1>6, <1>8, <1>9, EarnedMove
<1>10. CASE Move(s, Tells(g), Tail(inbox[s])) BY <1>1, <1>3, <1>7, <1>8, <1>10, EarnedMove
<1> QED BY <1>2, <1>9, <1>10

LEMMA EarnedPlay ==
  ASSUME Types, NEW au, Earned(au), NEW s \in Socket, PlayMessage(s)
  PROVE  Earned(au)'
<1> DEFINE f == Arg(s)
<1>1. HandTypes /\ drawn' = drawn /\ UNCHANGED <<msgs, receipts, uploads, chan, page>> BY DEF Types, PlayMessage
<1>2. /\ Begins(s, f) /\ f.type = "played" /\ f.who = Who[s]
      /\ plays' = plays \cup (IF NewPlay(s) THEN {<<f.m, Who[s]>>} ELSE {})
      /\ \/ Move(s, <<>>, Tail(inbox[s]))
         \/ Move(s, Tells(f), Tail(inbox[s])) /\ NewPlay(s)
  <2>1. TellMove(s, {"played"}, f) /\ Own(drawn, s, f) BY TypesPlay
  <2>2. ~NewPlay(s) => Move(s, <<>>, Tail(inbox[s])) BY TypesPlay
  <2>3. plays' = plays \cup (IF NewPlay(s) THEN {<<f.m, Who[s]>>} ELSE {}) BY TypesPlay
  <2> HIDE DEF f
  <2> QED BY <2>1, <2>2, <2>3 DEF TellMove, Own, f
<1>3. NewPlay(s) => f.m \in DOMAIN msgs /\ msgs[f.m].by # Who[s] /\ au[f.m] = msgs[f.m].by
  BY DEF NewPlay, Alive, Earned
<1> HIDE DEF f
<1>4. Range(Tail(inbox[s])) \subseteq Range(inbox[s]) BY <1>1, <1>2, BoxTail
<1>5. NewPlay(s) => Sound(au, receipts', plays', f) BY <1>2, <1>3 DEF Sound
<1>6. HandSound(au, receipts', plays', <<>>) BY DEF HandSound
<1>7. NewPlay(s) => HandSound(au, receipts', plays', Tells(f)) BY <1>5, FrameShapes DEF HandSound
<1>8. plays \subseteq plays' BY <1>2
<1>9. CASE Move(s, <<>>, Tail(inbox[s])) BY <1>1, <1>4, <1>6, <1>8, <1>9, EarnedMove
<1>10. CASE Move(s, Tells(f), Tail(inbox[s])) /\ NewPlay(s) BY <1>1, <1>4, <1>7, <1>8, <1>10, EarnedMove
<1> QED BY <1>2, <1>9, <1>10

(* A consumer that dies takes its page, its channel and its inbox along.   *)
LEMMA EarnedCrash ==
  ASSUME Types, NEW au, Earned(au), NEW S \in SUBSET Socket, Crash(S), drawn' = drawn,
         UNCHANGED <<msgs, receipts, plays>>,
         \A m \in DOMAIN uploads' : m \in DOMAIN uploads /\ uploads'[m] = uploads[m]
  PROVE  Earned(au)'
<1>1. HandTypes /\ ChanTypes /\ PageTypes /\ drawn' \in Nat /\ drawn' >= drawn BY DEF Types, HandTypes
<1>2. /\ \A v \in S : hand'[v] = <<>> /\ inbox'[v] = <<>>
      /\ \A v \in Socket \ S : hand'[v] = hand[v] /\ inbox'[v] = inbox[v]
      /\ DOMAIN chan' = DOMAIN chan \ S /\ \A v \in DOMAIN chan' : chan'[v] = chan[v]
      /\ DOMAIN page' = DOMAIN page \ S /\ \A v \in DOMAIN page' : page'[v] = page[v]
  <2>1. Crashed(S) BY CrashParts
  <2> QED BY <2>1 DEF Crashed
<1>3. HandSound(au, receipts', plays', <<>>) BY DEF HandSound
<1>4. \A v \in Socket : hand'[v] = hand[v] \/ HandSound(au, receipts', plays', hand'[v]) BY <1>2, <1>3
<1>5. \A v \in Socket : Range(inbox'[v]) \subseteq Range(inbox[v]) BY <1>2, RangeEmpty
<1> QED BY <1>1, <1>2, <1>4, <1>5, EarnedStep

LEMMA EarnedWrite ==
  ASSUME Types, NEW au, Earned(au), NEW s \in Socket, Toggle(s) \/ EditMessage(s) \/ DeleteMessage(s)
  PROVE  Earned(au)'
<1>1. HandTypes /\ drawn' = drawn /\ UNCHANGED <<receipts, plays, uploads>>
  BY DEF Types, Toggle, EditMessage, DeleteMessage
<1>2. CASE Toggle(s) /\ Tombstone(s)
  <2>1. Crash({s}) /\ UNCHANGED msgs BY <1>2, TypesToggle DEF Toggle
  <2> QED BY <1>1, <2>1, EarnedCrash
<1>3. CASE ~(Toggle(s) /\ Tombstone(s))
  <2>1. Begins(s, Arg(s)) /\ UNCHANGED <<chan, page>>
    BY <1>3, TypesToggle, TypesEdit, TypesDelete DEF EditMessage, DeleteMessage
  <2>2. Range(Tail(inbox[s])) \subseteq Range(inbox[s]) BY <1>1, <2>1, BoxTail
  <2>3. DOMAIN msgs' = DOMAIN msgs /\ \A m \in DOMAIN msgs : msgs'[m].by = msgs[m].by
    <3>1. CASE Toggle(s) BY <3>1 DEF Toggle
    <3>2. CASE EditMessage(s) BY <3>2 DEF EditMessage, Types, RowTypes, MessageType
    <3>3. CASE DeleteMessage(s) BY <3>3 DEF DeleteMessage, Types, RowTypes, MessageType
    <3> QED BY <3>1, <3>2, <3>3
  <2>4. Move(s, <<>>, Tail(inbox[s])) \/ \E g : Move(s, Tells(g), Tail(inbox[s])) /\ g.type \in {"reaction", "edit", "delete"}
    <3>1. CASE Toggle(s) BY <1>3, <3>1, TypesToggle
    <3>2. CASE EditMessage(s) BY <3>2, TypesEdit
    <3>3. CASE DeleteMessage(s) BY <3>3, TypesDelete
    <3> QED BY <3>1, <3>2, <3>3
  <2>5. HandSound(au, receipts', plays', <<>>) BY DEF HandSound
  <2>6. CASE Move(s, <<>>, Tail(inbox[s])) BY <1>1, <2>1, <2>2, <2>3, <2>5, <2>6, EarnedMove
  <2>7. ASSUME NEW g, Move(s, Tells(g), Tail(inbox[s])), g.type \in {"reaction", "edit", "delete"} PROVE Earned(au)'
    <3>1. HandSound(au, receipts', plays', Tells(g)) BY <2>7, FrameShapes DEF HandSound, Sound
    <3> QED BY <1>1, <2>1, <2>2, <2>3, <2>7, <3>1, EarnedMove
  <2> QED BY <2>4, <2>6, <2>7
<1> QED BY <1>2, <1>3

(* A page changes what it shows, and what it has sent.                     *)
LEMMA EarnedPage ==
  ASSUME Types, drawn' \in Nat, drawn' >= drawn, NEW au, NEW au2, Earned(au), \A m \in 1..drawn : au2[m] = au[m],
         NEW s \in DOMAIN page, NEW q, NEW b, page' = [page EXCEPT ![s] = q], inbox' = [inbox EXCEPT ![s] = b],
         \A f \in Range(b) : f \in Range(inbox[s]) \/ FrameSound(au2, s, f),
         UNCHANGED <<msgs, receipts, plays, hand, chan>>,
         \A m \in DOMAIN uploads' : (m \in DOMAIN uploads /\ uploads'[m].by = uploads[m].by) \/ Who[uploads'[m].by] = au2[m],
         \A m \in DOMAIN q.shown :
           \/ m \in DOMAIN page[s].shown /\ q.shown[m] = page[s].shown[m]
           \/ EntrySound(au2, receipts, plays, s, m, q.shown[m])
  PROVE  Earned(au2)'
<1>1. HandTypes /\ PageTypes BY DEF Types
<1>2. s \in Socket BY <1>1, PageAt
<1>3. inbox'[s] = b /\ \A v \in Socket \ {s} : inbox'[v] = inbox[v] BY <1>1, <1>2, InboxParts
<1>4. DOMAIN page' = DOMAIN page /\ page'[s] = q /\ \A v \in DOMAIN page \ {s} : page'[v] = page[v]
  BY <1>1, PageParts
<1>5. \A v \in Socket : \A f \in Range(inbox'[v]) : f \in Range(inbox[v]) \/ FrameSound(au2, v, f) BY <1>3
<1>6. \A v \in DOMAIN page' : \A m \in DOMAIN page'[v].shown :
        \/ v \in DOMAIN page /\ m \in DOMAIN page[v].shown /\ page'[v].shown[m] = page[v].shown[m]
        \/ EntrySound(au2, receipts', plays', v, m, page'[v].shown[m])
  BY <1>4
<1> QED BY <1>5, <1>6, EarnedStep

(* The author of a message, its receipts and its bubble do not change when *)
(* the rest of an entry does.                                              *)
LEMMA EarnedShows ==
  ASSUME Types, drawn' \in Nat, drawn' >= drawn, NEW au, NEW au2, Earned(au), \A x \in 1..drawn : au2[x] = au[x],
         NEW s \in DOMAIN page, NEW q, NEW f, SaysOne(s, q, f), f.type # "message",
         UNCHANGED <<msgs, receipts, plays, uploads, hand, chan>>,
         NEW m \in DOMAIN page[s].shown, NEW e, Shows(s, q, m, e),
         e.by = page[s].shown[m].by, e.bubble = page[s].shown[m].bubble, e.tick = page[s].shown[m].tick,
         e.played = page[s].shown[m].played
  PROVE  Earned(au2)'
<1>1. HandTypes /\ PageTypes BY DEF Types
<1>2. s \in Socket BY <1>1, PageAt
<1>3. f \in Event BY DEF SaysOne, FrameIn, Own
<1>4. Range(Append(inbox[s], f)) = Range(inbox[s]) \cup {f} BY <1>1, <1>2, <1>3, BoxAppend
<1>5. page[s].shown \in Shown(drawn) BY <1>1, PageAt, PageGet
<1>6. m \in 1..drawn BY <1>5, ShownIn
<1>7. EntrySound(au, receipts, plays, s, m, page[s].shown[m]) BY DEF Earned
<1>8. EntrySound(au2, receipts, plays, s, m, e) BY <1>6, <1>7 DEF EntrySound
<1>9. \A f2 \in Range(Append(inbox[s], f)) : f2 \in Range(inbox[s]) \/ FrameSound(au2, s, f2)
  BY <1>4 DEF FrameSound
<1>10. \A x \in DOMAIN q.shown :
         \/ x \in DOMAIN page[s].shown /\ q.shown[x] = page[s].shown[x]
         \/ EntrySound(au2, receipts, plays, s, x, q.shown[x])
  BY <1>8 DEF Shows
<1>11. page' = [page EXCEPT ![s] = q] /\ inbox' = [inbox EXCEPT ![s] = Append(inbox[s], f)] BY DEF SaysOne
<1> QED BY <1>9, <1>10, <1>11, EarnedPage

(* au, and who drew the next number.                                       *)
LEMMA Extended ==
  ASSUME drawn \in Nat, drawn' = drawn + 1, NEW au \in [1..drawn -> Person], NEW i \in Person
  PROVE  \E au2 \in [1..drawn' -> Person] : au2[drawn'] = i /\ \A m \in 1..drawn : au2[m] = au[m]
<1>1. PICK n \in Nat : n = drawn' OBVIOUS
<1> DEFINE au2 == [m \in 1..n |-> IF m = n THEN i ELSE au[m]]
<1>2. au2 \in [1..n -> Person] /\ au2[n] = i /\ \A m \in 1..drawn : au2[m] = au[m] BY <1>1
<1> HIDE DEF au2
<1> QED BY <1>1, <1>2

LEMMA EarnedSend ==
  ASSUME Types, NEW au \in [1..drawn -> Person], Earned(au), NEW s \in DOMAIN page, Send(s) \/ SendVoice(s)
  PROVE  Authors'
<1>1. HandTypes /\ PageTypes /\ drawn \in Nat BY DEF Types, HandTypes
<1>2. drawn' = drawn + 1 /\ drawn' \in Nat /\ drawn' >= drawn
  <2>1. drawn' = drawn + 1 BY DEF Send, SendVoice
  <2> QED BY <1>1, <2>1
<1>3. s \in Socket /\ Who[s] \in Person BY <1>1, PageAt, WhoTyped
<1>4. PICK au2 \in [1..drawn' -> Person] : au2[drawn'] = Who[s] /\ \A m \in 1..drawn : au2[m] = au[m]
  BY <1>1, <1>2, <1>3, Extended
<1>5. UNCHANGED <<msgs, receipts, plays, hand, chan>> BY DEF Send, SendVoice, rows
<1>6. PICK n \in Nat : n = drawn' BY <1>2
<1>7. page[s].shown \in Shown(drawn) BY <1>1, PageAt, PageGet
<1>8. ASSUME NEW q, q.shown = Put(page[s].shown, n, Bubble(s, n)), NEW m \in DOMAIN q.shown
      PROVE  \/ m \in DOMAIN page[s].shown /\ q.shown[m] = page[s].shown[m]
             \/ EntrySound(au2, receipts, plays, s, m, q.shown[m])
  <2>1. CASE m # n BY <1>8, <2>1 DEF Put
  <2>2. CASE m = n
    <3>1. q.shown[m] = Bubble(s, n) BY <1>8, <2>2 DEF Put
    <3>2. LET e == Bubble(s, n) IN e.by = Who[s] /\ e.tick = "sending" /\ e.played = FALSE BY DEF Bubble
    <3> QED BY <1>4, <1>6, <2>2, <3>1, <3>2 DEF EntrySound
  <2> QED BY <2>1, <2>2
<1>9. CASE Send(s)
  <2>1. uploads' = uploads BY <1>9 DEF Send
  <2>2. PICK q, b, f :
              /\ q \in Pages(drawn')
              /\ page' = [page EXCEPT ![s] = q] /\ inbox' = [inbox EXCEPT ![s] = b]
              /\ q.shown = Put(page[s].shown, n, Bubble(s, n))
              /\ f = Asks(s, "message", n, n) /\ FrameIn(n, s, f)
              /\ \/ b = Append(inbox[s], f)
                 \/ b = Append(Append(inbox[s], f), Asks(s, "typing_stop", 0, 0))
    BY <1>6, <1>9, TypesSend
  <2>3. FrameSound(au2, s, f) BY <1>4, <1>6, <2>2 DEF FrameSound, Asks, Ev
  <2> DEFINE g == Asks(s, "typing_stop", 0, 0)
  <2>4. g \in Event /\ g.type = "typing_stop"
    <3>1. "typing_stop" \in FrameTypes \ {"message", "edit", "disconnect"} /\ 0 \in Nat BY DEF FrameTypes
    <3>2. FrameIn(n, s, g) /\ g.type = "typing_stop" BY <1>3, <1>6, <3>1, AskFrame
    <3> QED BY <3>2 DEF FrameIn, Own
  <2>5. FrameSound(au2, s, g) BY <2>4 DEF FrameSound
  <2> HIDE DEF g
  <2>6. f \in Event BY <2>2 DEF FrameIn, Own
  <2>7. inbox[s] \in Seq(Event) BY <1>1, <1>3, Boxed
  <2>8. Append(inbox[s], f) \in Seq(Event) /\ Range(Append(inbox[s], f)) = Range(inbox[s]) \cup {f}
    BY <2>6, <2>7, RangeAppend, Appended
  <2>9. Range(Append(Append(inbox[s], f), g)) = Range(inbox[s]) \cup {f, g}
    <3>1. PICK b1 \in Seq(Event) : b1 = Append(inbox[s], f) BY <2>8
    <3>2. Range(Append(b1, g)) = Range(b1) \cup {g} BY <2>4, RangeAppend
    <3> QED BY <2>8, <3>1, <3>2
  <2>10. \A x \in Range(b) : x \in Range(inbox[s]) \/ FrameSound(au2, s, x)
    BY <2>2, <2>3, <2>5, <2>8, <2>9 DEF g
  <2>11. Earned(au2)' BY <1>2, <1>4, <1>5, <1>8, <2>1, <2>2, <2>10, EarnedPage
  <2> QED BY <1>4, <2>11 DEF Authors
<1>10. CASE SendVoice(s)
  <2>1. uploads' = Put(uploads, n, [by |-> s, stored |-> FALSE]) BY <1>6, <1>10, TypesSendVoice
  <2>2. PICK q \in Pages(drawn') : /\ SaysOne(s, q, Asks(s, "recording_stop", 0, 0))
                                   /\ q.shown = Put(page[s].shown, n, Bubble(s, n))
    BY <1>6, <1>10, TypesSendVoice
  <2> DEFINE g == Asks(s, "recording_stop", 0, 0)
  <2>3. g \in Event /\ g.type = "recording_stop"
    <3>1. "recording_stop" \in FrameTypes \ {"message", "edit", "disconnect"} /\ 0 \in Nat BY DEF FrameTypes
    <3>2. FrameIn(n, s, g) /\ g.type = "recording_stop" BY <1>3, <1>6, <3>1, AskFrame
    <3> QED BY <3>2 DEF FrameIn, Own
  <2> HIDE DEF g
  <2>4. page' = [page EXCEPT ![s] = q] /\ inbox' = [inbox EXCEPT ![s] = Append(inbox[s], g)]
    BY <2>2 DEF SaysOne, g
  <2>5. Range(Append(inbox[s], g)) = Range(inbox[s]) \cup {g} BY <1>1, <1>3, <2>3, BoxAppend
  <2>6. \A x \in Range(Append(inbox[s], g)) : x \in Range(inbox[s]) \/ FrameSound(au2, s, x)
    BY <2>3, <2>5 DEF FrameSound
  <2>7. \A m \in DOMAIN uploads' : (m \in DOMAIN uploads /\ uploads'[m].by = uploads[m].by) \/ Who[uploads'[m].by] = au2[m]
    <3>1. ASSUME NEW m \in DOMAIN uploads', m = n PROVE uploads'[m].by = s
      <4>1. uploads'[m] = [by |-> s, stored |-> FALSE] BY <2>1, <3>1 DEF Put
      <4> QED BY <4>1
    <3>2. ASSUME NEW m \in DOMAIN uploads', m # n PROVE m \in DOMAIN uploads /\ uploads'[m] = uploads[m]
      BY <2>1, <3>2 DEF Put
    <3> QED BY <1>4, <1>6, <3>1, <3>2
  <2>8. Earned(au2)' BY <1>2, <1>4, <1>5, <1>8, <2>2, <2>4, <2>6, <2>7, EarnedPage
  <2> QED BY <1>4, <2>8 DEF Authors
<1> QED BY <1>9, <1>10

(* The other steps of a page.                                              *)
LEMMA EarnedPageStep ==
  ASSUME Types, NEW au \in [1..drawn -> Person], Earned(au), NEW s \in DOMAIN page, PageStep(s) \/ SignTimeout(s)
  PROVE  Authors'
<1>1. HandTypes /\ PageTypes /\ drawn \in Nat BY DEF Types, HandTypes
<1>2. s \in Socket /\ Who[s] \in Person /\ page[s].shown \in Shown(drawn) BY <1>1, PageAt, PageGet, WhoTyped
<1>3. CASE Send(s) \/ SendVoice(s) BY <1>3, EarnedSend
<1>4. ASSUME NEW type \in Kinds, Start(s, type) \/ Stop(s, type) PROVE Authors'
  <2>1. drawn' = drawn /\ UNCHANGED <<msgs, receipts, plays, uploads, hand, chan>> BY <1>4 DEF Start, Stop, rows
  <2>2. PICK q, f : q \in Pages(drawn') /\ SaysOne(s, q, f) /\ q.shown = page[s].shown /\ f.type \notin Named \cup {"message"}
    BY <1>4, TypesStart
  <2>3. page' = [page EXCEPT ![s] = q] /\ inbox' = [inbox EXCEPT ![s] = Append(inbox[s], f)] /\ f \in Event
    BY <2>2 DEF SaysOne, FrameIn, Own
  <2>4. Range(Append(inbox[s], f)) = Range(inbox[s]) \cup {f} BY <1>1, <1>2, <2>3, BoxAppend
  <2>5. \A x \in Range(Append(inbox[s], f)) : x \in Range(inbox[s]) \/ FrameSound(au, s, x)
    BY <2>2, <2>4 DEF FrameSound
  <2>6. drawn' \in Nat /\ drawn' >= drawn BY <1>1, <2>1
  <2>7. Earned(au)' BY <2>1, <2>2, <2>3, <2>5, <2>6, EarnedPage
  <2> QED BY <2>1, <2>7 DEF Authors
<1>5. ASSUME NEW m \in DOMAIN page[s].shown, React(s, m) PROVE Authors'
  <2> DEFINE old == page[s].shown[m]
             g == [old EXCEPT !.count = @ + 1]
             f == Asks(s, "reaction", ServerId(old, m), 0)
  <2>1. drawn' = drawn /\ UNCHANGED <<msgs, receipts, plays, uploads, hand, chan>> BY <1>5 DEF React, rows
  <2>2. PICK q \in Pages(drawn') : SaysOne(s, q, f) /\ Shows(s, q, m, g) BY <1>5, TypesReact
  <2>3. f.type = "reaction" BY DEF Asks, Ev
  <2>4. old \in Entry BY <1>2, EntryGet
  <2>5. g.by = old.by /\ g.bubble = old.bubble /\ g.tick = old.tick /\ g.played = old.played BY <2>4 DEF Entry
  <2>6. drawn' \in Nat /\ drawn' >= drawn BY <1>1, <2>1
  <2> HIDE DEF g, f
  <2>7. Earned(au)' BY <2>1, <2>2, <2>3, <2>5, <2>6, EarnedShows
  <2> QED BY <2>1, <2>7 DEF Authors
<1>6. ASSUME NEW m \in DOMAIN page[s].shown, CommitEdit(s, m) PROVE Authors'
  <2>1. UNCHANGED <<msgs, receipts, plays, uploads, hand, chan>> BY <1>6 DEF CommitEdit, rows
  <2>2. drawn' = drawn + 1 /\ drawn' \in Nat /\ drawn' >= drawn
    <3>1. drawn' = drawn + 1 BY <1>6 DEF CommitEdit
    <3> QED BY <1>1, <3>1
  <2>3. PICK n \in Nat : n = drawn' BY <2>2
  <2>4. PICK au2 \in [1..drawn' -> Person] : au2[drawn'] = Who[s] /\ \A x \in 1..drawn : au2[x] = au[x]
    BY <1>1, <1>2, <2>2, Extended
  <2> DEFINE old == page[s].shown[m]
             g == [old EXCEPT !.text = n]
             f == Asks(s, "edit", ServerId(old, m), n)
  <2>5. PICK q \in Pages(drawn') : SaysOne(s, q, f) /\ Shows(s, q, m, g) BY <1>6, <2>3, TypesCommitEdit
  <2>6. f.type = "edit" BY DEF Asks, Ev
  <2>7. old \in Entry BY <1>2, EntryGet
  <2>8. g.by = old.by /\ g.bubble = old.bubble /\ g.tick = old.tick /\ g.played = old.played BY <2>7 DEF Entry
  <2> HIDE DEF g, f
  <2>9. Earned(au2)' BY <2>1, <2>2, <2>4, <2>5, <2>6, <2>8, EarnedShows
  <2> QED BY <2>4, <2>9 DEF Authors
<1>7. ASSUME NEW m \in DOMAIN page[s].shown, Del(s, m) PROVE Authors'
  <2> DEFINE old == page[s].shown[m]
             g == [old EXCEPT !.deleted = TRUE, !.count = 0]
             f == Asks(s, "delete", ServerId(old, m), 0)
  <2>1. drawn' = drawn /\ UNCHANGED <<msgs, receipts, plays, uploads, hand, chan>> BY <1>7 DEF Del, rows
  <2>2. PICK q \in Pages(drawn') : SaysOne(s, q, f) /\ Shows(s, q, m, g) BY <1>7, TypesDel
  <2>3. f.type = "delete" BY DEF Asks, Ev
  <2>4. old \in Entry BY <1>2, EntryGet
  <2>5. g.by = old.by /\ g.bubble = old.bubble /\ g.tick = old.tick /\ g.played = old.played BY <2>4 DEF Entry
  <2>6. drawn' \in Nat /\ drawn' >= drawn BY <1>1, <2>1
  <2> HIDE DEF g, f
  <2>7. Earned(au)' BY <2>1, <2>2, <2>3, <2>5, <2>6, EarnedShows
  <2> QED BY <2>1, <2>7 DEF Authors
<1>8. ASSUME NEW m \in DOMAIN page[s].shown, Play(s, m) PROVE Authors'
  <2> DEFINE f == Asks(s, "played", m, 0)
  <2>1. drawn' = drawn /\ UNCHANGED <<msgs, receipts, plays, uploads, hand, chan>> BY <1>8 DEF Play, rows
  <2>2. SaysOne(s, page[s], f) BY <1>8, TypesPlayed
  <2>3. f.type = "played" BY DEF Asks, Ev
  <2> HIDE DEF f
  <2>4. page' = [page EXCEPT ![s] = page[s]] /\ inbox' = [inbox EXCEPT ![s] = Append(inbox[s], f)] /\ f \in Event
    BY <2>2 DEF SaysOne, FrameIn, Own
  <2>5. Range(Append(inbox[s], f)) = Range(inbox[s]) \cup {f} BY <1>1, <1>2, <2>4, BoxAppend
  <2>6. \A x \in Range(Append(inbox[s], f)) : x \in Range(inbox[s]) \/ FrameSound(au, s, x)
    BY <2>3, <2>5 DEF FrameSound
  <2>7. drawn' \in Nat /\ drawn' >= drawn BY <1>1, <2>1
  <2>8. Earned(au)' BY <2>1, <2>4, <2>6, <2>7, EarnedPage
  <2> QED BY <2>1, <2>8 DEF Authors
<1>9. CASE CloseSocket(s)
  <2>1. UNCHANGED <<msgs, receipts, plays, uploads, hand, chan>> BY <1>9 DEF CloseSocket, rows
  <2>2. /\ drawn' = drawn /\ DOMAIN page' = DOMAIN page \ {s} /\ \A v \in DOMAIN page' : page'[v] = page[v]
        /\ inbox' = [inbox EXCEPT ![s] = Append(inbox[s], Bye(Who[s]))]
    BY <1>9, TypesClose
  <2>3. Bye(Who[s]) \in Event /\ Bye(Who[s]).type = "disconnect" BY <1>2, Events
  <2>4. Range(Append(inbox[s], Bye(Who[s]))) = Range(inbox[s]) \cup {Bye(Who[s])} BY <1>1, <1>2, <2>3, BoxAppend
  <2>5. \A v \in Socket : \A f \in Range(inbox'[v]) : f \in Range(inbox[v]) \/ FrameSound(au, v, f)
    BY <1>1, <1>2, <2>2, <2>3, <2>4, InboxParts DEF FrameSound
  <2>6. drawn' \in Nat /\ drawn' >= drawn BY <1>1, <2>2
  <2>7. Earned(au)' BY <2>1, <2>2, <2>5, <2>6, EarnedStep
  <2> QED BY <2>2, <2>7 DEF Authors
<1>10. CASE SignTimeout(s)
  <2>1. drawn' = drawn /\ UNCHANGED <<msgs, receipts, plays, uploads, hand, chan, inbox>> BY <1>10 DEF SignTimeout, rows
  <2>2. PICK q \in Pages(drawn) : page' = [page EXCEPT ![s] = q] /\ q.shown = page[s].shown BY <1>10, TypesSign
  <2>3. inbox' = [inbox EXCEPT ![s] = inbox[s]] BY <1>1, <2>1 DEF HandTypes
  <2>4. drawn' \in Nat /\ drawn' >= drawn BY <1>1, <2>1
  <2>5. Earned(au)' BY <2>1, <2>2, <2>3, <2>4, EarnedPage
  <2> QED BY <2>1, <2>5 DEF Authors
<1> QED BY <1>3, <1>4, <1>5, <1>6, <1>7, <1>8, <1>9, <1>10 DEF PageStep, Kinds

(* Uploads: a voice note is its uploader's.                                *)
LEMMA EarnedFail ==
  ASSUME Types, NEW au, Earned(au), NEW s, NEW m, FailMove(s, m), drawn' = drawn,
         UNCHANGED <<msgs, receipts, plays, hand, chan, inbox>>,
         \A x \in DOMAIN uploads' : x \in DOMAIN uploads /\ uploads'[x] = uploads[x]
  PROVE  Earned(au)'
<1>1. HandTypes /\ PageTypes /\ drawn \in Nat BY DEF Types, HandTypes
<1>2. s \in DOMAIN page BY DEF FailMove
<1>3. PICK q \in Pages(drawn) :
        /\ page' = [page EXCEPT ![s] = q] /\ DOMAIN q.shown = DOMAIN page[s].shown
        /\ \A x \in DOMAIN page[s].shown : q.shown[x] = IF x = m THEN Failed(page[s].shown[x]) ELSE page[s].shown[x]
  BY DEF FailMove
<1>4. ASSUME NEW x \in DOMAIN q.shown
      PROVE  \/ x \in DOMAIN page[s].shown /\ q.shown[x] = page[s].shown[x]
             \/ EntrySound(au, receipts, plays, s, x, q.shown[x])
  <2> DEFINE e == page[s].shown[x]
  <2>1. e \in Entry /\ EntrySound(au, receipts, plays, s, x, e)
    BY <1>1, <1>2, <1>3, PageAt, PageGet, EntryGet DEF Earned
  <2>2. q.shown[x] \in {Failed(e), e} BY <1>3
  <2> HIDE DEF e
  <2>3. Failed(e).by = e.by /\ Failed(e).tick = "failed" /\ Failed(e).played = e.played BY <2>1 DEF Failed, Entry
  <2>4. EntrySound(au, receipts, plays, s, x, Failed(e)) BY <2>1, <2>3 DEF EntrySound
  <2> QED BY <2>1, <2>2, <2>4
<1>5. inbox' = [inbox EXCEPT ![s] = inbox[s]] BY <1>1 DEF HandTypes
<1>6. drawn' \in Nat /\ drawn' >= drawn BY <1>1
<1> QED BY <1>2, <1>3, <1>4, <1>5, <1>6, EarnedPage

LEMMA EarnedUpload ==
  ASSUME Types, NEW au \in [1..drawn -> Person], Earned(au), UploadStep
  PROVE  Authors'
<1>1. HandTypes /\ ChanTypes /\ PageTypes /\ drawn \in Nat BY DEF Types, HandTypes
<1>2. drawn' = drawn /\ UNCHANGED <<receipts, plays, hand, inbox>>
  BY DEF UploadStep, Store, Announce, Refuse, LoseAnswer, rows
<1>3. drawn' \in Nat /\ drawn' >= drawn BY <1>1, <1>2
<1>4. ASSUME NEW m \in DOMAIN uploads, Store(m) PROVE Earned(au)'
  <2>1. UNCHANGED <<chan, page>> BY <1>4 DEF Store
  <2>2. /\ DOMAIN msgs' = DOMAIN msgs \cup {m} /\ DOMAIN uploads' = DOMAIN uploads
        /\ uploads'[m].by = uploads[m].by
        /\ \A x \in DOMAIN uploads \ {m} : uploads'[x] = uploads[x]
        /\ msgs'[m] = [by |-> Who[uploads[m].by], text |-> Cut(m), deleted |-> FALSE, voice |-> TRUE]
        /\ \A x \in DOMAIN msgs \ {m} : msgs'[x] = msgs[x]
    BY <1>4, TypesStore
  <2>3. msgs'[m].by = Who[uploads[m].by] BY <2>2
  <2>4. Who[uploads[m].by] = au[m] BY DEF Earned
  <2>5. \A x \in DOMAIN msgs' : (x \in DOMAIN msgs /\ msgs'[x].by = msgs[x].by) \/ msgs'[x].by = au[x]
    BY <2>2, <2>3, <2>4
  <2>6. \A x \in DOMAIN uploads' : x \in DOMAIN uploads /\ uploads'[x].by = uploads[x].by BY <2>2
  <2> QED BY <1>2, <1>3, <2>1, <2>5, <2>6, EarnedStep
<1>5. ASSUME NEW m \in DOMAIN uploads, Announce(m) PROVE Earned(au)'
  <2>1. UNCHANGED <<msgs, page>> BY <1>5 DEF Announce, rows
  <2> DEFINE ev == VoiceEvent(m)
  <2>2. /\ m \in DOMAIN msgs /\ \A x \in DOMAIN uploads' : x \in DOMAIN uploads /\ uploads'[x] = uploads[x]
        /\ ev.type = "message" /\ ev.m = m /\ ev.who = msgs[m].by /\ ev \in Event
        /\ chan' = Everyone(ev) \/ UNCHANGED chan
    BY <1>5, TypesAnnounce DEF EventIn
  <2> HIDE DEF ev
  <2>3. Sound(au, receipts, plays, ev) BY <2>2 DEF Sound, Earned
  <2>4. \A v \in DOMAIN chan' : \A x \in Range(chan'[v]) :
          (v \in DOMAIN chan /\ x \in Range(chan[v])) \/ Sound(au, receipts', plays', x)
    <3>1. CASE UNCHANGED chan BY <3>1
    <3>2. CASE chan' = Everyone(ev)
      <4>1. DOMAIN chan' = DOMAIN chan /\ \A v \in DOMAIN chan : Range(chan'[v]) = Range(chan[v]) \cup {ev}
        BY <1>1, <2>2, <3>2, ChanAppend
      <4> QED BY <1>2, <2>3, <4>1
    <3> QED BY <2>2, <3>1, <3>2
  <2> QED BY <1>2, <1>3, <2>1, <2>2, <2>4, EarnedStep
<1>6. ASSUME NEW m \in DOMAIN uploads, Refuse(m) PROVE Earned(au)'
  <2>1. UNCHANGED <<msgs, chan>> BY <1>6 DEF Refuse, rows
  <2>2. /\ \A x \in DOMAIN uploads' : x \in DOMAIN uploads /\ uploads'[x] = uploads[x]
        /\ page' = page \/ FailMove(uploads[m].by, m)
    BY <1>6, TypesRefuse
  <2>3. CASE page' = page BY <1>2, <1>3, <2>1, <2>2, <2>3, EarnedStep
  <2>4. CASE FailMove(uploads[m].by, m) BY <1>2, <2>1, <2>2, <2>4, EarnedFail
  <2> QED BY <2>2, <2>3, <2>4
<1>7. ASSUME NEW s \in DOMAIN page, NEW m \in DOMAIN page[s].shown, LoseAnswer(s, m) PROVE Earned(au)'
  <2>1. UNCHANGED <<msgs, chan, uploads>> BY <1>7 DEF LoseAnswer, rows
  <2>2. FailMove(s, m) BY <1>7, TypesLoseAnswer
  <2> QED BY <1>2, <2>1, <2>2, EarnedFail
<1> QED BY <1>2, <1>4, <1>5, <1>6, <1>7 DEF UploadStep, Authors

-----------------------------------------------------------------------------
(* Receipts are earned in every room and after every step.                 *)
LEMMA EarnedInit == ASSUME Init PROVE Authors
<1> DEFINE au == [m \in 1..drawn |-> msgs[m].by]
<1>1. /\ drawn \in Nat /\ DOMAIN msgs = 1..drawn /\ \A m \in 1..drawn : msgs[m].by \in Person
      /\ DOMAIN uploads = {} /\ \A s \in Socket : hand[s] = <<>> /\ inbox[s] = <<>>
      /\ DOMAIN chan = mix.on /\ \A s \in mix.on : chan[s] = <<>>
      /\ DOMAIN page = mix.on /\ mix.on \subseteq Socket
      /\ \A s \in mix.on : page[s].shown = [m \in DOMAIN msgs |-> FromServer(s, msgs[m].by, msgs[m].text, 0)]
  BY InitFacts
<1>2. au \in [1..drawn -> Person] /\ \A m \in DOMAIN msgs : msgs[m].by = au[m] BY <1>1
<1>3. ASSUME NEW s \in mix.on, NEW m \in DOMAIN page[s].shown
      PROVE  EntrySound(au, receipts, plays, s, m, page[s].shown[m])
  <2>1. m \in DOMAIN msgs /\ page[s].shown[m] = FromServer(s, msgs[m].by, msgs[m].text, 0) BY <1>1
  <2>2. LET e == FromServer(s, msgs[m].by, msgs[m].text, 0) IN e.by = msgs[m].by /\ e.bubble = "none" /\ e.played = FALSE
    BY DEF FromServer
  <2> QED BY <1>2, <2>1, <2>2 DEF EntrySound
<1>4. HandSound(au, receipts, plays, <<>>) BY DEF HandSound
<1> HIDE DEF au
<1>5. Earned(au) BY <1>1, <1>2, <1>3, <1>4, RangeEmpty DEF Earned
<1> QED BY <1>2, <1>5 DEF Authors

LEMMA AuthorsNext == ASSUME Types, Authors, [Next]_vars PROVE Authors'
<1>1. PICK au \in [1..drawn -> Person] : Earned(au) BY DEF Authors
<1>2. HandTypes /\ ChanTypes /\ PageTypes /\ drawn \in Nat BY DEF Types, HandTypes
<1>3. ASSUME drawn' = drawn, Earned(au)' PROVE Authors' BY <1>1, <1>3 DEF Authors
<1>4. ASSUME NEW s \in Socket, ConsumerStep(s) PROVE Authors'
  <2>1. drawn' = drawn
    BY <1>4 DEF ConsumerStep, Connect, History, Join, Snapshot, Leave, Discard, Broadcast, Fanout, Allow,
       CreateMessage, Status, ReadMessages, PlayMessage, Toggle, EditMessage, DeleteMessage
  <2>2. Earned(au)'
    <3>1. CASE Connect(s) BY <1>1, <3>1, EarnedConnect
    <3>2. CASE History(s) BY <1>1, <3>2, EarnedHistory
    <3>3. CASE Join(s) \/ Leave(s) \/ Snapshot(s) \/ Allow(s) BY <1>1, <3>3, EarnedSimple
    <3>4. CASE Discard(s) BY <1>1, <3>4, EarnedDiscard
    <3>5. CASE Broadcast(s) BY <1>1, <3>5, EarnedBroadcast
    <3>6. CASE Fanout(s) BY <1>1, <3>6, EarnedFanout
    <3>7. CASE CreateMessage(s) BY <1>1, <3>7, EarnedCreate
    <3>8. CASE Status(s) BY <1>1, <3>8, EarnedStatus
    <3>9. CASE ReadMessages(s) BY <1>1, <3>9, EarnedRead
    <3>10. CASE PlayMessage(s) BY <1>1, <3>10, EarnedPlay
    <3>11. CASE Toggle(s) \/ EditMessage(s) \/ DeleteMessage(s) BY <1>1, <3>11, EarnedWrite
    <3> QED BY <1>4, <3>1, <3>2, <3>3, <3>4, <3>5, <3>6, <3>7, <3>8, <3>9, <3>10, <3>11 DEF ConsumerStep
  <2> QED BY <1>3, <2>1, <2>2
<1>5. ASSUME NEW s \in DOMAIN page, PageStep(s) \/ SignTimeout(s) PROVE Authors' BY <1>1, <1>5, EarnedPageStep
<1>6. CASE UploadStep BY <1>1, <1>6, EarnedUpload
<1>7. CASE Restart
  <2>1. Crash(Living) /\ UNCHANGED <<drawn, msgs, receipts, plays>> BY <1>7 DEF Restart, rows, Living
  <2>2. DOMAIN uploads' = {} /\ Living \in SUBSET Socket BY <1>7, TypesRestart
  <2>3. Earned(au)' BY <1>1, <2>1, <2>2, EarnedCrash
  <2> QED BY <1>3, <2>1, <2>3
<1>8. CASE Fade
  <2>1. UNCHANGED <<drawn, msgs, receipts, plays, hand, inbox, chan, page, uploads>> BY <1>8 DEF Fade, rows
  <2>2. Earned(au)' BY <1>1, <1>2, <2>1, EarnedStep
  <2> QED BY <1>3, <2>1, <2>2
<1>9. CASE UNCHANGED vars
  <2>1. UNCHANGED <<drawn, msgs, receipts, plays, hand, inbox, chan, page, uploads>> BY <1>9 DEF vars
  <2>2. Earned(au)' BY <1>1, <1>2, <2>1, EarnedStep
  <2> QED BY <1>3, <2>1, <2>2
<1> QED BY <1>4, <1>5, <1>6, <1>7, <1>8, <1>9 DEF Next

LEMMA AuthorsHold == Spec => []Authors
<1>1. Init => Authors BY EarnedInit
<1>2. Types /\ Authors /\ [Next]_vars => Authors' BY AuthorsNext
<1> QED BY <1>1, <1>2, TypesHold, PTL DEF Spec

(* In every room: on the page a message was sent from, a read tick means   *)
(* that somebody else has a ReadReceipt of it, and a played mark that      *)
(* somebody else has a PlayedReceipt, in whatever order the events come.   *)
THEOREM ReceiptsEarnedHolds == Spec => []ReceiptsEarned
<1>1. Authors => ReceiptsEarned
  <2>1. ASSUME NEW au, Earned(au) PROVE ReceiptsEarned
    BY <2>1 DEF ReceiptsEarned, Earned, EntrySound
  <2> QED BY <2>1 DEF Authors
<1> QED BY <1>1, AuthorsHold, PTL

-----------------------------------------------------------------------------
(* No message is missed.  A message that is there and not lost is on every *)
(* page, or in its channel, or still to be told by the handler that wrote  *)
(* it or by its upload - or the page has still to be sent the history.     *)
Telling(h, m) == Casts(h, "message") /\ Head(h).ev.m = m
Coming(m) == m \in DOMAIN uploads \/ \E v \in Socket : Telling(hand[v], m)
Sent(s, m) == \E ev \in Range(chan[s]) : ev.type = "message" /\ ev.m = m
Reach(s, m) == m \in DOMAIN page[s].shown \/ Sent(s, m) \/ Coming(m) \/ Awaits(hand[s], "history")
AllReach == \A s \in DOMAIN page : \A m \in Alive \ lost : Reach(s, m)

(* A voice note that is not stored is no message yet, nor will a frame     *)
(* make it one.                                                            *)
Unwritten ==
  /\ \A m \in DOMAIN uploads : ~uploads[m].stored => m \notin DOMAIN msgs
  /\ \A s \in Socket : \A f \in Range(inbox[s]) : f.type = "message" => f.m \notin DOMAIN uploads

(* Hands that neither wait for the history nor tell of a message, and the  *)
(* steps that leave what reaches a page alone.                             *)
Mute(h) == ~Awaits(h, "history") /\ ~Casts(h, "message")
Plain ==
  /\ UNCHANGED <<uploads, chan, lost, st>>
  /\ DOMAIN msgs' = DOMAIN msgs /\ \A m \in DOMAIN msgs : msgs[m].deleted => msgs'[m].deleted
  /\ DOMAIN page' = DOMAIN page /\ \A v \in DOMAIN page : DOMAIN page'[v].shown = DOMAIN page[v].shown
  /\ \A v \in Socket : \A f \in Range(inbox'[v]) : f \in Range(inbox[v]) \/ f.type # "message"
  /\ \A v \in Socket : hand'[v] = hand[v] \/ (Mute(hand[v]) /\ Mute(hand'[v]))

LEMMA Mutes ==
  ASSUME NEW s \in Socket
  PROVE  LET i == Who[s] IN
         /\ Mute(<<>>) /\ Mute(Joining2(i)) /\ Mute(Joining3(i)) /\ Mute(Joining4(i))
         /\ Mute(Leaving2(i)) /\ Mute(Leaving3(i)) /\ Mute(Leaving4(i)) /\ Mute(Leaving5(i))
         /\ \A f : Mute(Reports(f)) /\ (f.type # "message" => Mute(Tells(f)))
BY HandShapes, FrameShapes DEF Mute, Awaits, Casts

LEMMA PlainMove ==
  ASSUME Types, NEW s \in Socket, NEW h, NEW b, Move(s, h, b), UNCHANGED <<uploads, chan, lost, st>>,
         DOMAIN msgs' = DOMAIN msgs, \A m \in DOMAIN msgs : msgs[m].deleted => msgs'[m].deleted,
         DOMAIN page' = DOMAIN page, \A v \in DOMAIN page : DOMAIN page'[v].shown = DOMAIN page[v].shown,
         Range(b) \subseteq Range(inbox[s]), Mute(hand[s]), Mute(h)
  PROVE  Plain
<1>1. HandTypes BY DEF Types
<1>2. hand'[s] = h /\ inbox'[s] = b /\ \A v \in Socket \ {s} : hand'[v] = hand[v] /\ inbox'[v] = inbox[v]
  BY <1>1, MoveParts
<1>3. \A v \in Socket : \A f \in Range(inbox'[v]) : f \in Range(inbox[v]) \/ f.type # "message" BY <1>2
<1>4. \A v \in Socket : hand'[v] = hand[v] \/ (Mute(hand[v]) /\ Mute(hand'[v]))
  <2>1. ASSUME NEW v \in Socket, v # s PROVE hand'[v] = hand[v] BY <1>2, <2>1
  <2>2. Mute(hand[s]) /\ Mute(hand'[s])
    <3>1. hand'[s] = h BY <1>2
    <3> QED BY <3>1
  <2> QED BY <2>1, <2>2
<1> QED BY <1>3, <1>4 DEF Plain

LEMMA PlainPage ==
  ASSUME Types, NEW s \in DOMAIN page, NEW q, NEW f, SaysOne(s, q, f), f.type # "message",
         DOMAIN q.shown = DOMAIN page[s].shown, UNCHANGED <<uploads, chan, lost, st, msgs, hand>>
  PROVE  Plain
<1>1. HandTypes /\ PageTypes BY DEF Types
<1>2. s \in Socket BY <1>1, PageAt
<1>3. f \in Event /\ page' = [page EXCEPT ![s] = q] /\ inbox' = [inbox EXCEPT ![s] = Append(inbox[s], f)]
  BY DEF SaysOne, FrameIn, Own
<1>4. Range(Append(inbox[s], f)) = Range(inbox[s]) \cup {f} BY <1>1, <1>2, <1>3, BoxAppend
<1>5. inbox'[s] = Append(inbox[s], f) /\ \A v \in Socket \ {s} : inbox'[v] = inbox[v] BY <1>1, <1>2, <1>3, InboxParts
<1>6. DOMAIN page' = DOMAIN page /\ page'[s] = q /\ \A v \in DOMAIN page \ {s} : page'[v] = page[v]
  BY <1>1, <1>3, PageParts
<1>7. \A v \in Socket : \A x \in Range(inbox'[v]) : x \in Range(inbox[v]) \/ x.type # "message" BY <1>4, <1>5
<1>8. \A v \in DOMAIN page : DOMAIN page'[v].shown = DOMAIN page[v].shown BY <1>6
<1>9. DOMAIN msgs' = DOMAIN msgs /\ \A m \in DOMAIN msgs : msgs[m].deleted => msgs'[m].deleted OBVIOUS
<1>10. \A v \in Socket : hand'[v] = hand[v] OBVIOUS
<1> QED BY <1>6, <1>7, <1>8, <1>9, <1>10 DEF Plain

(* Handlers that write no message and announce none.                       *)
LEMMA PlainConsumer ==
  ASSUME Types, NEW s \in Socket,
         \/ Join(s) \/ Leave(s) \/ Snapshot(s) \/ Allow(s) \/ Status(s) \/ ReadMessages(s) \/ PlayMessage(s)
         \/ (Toggle(s) /\ ~Tombstone(s)) \/ EditMessage(s) \/ DeleteMessage(s)
  PROVE  Plain
<1>1. HandTypes /\ PageTypes BY DEF Types
<1>2. UNCHANGED <<uploads, chan, lost, st>>
  <2>1. CASE Toggle(s) /\ ~Tombstone(s) BY <2>1, TypesToggle DEF Toggle
  <2> QED BY <2>1 DEF Join, Leave, Snapshot, Allow, Status, ReadMessages, PlayMessage, EditMessage, DeleteMessage, ghosts
<1>3. DOMAIN msgs' = DOMAIN msgs /\ \A m \in DOMAIN msgs : msgs[m].deleted => msgs'[m].deleted
  <2>1. CASE EditMessage(s) BY <2>1 DEF EditMessage, Types, RowTypes, MessageType
  <2>2. CASE DeleteMessage(s) BY <2>2 DEF DeleteMessage, Types, RowTypes, MessageType
  <2> QED BY <2>1, <2>2 DEF Join, Leave, Snapshot, Allow, Status, ReadMessages, PlayMessage, Toggle, rows
<1>4. DOMAIN page' = DOMAIN page /\ \A v \in DOMAIN page : DOMAIN page'[v].shown = DOMAIN page[v].shown
  <2>1. CASE Snapshot(s) /\ s \in DOMAIN page
    <3> DEFINE q == [page[s] EXCEPT !.members = hash \cup {Who[s]}]
    <3>1. page' = [page EXCEPT ![s] = q] BY <2>1 DEF Snapshot
    <3>2. q.shown = page[s].shown BY <1>1, <2>1, PageAt DEF Pages
    <3> HIDE DEF q
    <3> QED BY <1>1, <2>1, <3>1, <3>2, PageParts
  <2>2. CASE Status(s) /\ s \in DOMAIN page
    <3>1. PICK q \in Pages(drawn) : page' = [page EXCEPT ![s] = q] /\ DOMAIN q.shown = DOMAIN page[s].shown
      BY <2>2, TypesStatus
    <3> QED BY <1>1, <2>2, <3>1, PageParts
  <2>3. CASE (Snapshot(s) \/ Status(s)) /\ s \notin DOMAIN page BY <2>3, TypesStatus DEF Snapshot
  <2>4. CASE Toggle(s) /\ ~Tombstone(s) BY <2>4, TypesToggle
  <2> QED BY <2>1, <2>2, <2>3, <2>4 DEF Join, Leave, Allow, ReadMessages, PlayMessage, EditMessage, DeleteMessage
<1>5. \E h, b : Move(s, h, b) /\ Range(b) \subseteq Range(inbox[s]) /\ Mute(hand[s]) /\ Mute(h)
  <2>1. ASSUME Begins(s, Arg(s)), NEW g, g.type # "message",
               Move(s, <<>>, Tail(inbox[s])) \/ Move(s, Tells(g), Tail(inbox[s]))
        PROVE  \E h, b : Move(s, h, b) /\ Range(b) \subseteq Range(inbox[s]) /\ Mute(hand[s]) /\ Mute(h)
    <3>1. Mute(hand[s]) /\ Mute(<<>>) /\ Mute(Tells(g)) BY <2>1, Mutes DEF Begins
    <3>2. Range(Tail(inbox[s])) \subseteq Range(inbox[s]) BY <1>1, <2>1, BoxTail
    <3> QED BY <2>1, <3>1, <3>2
  <2>2. CASE Join(s)
    <3>1. hand[s] = Joining2(Who[s]) /\ Move(s, Joining3(Who[s]), inbox[s]) BY <2>2, TypesJoin DEF JoinMove
    <3> QED BY <3>1, Mutes
  <2>3. CASE Leave(s)
    <3>1. hand[s] = Leaving3(Who[s]) /\ Move(s, Leaving4(Who[s]), inbox[s]) BY <2>3, TypesLeave DEF LeaveMove
    <3> QED BY <3>1, Mutes
  <2>4. CASE Snapshot(s)
    <3>1. hand[s] = Joining4(Who[s]) /\ Move(s, <<>>, inbox[s]) BY <2>4, TypesSnapshot DEF SnapshotMove
    <3> QED BY <3>1, Mutes
  <2>5. CASE Status(s)
    <3>1. hand[s] = Reports(Arg(s)) /\ Move(s, <<>>, inbox[s]) BY <2>5, TypesStatus DEF StatusMove
    <3> QED BY <3>1, Mutes
  <2>6. CASE Allow(s)
    <3>1. Begins(s, Arg(s)) /\ Arg(s).type \in Kinds
          /\ (Move(s, <<>>, Tail(inbox[s])) \/ Move(s, Tells(Arg(s)), Tail(inbox[s])))
      BY <2>6, TypesAllow DEF TellMove
    <3>2. Arg(s).type # "message" BY <3>1 DEF Kinds
    <3> QED BY <2>1, <3>1, <3>2
  <2>7. CASE ReadMessages(s)
    <3>1. Begins(s, Arg(s)) /\ ReadEvent(s).type = "read"
          /\ (Move(s, <<>>, Tail(inbox[s])) \/ Move(s, Tells(ReadEvent(s)), Tail(inbox[s])))
      BY <2>7, TypesRead DEF TellMove
    <3> QED BY <2>1, <3>1
  <2>8. CASE PlayMessage(s)
    <3>1. Begins(s, Arg(s)) /\ Arg(s).type = "played"
          /\ (Move(s, <<>>, Tail(inbox[s])) \/ Move(s, Tells(Arg(s)), Tail(inbox[s])))
      BY <2>8, TypesPlay DEF TellMove
    <3> QED BY <2>1, <3>1
  <2>9. CASE Toggle(s) /\ ~Tombstone(s)
    <3>1. Begins(s, Arg(s)) /\ \/ Move(s, <<>>, Tail(inbox[s]))
                               \/ Move(s, Tells(ReactEvent(s)), Tail(inbox[s])) /\ ReactEvent(s).type = "reaction"
      BY <2>9, TypesToggle
    <3> QED BY <2>1, <3>1, Mutes, BoxTail, <1>1 DEF Begins
  <2>10. CASE EditMessage(s)
    <3>1. Begins(s, Arg(s)) /\ Arg(s).type = "edit"
          /\ (Move(s, <<>>, Tail(inbox[s])) \/ Move(s, Tells(Arg(s)), Tail(inbox[s])))
      BY <2>10, TypesEdit
    <3> QED BY <2>1, <3>1
  <2>11. CASE DeleteMessage(s)
    <3>1. Begins(s, Arg(s)) /\ Arg(s).type = "delete"
          /\ (Move(s, <<>>, Tail(inbox[s])) \/ Move(s, Tells(Arg(s)), Tail(inbox[s])))
      BY <2>11, TypesDelete
    <3> QED BY <2>1, <3>1
  <2> QED BY <2>2, <2>3, <2>4, <2>5, <2>6, <2>7, <2>8, <2>9, <2>10, <2>11
<1>6. PICK h, b : Move(s, h, b) /\ Range(b) \subseteq Range(inbox[s]) /\ Mute(hand[s]) /\ Mute(h) BY <1>5
<1> QED BY <1>2, <1>3, <1>4, <1>6, PlainMove

LEMMA PlainPageStep ==
  ASSUME Types, NEW s \in DOMAIN page, PageStep(s) \/ SignTimeout(s),
         ~Send(s), ~SendVoice(s), ~CloseSocket(s)
  PROVE  Plain
<1>1. HandTypes /\ PageTypes BY DEF Types
<1>2. s \in Socket BY <1>1, PageAt
<1>3. ASSUME NEW type \in Kinds, Start(s, type) \/ Stop(s, type) PROVE Plain
  <2>1. UNCHANGED <<uploads, chan, lost, st, msgs, hand>> BY <1>3 DEF Start, Stop, rows, ghosts
  <2>2. PICK q, f : SaysOne(s, q, f) /\ q.shown = page[s].shown /\ f.type \notin Named \cup {"message"}
    BY <1>3, TypesStart
  <2> QED BY <2>1, <2>2, PlainPage
<1>4. ASSUME NEW m \in DOMAIN page[s].shown, React(s, m) \/ CommitEdit(s, m) \/ Del(s, m) PROVE Plain
  <2>1. UNCHANGED <<uploads, chan, lost, st, msgs, hand>> BY <1>4 DEF React, CommitEdit, Del, rows, ghosts
  <2>2. PICK q, f : SaysOne(s, q, f) /\ DOMAIN q.shown = DOMAIN page[s].shown /\ f.type # "message"
    <3>1. CASE React(s, m)
      <4>1. Asks(s, "reaction", ServerId(page[s].shown[m], m), 0).type = "reaction" BY DEF Asks, Ev
      <4> QED BY <3>1, <4>1, TypesReact, ZenonT(40) DEF Shows
    <3>2. CASE CommitEdit(s, m)
      <4>1. \A n : Asks(s, "edit", ServerId(page[s].shown[m], m), n).type = "edit" BY DEF Asks, Ev
      <4>2. PICK q : /\ SaysOne(s, q, Asks(s, "edit", ServerId(page[s].shown[m], m), drawn'))
                     /\ DOMAIN q.shown = DOMAIN page[s].shown
        BY <3>2, TypesCommitEdit DEF Shows
      <4> QED BY <4>1, <4>2
    <3>3. CASE Del(s, m)
      <4>1. Asks(s, "delete", ServerId(page[s].shown[m], m), 0).type = "delete" BY DEF Asks, Ev
      <4>2. PICK q : /\ SaysOne(s, q, Asks(s, "delete", ServerId(page[s].shown[m], m), 0))
                     /\ DOMAIN q.shown = DOMAIN page[s].shown
        BY <3>3, TypesDel DEF Shows
      <4> QED BY <4>1, <4>2
    <3> QED BY <1>4, <3>1, <3>2, <3>3
  <2> QED BY <2>1, <2>2, PlainPage
<1>5. ASSUME NEW m \in DOMAIN page[s].shown, Play(s, m) PROVE Plain
  <2>1. UNCHANGED <<uploads, chan, lost, st, msgs, hand>> BY <1>5 DEF Play, rows, ghosts
  <2>2. SaysOne(s, page[s], Asks(s, "played", m, 0)) BY <1>5, TypesPlayed
  <2>3. Asks(s, "played", m, 0).type = "played" BY DEF Asks, Ev
  <2> QED BY <2>1, <2>2, <2>3, PlainPage
<1>6. CASE SignTimeout(s)
  <2>1. UNCHANGED <<uploads, chan, lost, st, msgs, hand, inbox>> BY <1>6 DEF SignTimeout, rows, ghosts
  <2>2. PICK q : page' = [page EXCEPT ![s] = q] /\ q.shown = page[s].shown BY <1>6, TypesSign
  <2>3. DOMAIN page' = DOMAIN page /\ page'[s] = q /\ \A v \in DOMAIN page \ {s} : page'[v] = page[v]
    BY <1>1, <2>2, PageParts
  <2>4. \A v \in DOMAIN page : DOMAIN page'[v].shown = DOMAIN page[v].shown BY <2>2, <2>3
  <2> QED BY <2>1, <2>3, <2>4 DEF Plain
<1> QED BY <1>3, <1>4, <1>5, <1>6 DEF PageStep, Kinds

LEMMA PlainRest ==
  ASSUME Types, Fade \/ UNCHANGED vars \/ \E s \in DOMAIN page : \E m \in DOMAIN page[s].shown : LoseAnswer(s, m)
  PROVE  Plain
<1>1. UNCHANGED <<uploads, chan, lost, st, msgs, hand, inbox>> BY DEF Fade, vars, LoseAnswer, rows, ghosts
<1>2. DOMAIN page' = DOMAIN page /\ \A v \in DOMAIN page : DOMAIN page'[v].shown = DOMAIN page[v].shown
  <2>1. CASE Fade \/ UNCHANGED vars BY <2>1 DEF Fade, vars
  <2>2. ASSUME NEW s \in DOMAIN page, NEW m \in DOMAIN page[s].shown, LoseAnswer(s, m)
        PROVE  DOMAIN page' = DOMAIN page /\ \A v \in DOMAIN page : DOMAIN page'[v].shown = DOMAIN page[v].shown
    <3>1. PICK q : page' = [page EXCEPT ![s] = q] /\ DOMAIN q.shown = DOMAIN page[s].shown
      BY <2>2, TypesLoseAnswer DEF FailMove
    <3>2. PageTypes BY DEF Types
    <3> QED BY <3>1, <3>2, PageParts
  <2> QED BY <2>1, <2>2
<1> QED BY <1>1, <1>2 DEF Plain

(* The steps that remain: those that write, tell, connect or close.        *)
Telltale(s) ==
  \/ Connect(s) \/ History(s) \/ Discard(s) \/ Broadcast(s) \/ Fanout(s) \/ CreateMessage(s)
  \/ (Toggle(s) /\ Tombstone(s))
PageMakes(s) == Send(s) \/ SendVoice(s) \/ CloseSocket(s)
Uploading(m) == Store(m) \/ Announce(m) \/ Refuse(m)

LEMMA Steps ==
  ASSUME Types, [Next]_vars
  PROVE  \/ Plain \/ Restart
         \/ \E s \in Socket : Telltale(s)
         \/ \E s \in DOMAIN page : PageMakes(s)
         \/ \E m \in DOMAIN uploads : Uploading(m)
<1>1. ASSUME NEW s \in Socket, ConsumerStep(s) PROVE Plain \/ Telltale(s)
  BY <1>1, PlainConsumer DEF ConsumerStep, Telltale
<1>2. ASSUME NEW s \in DOMAIN page, PageStep(s) \/ SignTimeout(s) PROVE Plain \/ PageMakes(s)
  BY <1>2, PlainPageStep DEF PageMakes
<1>3. CASE UploadStep BY <1>3, PlainRest DEF UploadStep, Uploading
<1>4. CASE Fade \/ UNCHANGED vars BY <1>4, PlainRest
<1> QED BY <1>1, <1>2, <1>3, <1>4 DEF Next

(* A step keeps what reaches each page, if                                 *)
(*   1 what it adds to the messages is still to come,                      *)
(*   2 what was still to come still is, or is in every channel, and        *)
(*   3 a page there was keeps what it shows and is being sent; and a page  *)
(*     it changes otherwise waits for the history or has all of it.        *)
PageKeeps(v) ==
  /\ v \in DOMAIN page /\ DOMAIN page[v].shown \subseteq DOMAIN page'[v].shown
  /\ \A m : Sent(v, m) => Sent(v, m)' \/ m \in DOMAIN page'[v].shown
  /\ Awaits(hand[v], "history") => Awaits(hand'[v], "history")

LEMMA ReachStep ==
  ASSUME AllReach,
         \A m \in (Alive \ lost)' : m \in Alive \ lost \/ Coming(m)',
         \A m \in (Alive \ lost)' : Coming(m) => Coming(m)' \/ \A v \in DOMAIN page' : Sent(v, m)',
         \A v \in DOMAIN page' : PageKeeps(v) \/ Awaits(hand'[v], "history") \/ Alive' \subseteq DOMAIN page'[v].shown
  PROVE  AllReach'
<1>1. ASSUME NEW v \in DOMAIN page', NEW m \in (Alive \ lost)' PROVE Reach(v, m)'
  <2>1. CASE Coming(m)' BY <2>1 DEF Reach
  <2>2. CASE Awaits(hand'[v], "history") BY <2>2 DEF Reach
  <2>3. CASE Alive' \subseteq DOMAIN page'[v].shown BY <2>3 DEF Reach
  <2>4. CASE PageKeeps(v) /\ m \in Alive \ lost
    <3>1. Reach(v, m) BY <2>4 DEF PageKeeps, AllReach
    <3> QED BY <2>4, <3>1 DEF Reach, PageKeeps
  <2> QED BY <2>1, <2>2, <2>3, <2>4
<1> QED BY <1>1 DEF AllReach

(* Hands that are mute or keep what they hold leave what is coming.        *)
LEMMA ComingKept ==
  ASSUME \A v \in Socket : hand'[v] = hand[v] \/ ~Casts(hand[v], "message"),
         NEW m, Coming(m), m \in DOMAIN uploads => m \in DOMAIN uploads'
  PROVE  Coming(m)'
<1>1. CASE m \in DOMAIN uploads BY <1>1 DEF Coming
<1>2. ASSUME NEW v \in Socket, Telling(hand[v], m) PROVE Coming(m)'
  <2>1. hand'[v] = hand[v] BY <1>2 DEF Telling
  <2>2. Telling(hand'[v], m) BY <1>2, <2>1
  <2> QED BY <2>2 DEF Coming
<1> QED BY <1>1, <1>2 DEF Coming

LEMMA ReachPlain == ASSUME Types, AllReach, Unwritten, Plain PROVE AllReach' /\ Unwritten'
<1>1. (Alive \ lost)' \subseteq Alive \ lost BY DEF Plain, Alive
<1>2. \A v \in Socket : hand'[v] = hand[v] \/ ~Casts(hand[v], "message") BY DEF Plain, Mute
<1>3. uploads' = uploads /\ chan' = chan BY DEF Plain
<1>4. \A m : Coming(m) => Coming(m)' BY <1>2, <1>3, ComingKept
<1>5. \A v \in DOMAIN page' : PageKeeps(v) \/ Awaits(hand'[v], "history")
  <2>1. ASSUME NEW v \in DOMAIN page', ~Awaits(hand'[v], "history") PROVE PageKeeps(v)
    <3>1. v \in DOMAIN page /\ DOMAIN page[v].shown \subseteq DOMAIN page'[v].shown BY <2>1 DEF Plain
    <3>2. \A m : Sent(v, m) => Sent(v, m)' BY <1>3 DEF Sent
    <3>3. Awaits(hand[v], "history") => Awaits(hand'[v], "history")
      <4>1. v \in Socket => hand'[v] = hand[v] \/ Mute(hand[v]) BY DEF Plain
      <4>2. v \in Socket BY <3>1, PageAt DEF Types
      <4> QED BY <4>1, <4>2 DEF Mute
    <3> QED BY <3>1, <3>2, <3>3 DEF PageKeeps
  <2> QED BY <2>1
<1>6. AllReach' BY <1>1, <1>4, <1>5, ReachStep
<1>7. Unwritten' BY DEF Unwritten, Plain
<1> QED BY <1>6, <1>7

LEMMA ReachConnect ==
  ASSUME Types, AllReach, Unwritten, NEW s \in Socket, Connect(s)
  PROVE  AllReach' /\ Unwritten'
<1>1. HandTypes /\ ChanTypes /\ PageTypes BY DEF Types
<1>2. UNCHANGED <<msgs, lost, uploads, inbox>> BY DEF Connect, rows, ghosts
<1>3. chan' = Put(chan, s, <<>>) /\ page' = Put(page, s, NewPage) /\ hand' = [hand EXCEPT ![s] = Joining1(Who[s])] /\ st[s] = "new"
  BY DEF Connect, Joining1
<1>4. hand'[s] = Joining1(Who[s]) /\ \A v \in Socket \ {s} : hand'[v] = hand[v] BY <1>1, <1>3, HandParts
<1>5. hand[s] = <<>> BY <1>1, <1>3 DEF HandTypes, Fine
<1>6. Awaits(hand'[s], "history") BY <1>4, HandShapes, JoiningHands DEF Awaits
<1>7. \A v \in Socket : hand'[v] = hand[v] \/ ~Casts(hand[v], "message") BY <1>4, <1>5 DEF Casts, Awaits
<1>8. \A m : Coming(m) => Coming(m)' BY <1>2, <1>7, ComingKept
<1>9. ASSUME NEW v \in DOMAIN page', v # s PROVE PageKeeps(v)
  <2>1. v \in DOMAIN page /\ page'[v] = page[v] /\ v \in Socket BY <1>1, <1>3, <1>9, PageAt DEF Put
  <2>2. v \in DOMAIN chan BY <1>1, <2>1 DEF ChanTypes, PageTypes
  <2>3. chan'[v] = chan[v] BY <1>3, <1>9, <2>2 DEF Put
  <2> QED BY <1>4, <1>9, <2>1, <2>3 DEF PageKeeps, Sent
<1>10. (Alive \ lost)' = Alive \ lost BY <1>2 DEF Alive
<1>11. \A v \in DOMAIN page' : PageKeeps(v) \/ Awaits(hand'[v], "history") BY <1>6, <1>9
<1>12. AllReach' BY <1>8, <1>10, <1>11, ReachStep
<1>13. Unwritten' BY <1>2 DEF Unwritten
<1> QED BY <1>12, <1>13

LEMMA ReachHistory ==
  ASSUME Types, AllReach, Unwritten, NEW s \in Socket, History(s)
  PROVE  AllReach' /\ Unwritten'
<1>1. HandTypes /\ ChanTypes /\ PageTypes BY DEF Types
<1>2. UNCHANGED <<msgs, lost, uploads, chan>> BY DEF History, rows, ghosts
<1>3. PICK b : Move(s, Joining2(Who[s]), b) /\ \A f \in Range(b) : f \in Range(inbox[s]) \/ f.type = "read"
  BY HistoryShows
<1>4. hand[s] = Joining1(Who[s]) BY HistoryShows
<1>5. hand'[s] = Joining2(Who[s]) /\ inbox'[s] = b /\ \A v \in Socket \ {s} : hand'[v] = hand[v] /\ inbox'[v] = inbox[v]
  BY <1>1, <1>3, MoveParts
<1>6. \A v \in Socket : hand'[v] = hand[v] \/ ~Casts(hand[v], "message")
  <2>1. ~Casts(hand[s], "message") BY <1>4, HandShapes DEF Casts, Awaits
  <2> QED BY <1>5, <2>1
<1>7. \A m : Coming(m) => Coming(m)' BY <1>2, <1>6, ComingKept
<1>8. (Alive \ lost)' = Alive \ lost /\ Alive' = Alive BY <1>2 DEF Alive
<1>9. ASSUME NEW v \in DOMAIN page', v # s PROVE PageKeeps(v)
  <2>1. v \in DOMAIN page /\ page'[v] = page[v] /\ v \in Socket BY <1>1, <1>9, HistoryShows, PageAt
  <2> QED BY <1>2, <1>5, <1>9, <2>1 DEF PageKeeps, Sent
<1>10. s \in DOMAIN page' => Alive' \subseteq DOMAIN page'[s].shown BY <1>8, HistoryShows
<1>11. \A v \in DOMAIN page' : PageKeeps(v) \/ Alive' \subseteq DOMAIN page'[v].shown BY <1>9, <1>10
<1>12. AllReach' BY <1>7, <1>8, <1>11, ReachStep
<1>13. Unwritten'
  <2>1. \A v \in Socket : \A f \in Range(inbox'[v]) : f \in Range(inbox[v]) \/ f.type # "message" BY <1>3, <1>5
  <2> QED BY <1>2, <2>1 DEF Unwritten
<1> QED BY <1>12, <1>13

LEMMA ReachDiscard ==
  ASSUME Types, AllReach, Unwritten, NEW s \in Socket, Discard(s)
  PROVE  AllReach' /\ Unwritten'
<1>1. HandTypes /\ ChanTypes /\ PageTypes BY DEF Types
<1>2. UNCHANGED <<msgs, lost, uploads, page>> /\ chan' = Restrict(chan, DOMAIN chan \ {s}) BY DEF Discard, rows, ghosts
<1>3. hand[s] = Leaving5(Who[s]) /\ Move(s, <<>>, inbox[s]) /\ st[s] = "closing" BY TypesDiscard DEF DiscardMove
<1>4. hand'[s] = <<>> /\ inbox'[s] = inbox[s] /\ \A v \in Socket \ {s} : hand'[v] = hand[v] /\ inbox'[v] = inbox[v]
  BY <1>1, <1>3, MoveParts
<1>5. \A v \in Socket : hand'[v] = hand[v] \/ ~Casts(hand[v], "message")
  <2>1. ~Casts(hand[s], "message") BY <1>3, HandShapes DEF Casts, Awaits
  <2> QED BY <1>4, <2>1
<1>6. \A m : Coming(m) => Coming(m)' BY <1>2, <1>5, ComingKept
<1>7. (Alive \ lost)' = Alive \ lost BY <1>2 DEF Alive
<1>8. ASSUME NEW v \in DOMAIN page' PROVE PageKeeps(v)
  <2>1. v \in DOMAIN page /\ page'[v] = page[v] /\ v # s /\ v \in Socket BY <1>1, <1>2, <1>3 DEF PageTypes
  <2>2. v \in DOMAIN chan BY <1>1, <2>1 DEF ChanTypes, PageTypes
  <2>3. chan'[v] = chan[v] BY <1>2, <2>1, <2>2 DEF Restrict
  <2> QED BY <1>4, <2>1, <2>3 DEF PageKeeps, Sent
<1>9. AllReach' BY <1>6, <1>7, <1>8, ReachStep
<1>10. Unwritten'
  <2>1. \A v \in Socket : inbox'[v] = inbox[v] BY <1>4
  <2> QED BY <1>2, <2>1 DEF Unwritten
<1> QED BY <1>9, <1>10

(* A handler that tells of a message puts it into every channel.           *)
LEMMA ReachBroadcast ==
  ASSUME Types, AllReach, Unwritten, NEW s \in Socket, Broadcast(s)
  PROVE  AllReach' /\ Unwritten'
<1> DEFINE ev == Arg(s)
<1>1. HandTypes /\ ChanTypes /\ PageTypes BY DEF Types
<1>2. UNCHANGED <<msgs, lost, uploads, page>> /\ chan' = Everyone(ev) BY DEF Broadcast, rows, ghosts
<1>3. PICK h, b : CastCase(s, ev, h, b) /\ Move(s, h, b) BY TypesBroadcast
<1>4. ev \in Event BY TypesBroadcast DEF EventIn
<1> HIDE DEF ev
<1>5. hand'[s] = h /\ inbox'[s] = b /\ \A v \in Socket \ {s} : hand'[v] = hand[v] /\ inbox'[v] = inbox[v]
  BY <1>1, <1>3, MoveParts
<1>6. DOMAIN chan' = DOMAIN chan /\ \A v \in DOMAIN chan : Range(chan'[v]) = Range(chan[v]) \cup {ev}
  BY <1>1, <1>2, <1>4, ChanAppend
<1>7. /\ Range(b) \subseteq Range(inbox[s])
      /\ \/ hand[s] # <<>> /\ Head(hand[s]).await = "cast" /\ Head(hand[s]).ev = ev
         \/ hand[s] = <<>>
  BY <1>1, <1>3, CastFacts
<1>8. \A v \in DOMAIN page : v \in DOMAIN chan /\ v \in Socket BY <1>1 DEF ChanTypes, PageTypes
<1>9. ASSUME NEW m, Coming(m) PROVE Coming(m)' \/ \A v \in DOMAIN page' : Sent(v, m)'
  <2>1. CASE m \in DOMAIN uploads BY <1>2, <2>1 DEF Coming
  <2>2. ASSUME NEW v \in Socket \ {s}, Telling(hand[v], m) PROVE Coming(m)' BY <1>5, <2>2 DEF Coming
  <2>3. CASE Telling(hand[s], m)
    <3>1. ev.type = "message" /\ ev.m = m BY <1>7, <2>3 DEF Telling, Casts, Awaits
    <3> QED BY <1>2, <1>6, <1>8, <3>1 DEF Sent
  <2> QED BY <1>9, <2>1, <2>2, <2>3 DEF Coming
<1>10. (Alive \ lost)' = Alive \ lost BY <1>2 DEF Alive
<1>11. ASSUME NEW v \in DOMAIN page' PROVE PageKeeps(v)
  <2>1. v \in DOMAIN page /\ page'[v] = page[v] /\ v \in DOMAIN chan /\ v \in Socket BY <1>2, <1>8
  <2>2. \A m : Sent(v, m) => Sent(v, m)' BY <1>6, <2>1 DEF Sent
  <2>3. Awaits(hand[v], "history") => Awaits(hand'[v], "history") BY <1>5, <1>7, <2>1 DEF Awaits
  <2> QED BY <2>1, <2>2, <2>3 DEF PageKeeps
<1>12. AllReach' BY <1>9, <1>10, <1>11, ReachStep
<1>13. Unwritten'
  <2>1. \A v \in Socket : Range(inbox'[v]) \subseteq Range(inbox[v]) BY <1>5, <1>7
  <2> QED BY <1>2, <2>1 DEF Unwritten
<1> QED BY <1>12, <1>13

LEMMA ReachFanout ==
  ASSUME Types, AllReach, Unwritten, NEW s \in Socket, Fanout(s)
  PROVE  AllReach' /\ Unwritten'
<1> DEFINE ev == Head(chan[s])
<1>1. HandTypes /\ ChanTypes /\ PageTypes BY DEF Types
<1>2. UNCHANGED <<msgs, lost, uploads, hand>> BY DEF Fanout, rows, ghosts
<1>3. PICK b : Move(s, <<>>, b) /\ \A f \in Range(b) : f \in Range(inbox[s]) \/ f.type = "read"
  BY FanoutShows
<1>4. /\ DOMAIN chan' = DOMAIN chan /\ Range(chan[s]) = {ev} \cup Range(chan'[s])
      /\ \A v \in DOMAIN chan \ {s} : chan'[v] = chan[v]
      /\ DOMAIN page' = DOMAIN page /\ \A v \in DOMAIN page \ {s} : page'[v] = page[v]
      /\ s \in DOMAIN page =>
           DOMAIN page'[s].shown = DOMAIN page[s].shown \cup (IF ev.type = "message" THEN {ev.m} ELSE {})
  BY FanoutShows
<1> HIDE DEF ev
<1>5. \A v \in DOMAIN page : v \in DOMAIN chan /\ v \in Socket BY <1>1 DEF ChanTypes, PageTypes
<1>6. ASSUME NEW v \in DOMAIN page' PROVE PageKeeps(v)
  <2>1. CASE v # s
    <3>1. v \in DOMAIN page /\ page'[v] = page[v] /\ chan'[v] = chan[v] BY <1>4, <1>5, <2>1
    <3> QED BY <1>2, <3>1 DEF PageKeeps, Sent
  <2>2. CASE v = s
    <3>1. \A m : Sent(s, m) => Sent(s, m)' \/ m \in DOMAIN page'[s].shown BY <1>4, <2>2 DEF Sent
    <3> QED BY <1>2, <1>4, <2>2, <3>1 DEF PageKeeps
  <2> QED BY <2>1, <2>2
<1>7. (Alive \ lost)' = Alive \ lost BY <1>2 DEF Alive
<1>8. \A m : Coming(m) => Coming(m)' BY <1>2 DEF Coming
<1>9. AllReach' BY <1>6, <1>7, <1>8, ReachStep
<1>10. Unwritten'
  <2>1. inbox'[s] = b /\ \A v \in Socket \ {s} : inbox'[v] = inbox[v] BY <1>1, <1>3, MoveParts
  <2>2. \A v \in Socket : \A f \in Range(inbox'[v]) : f \in Range(inbox[v]) \/ f.type # "message" BY <1>3, <2>1
  <2> QED BY <1>2, <2>2 DEF Unwritten
<1> QED BY <1>9, <1>10

(* The handler that writes a message has still to tell of it.              *)
LEMMA ReachCreate ==
  ASSUME Types, AllReach, Unwritten, NEW s \in Socket, CreateMessage(s)
  PROVE  AllReach' /\ Unwritten'
<1> DEFINE f == Arg(s)  g == AsStored(f)
<1>1. HandTypes /\ ChanTypes /\ PageTypes /\ drawn \in Nat BY DEF Types, HandTypes
<1>2. UNCHANGED <<lost, uploads, chan, page>> BY DEF CreateMessage, ghosts
<1>3. /\ Begins(s, f) /\ f.type = "message" /\ Move(s, Sends(g), Tail(inbox[s])) /\ Own(drawn, s, f)
      /\ DOMAIN msgs' = DOMAIN msgs \cup {f.m} /\ \A m \in DOMAIN msgs \ {f.m} : msgs'[m] = msgs[m]
  BY TypesCreate DEF CreateMove
<1> HIDE DEF f
<1>4. f \in Range(inbox[s]) /\ Range(Tail(inbox[s])) \subseteq Range(inbox[s]) BY <1>1, <1>3, BoxTail
<1>14. g.type = "message" /\ g.m = f.m BY <1>1, <1>3, StoredFrame
<1> HIDE DEF g
<1>5. /\ hand'[s] = Sends(g) /\ inbox'[s] = Tail(inbox[s])
      /\ \A v \in Socket \ {s} : hand'[v] = hand[v] /\ inbox'[v] = inbox[v]
  BY <1>1, <1>3, MoveParts
<1>6. hand[s] = <<>> BY <1>3 DEF Begins
<1>7. \A v \in Socket : hand'[v] = hand[v] \/ ~Casts(hand[v], "message") BY <1>5, <1>6 DEF Casts, Awaits
<1>8. \A m : Coming(m) => Coming(m)' BY <1>2, <1>7, ComingKept
<1>9. PICK n : n = f.m /\ Coming(n)'
  <2>1. PICK n : n = f.m OBVIOUS
  <2>2. Telling(hand'[s], n) BY <1>5, <1>14, <2>1, FrameShapes DEF Telling, Casts, Awaits
  <2>3. Coming(n)' BY <2>2 DEF Coming
  <2> QED BY <2>1, <2>3
<1>10. ASSUME NEW m \in (Alive \ lost)' PROVE m \in Alive \ lost \/ Coming(m)'
  <2>1. m \in DOMAIN msgs' /\ ~msgs'[m].deleted /\ m \notin lost BY <1>2 DEF Alive
  <2>2. CASE m = n BY <1>9, <2>2
  <2>3. CASE m # n BY <1>3, <1>9, <2>1, <2>3 DEF Alive
  <2> QED BY <2>2, <2>3
<1>11. ASSUME NEW v \in DOMAIN page' PROVE PageKeeps(v)
  <2>1. v \in DOMAIN page /\ v \in Socket BY <1>1, <1>2, PageAt
  <2>2. Awaits(hand[v], "history") => Awaits(hand'[v], "history") BY <1>5, <1>6, <2>1 DEF Awaits
  <2> QED BY <1>2, <2>1, <2>2 DEF PageKeeps, Sent
<1>12. AllReach' BY <1>8, <1>10, <1>11, ReachStep
<1>13. Unwritten'
  <2>1. \A v \in Socket : Range(inbox'[v]) \subseteq Range(inbox[v]) BY <1>4, <1>5
  <2>2. f.m \notin DOMAIN uploads BY <1>3, <1>4 DEF Unwritten
  <2> QED BY <1>2, <1>3, <2>1, <2>2 DEF Unwritten
<1> QED BY <1>12, <1>13

(* The consumer that dies of a reaction was telling nobody anything.       *)
LEMMA ReachToggle ==
  ASSUME Types, AllReach, Unwritten, NEW s \in Socket, Toggle(s), Tombstone(s)
  PROVE  AllReach' /\ Unwritten'
<1>1. HandTypes /\ ChanTypes /\ PageTypes BY DEF Types
<1>2. UNCHANGED <<msgs, lost, uploads, drawn>> BY DEF Toggle
<1>3. Crash({s}) /\ Begins(s, Arg(s)) BY TypesToggle
<1>4. /\ hand'[s] = <<>> /\ inbox'[s] = <<>>
      /\ \A v \in Socket \ {s} : hand'[v] = hand[v] /\ inbox'[v] = inbox[v]
      /\ DOMAIN chan' = DOMAIN chan \ {s} /\ \A v \in DOMAIN chan' : chan'[v] = chan[v]
      /\ DOMAIN page' = DOMAIN page \ {s} /\ \A v \in DOMAIN page' : page'[v] = page[v]
  <2>1. Crashed({s}) BY <1>3, CrashParts
  <2> QED BY <2>1 DEF Crashed
<1>5. \A v \in Socket : hand'[v] = hand[v] BY <1>3, <1>4 DEF Begins
<1>6. \A v \in Socket : hand'[v] = hand[v] \/ ~Casts(hand[v], "message") BY <1>5
<1>7. \A m : Coming(m) => Coming(m)' BY <1>2, <1>6, ComingKept
<1>8. ASSUME NEW v \in DOMAIN page' PROVE PageKeeps(v)
  <2>1. v \in DOMAIN page /\ v # s /\ v \in Socket /\ page'[v] = page[v] BY <1>1, <1>4, PageAt
  <2>2. v \in DOMAIN chan' /\ chan'[v] = chan[v] BY <1>1, <1>4, <2>1 DEF ChanTypes, PageTypes
  <2> QED BY <1>5, <2>1, <2>2 DEF PageKeeps, Sent
<1>9. (Alive \ lost)' = Alive \ lost BY <1>2 DEF Alive
<1>10. AllReach' BY <1>7, <1>8, <1>9, ReachStep
<1>11. Unwritten'
  <2>1. \A v \in Socket : Range(inbox'[v]) \subseteq Range(inbox[v]) BY <1>4, RangeEmpty
  <2> QED BY <1>2, <2>1 DEF Unwritten
<1> QED BY <1>10, <1>11

(* A page sends: its number is new, so no upload has it.                   *)
LEMMA ReachMakes ==
  ASSUME Types, AllReach, Unwritten, NEW s \in DOMAIN page, PageMakes(s)
  PROVE  AllReach' /\ Unwritten'
<1>1. HandTypes /\ ChanTypes /\ PageTypes /\ drawn \in Nat BY DEF Types, HandTypes
<1>2. s \in Socket BY <1>1, PageAt
<1>3. UNCHANGED <<msgs, lost, hand, chan>> BY DEF PageMakes, Send, SendVoice, CloseSocket, rows, ghosts
<1>4. (Alive \ lost)' = Alive \ lost BY <1>3 DEF Alive
<1>5. /\ DOMAIN uploads \subseteq DOMAIN uploads'
      /\ DOMAIN page' \subseteq DOMAIN page
      /\ \A v \in DOMAIN page' : DOMAIN page[v].shown \subseteq DOMAIN page'[v].shown
  <2>1. CASE Send(s)
    <3>1. PICK q : page' = [page EXCEPT ![s] = q] /\ q.shown = Put(page[s].shown, drawn', Bubble(s, drawn'))
      BY <2>1, TypesSend
    <3>2. DOMAIN page[s].shown \subseteq DOMAIN q.shown BY <3>1 DEF Put
    <3>3. uploads' = uploads BY <2>1 DEF Send
    <3> QED BY <1>1, <3>1, <3>2, <3>3, PageParts
  <2>2. CASE SendVoice(s)
    <3>1. PICK q : page' = [page EXCEPT ![s] = q] /\ q.shown = Put(page[s].shown, drawn', Bubble(s, drawn'))
      BY <2>2, TypesSendVoice DEF SaysOne
    <3>2. DOMAIN page[s].shown \subseteq DOMAIN q.shown BY <3>1 DEF Put
    <3>3. DOMAIN uploads \subseteq DOMAIN uploads' BY <2>2, TypesSendVoice DEF Put
    <3> QED BY <1>1, <3>1, <3>2, <3>3, PageParts
  <2>3. CASE CloseSocket(s) BY <2>3, TypesClose DEF CloseSocket
  <2> QED BY <2>1, <2>2, <2>3 DEF PageMakes
<1>6. \A v \in Socket : hand'[v] = hand[v] \/ ~Casts(hand[v], "message") BY <1>3
<1>7. \A m : Coming(m) => Coming(m)' BY <1>5, <1>6, ComingKept
<1>8. \A v \in DOMAIN page' : PageKeeps(v) BY <1>3, <1>5 DEF PageKeeps, Sent
<1>9. AllReach' BY <1>4, <1>7, <1>8, ReachStep
<1>10. /\ \A m \in DOMAIN uploads' : (m \in DOMAIN uploads /\ uploads'[m] = uploads[m]) \/ m = drawn + 1
       /\ \A v \in Socket : \A f \in Range(inbox'[v]) : f \in Range(inbox[v]) \/ f.type # "message" \/ f.m = drawn + 1
       /\ DOMAIN uploads' = DOMAIN uploads \/ \A v \in Socket : \A f \in Range(inbox'[v]) : f \in Range(inbox[v]) \/ f.type # "message"
  <2>1. CASE Send(s)
    <3>1. PICK q, b, f :
              /\ q \in Pages(drawn')
              /\ page' = [page EXCEPT ![s] = q] /\ inbox' = [inbox EXCEPT ![s] = b]
              /\ f = Asks(s, "message", drawn', drawn') /\ FrameIn(drawn', s, f)
              /\ \/ b = Append(inbox[s], f)
                 \/ b = Append(Append(inbox[s], f), Asks(s, "typing_stop", 0, 0))
      BY <2>1, TypesSend
    <3>2. drawn' = drawn + 1 /\ uploads' = uploads BY <2>1 DEF Send
    <3>3. f.m = drawn + 1 /\ f \in Event BY <3>1, <3>2 DEF Asks, Ev, FrameIn, Own
    <3> DEFINE g == Asks(s, "typing_stop", 0, 0)
    <3>4. g \in Event /\ g.type = "typing_stop"
      <4>1. "typing_stop" \in FrameTypes \ {"message", "edit", "disconnect"} /\ 0 \in Nat BY DEF FrameTypes
      <4>2. FrameIn(drawn, s, g) /\ g.type = "typing_stop" BY <1>1, <1>2, <4>1, AskFrame
      <4> QED BY <4>2 DEF FrameIn, Own
    <3> HIDE DEF g
    <3>5. inbox[s] \in Seq(Event) BY <1>1, <1>2, Boxed
    <3>6. PICK b1 \in Seq(Event) : b1 = Append(inbox[s], f) /\ Range(b1) = Range(inbox[s]) \cup {f}
      <4>1. Append(inbox[s], f) \in Seq(Event) BY <3>3, <3>5
      <4>2. Range(Append(inbox[s], f)) = Range(inbox[s]) \cup {f} BY <3>3, <3>5, RangeAppend
      <4> QED BY <4>1, <4>2
    <3>7. Range(Append(b1, g)) = Range(b1) \cup {g} BY <3>4, RangeAppend
    <3>8. \A x \in Range(b) : x \in Range(inbox[s]) \/ x.type # "message" \/ x.m = drawn + 1
      BY <3>1, <3>3, <3>4, <3>6, <3>7 DEF g
    <3>9. inbox'[s] = b /\ \A v \in Socket \ {s} : inbox'[v] = inbox[v] BY <1>1, <1>2, <3>1, InboxParts
    <3> QED BY <3>2, <3>8, <3>9
  <2>2. CASE SendVoice(s)
    <3> DEFINE g == Asks(s, "recording_stop", 0, 0)
    <3>1. drawn' = drawn + 1 /\ uploads' = Put(uploads, drawn + 1, [by |-> s, stored |-> FALSE])
      <4>1. drawn' = drawn + 1 BY <2>2 DEF SendVoice
      <4> QED BY <2>2, <4>1, TypesSendVoice
    <3>2. inbox' = [inbox EXCEPT ![s] = Append(inbox[s], g)] BY <2>2, TypesSendVoice DEF SaysOne
    <3>3. g \in Event /\ g.type = "recording_stop"
      <4>1. "recording_stop" \in FrameTypes \ {"message", "edit", "disconnect"} /\ 0 \in Nat BY DEF FrameTypes
      <4>2. FrameIn(drawn, s, g) /\ g.type = "recording_stop" BY <1>1, <1>2, <4>1, AskFrame
      <4> QED BY <4>2 DEF FrameIn, Own
    <3> HIDE DEF g
    <3>4. Range(Append(inbox[s], g)) = Range(inbox[s]) \cup {g} BY <1>1, <1>2, <3>3, BoxAppend
    <3>5. \A v \in Socket : \A f \in Range(inbox'[v]) : f \in Range(inbox[v]) \/ f.type # "message"
      BY <1>1, <1>2, <3>2, <3>3, <3>4, InboxParts
    <3>6. \A m \in DOMAIN uploads' : (m \in DOMAIN uploads /\ uploads'[m] = uploads[m]) \/ m = drawn + 1
      BY <3>1 DEF Put
    <3> QED BY <3>5, <3>6
  <2>3. CASE CloseSocket(s)
    <3>1. uploads' = uploads /\ inbox' = [inbox EXCEPT ![s] = Append(inbox[s], Bye(Who[s]))]
      BY <2>3, TypesClose DEF CloseSocket
    <3>2. Bye(Who[s]) \in Event /\ Bye(Who[s]).type = "disconnect" BY <1>2, WhoTyped, Events
    <3>3. Range(Append(inbox[s], Bye(Who[s]))) = Range(inbox[s]) \cup {Bye(Who[s])} BY <1>1, <1>2, <3>2, BoxAppend
    <3> QED BY <1>1, <1>2, <3>1, <3>2, <3>3, InboxParts
  <2> QED BY <2>1, <2>2, <2>3 DEF PageMakes
<1>11. Unwritten'
  <2>1. /\ DOMAIN uploads \subseteq 1..drawn /\ DOMAIN msgs \subseteq 1..drawn
        /\ drawn + 1 \notin 1..drawn
    BY <1>1 DEF Types, RowTypes
  <2>2. \A v \in Socket : \A f \in Range(inbox[v]) : f.type = "message" => f.m \in 1..drawn
    BY <1>1, Boxed DEF FrameIn, Own, Drawn
  <2>3. \A m \in DOMAIN uploads' : ~uploads'[m].stored => m \notin DOMAIN msgs'
    BY <1>3, <1>10, <2>1 DEF Unwritten
  <2>4. \A v \in Socket : \A f \in Range(inbox'[v]) : f.type = "message" => f.m \notin DOMAIN uploads'
    <3>1. CASE DOMAIN uploads' = DOMAIN uploads BY <1>10, <2>1, <3>1 DEF Unwritten
    <3>2. CASE \A v \in Socket : \A f \in Range(inbox'[v]) : f \in Range(inbox[v]) \/ f.type # "message"
      BY <1>10, <2>1, <2>2, <3>2 DEF Unwritten
    <3> QED BY <1>10, <3>1, <3>2
  <2> QED BY <2>3, <2>4 DEF Unwritten
<1> QED BY <1>9, <1>11

(* A voice note is stored, and told of, or it is lost or refused.          *)
LEMMA ReachStore ==
  ASSUME Types, AllReach, Unwritten, NEW m \in DOMAIN uploads, Store(m)
  PROVE  AllReach' /\ Unwritten'
<1>1. UNCHANGED <<lost, hand, inbox, chan, page>> BY DEF Store, ghosts
<1>2. /\ DOMAIN msgs' = DOMAIN msgs \cup {m} /\ DOMAIN uploads' = DOMAIN uploads /\ uploads'[m].stored
      /\ \A x \in DOMAIN uploads \ {m} : uploads'[x] = uploads[x]
  BY TypesStore
<1>3. \A x : Coming(x) => Coming(x)' BY <1>1, <1>2 DEF Coming
<1>4. Coming(m)' BY <1>2 DEF Coming
<1>5. ASSUME NEW x \in (Alive \ lost)' PROVE x \in Alive \ lost \/ Coming(x)'
  <2>1. x \in DOMAIN msgs' /\ ~msgs'[x].deleted /\ x \notin lost BY <1>1 DEF Alive
  <2>2. CASE x = m BY <1>4, <2>2
  <2>3. CASE x # m
    <3>1. x \in DOMAIN msgs BY <1>2, <2>1, <2>3
    <3>2. msgs'[x] = msgs[x] BY <2>3, <3>1, TypesStore
    <3> QED BY <2>1, <3>1, <3>2 DEF Alive
  <2> QED BY <2>2, <2>3
<1>6. \A v \in DOMAIN page' : PageKeeps(v) BY <1>1 DEF PageKeeps, Sent
<1>7. AllReach' BY <1>3, <1>5, <1>6, ReachStep
<1>8. Unwritten'
  <2>1. ASSUME NEW x \in DOMAIN uploads', ~uploads'[x].stored PROVE x \notin DOMAIN msgs'
    <3>1. x # m /\ x \in DOMAIN uploads BY <1>2, <2>1
    <3>2. uploads'[x] = uploads[x] BY <3>1, TypesStore
    <3> QED BY <1>2, <2>1, <3>1, <3>2 DEF Unwritten
  <2> QED BY <1>1, <1>2, <2>1 DEF Unwritten
<1> QED BY <1>7, <1>8

LEMMA UnwrittenDrop ==
  ASSUME Unwritten, NEW m, UNCHANGED <<msgs, inbox>>, DOMAIN uploads' = DOMAIN uploads \ {m},
         \A x \in DOMAIN uploads' : uploads'[x] = uploads[x]
  PROVE  Unwritten'
BY DEF Unwritten

LEMMA ReachAnnounce ==
  ASSUME Types, AllReach, Unwritten, NEW m \in DOMAIN uploads, Announce(m)
  PROVE  AllReach' /\ Unwritten'
<1> DEFINE ev == VoiceEvent(m)
<1>1. UNCHANGED <<msgs, hand, inbox, page>> BY DEF Announce, rows
<1>2. ChanTypes /\ PageTypes BY DEF Types
<1>3. /\ DOMAIN uploads' = DOMAIN uploads \ {m} /\ \A x \in DOMAIN uploads' : uploads'[x] = uploads[x]
      /\ ev.type = "message" /\ ev.m = m /\ ev \in Event
      /\ \/ chan' = Everyone(ev) /\ UNCHANGED lost
         \/ lost' = lost \cup {m} /\ UNCHANGED chan
  BY TypesAnnounce DEF EventIn
<1> HIDE DEF ev
<1>4. \A v \in DOMAIN page : v \in DOMAIN chan BY <1>2 DEF ChanTypes, PageTypes
<1>5. \A x : Coming(x) => Coming(x)' \/ x = m BY <1>1, <1>3 DEF Coming
<1>6. (Alive \ lost)' \subseteq Alive \ lost BY <1>1, <1>3 DEF Alive
<1>7. Unwritten' BY <1>1, <1>3, UnwrittenDrop
<1>8. CASE chan' = Everyone(ev) /\ UNCHANGED lost
  <2>1. DOMAIN chan' = DOMAIN chan /\ \A v \in DOMAIN chan : Range(chan'[v]) = Range(chan[v]) \cup {ev}
    BY <1>2, <1>3, <1>8, ChanAppend
  <2>2. \A v \in DOMAIN page' : PageKeeps(v)
    <3>1. \A v \in DOMAIN page' : \A x : Sent(v, x) => Sent(v, x)' BY <1>1, <1>4, <2>1 DEF Sent
    <3> QED BY <1>1, <3>1 DEF PageKeeps
  <2>3. \A x \in (Alive \ lost)' : Coming(x) => Coming(x)' \/ \A v \in DOMAIN page' : Sent(v, x)'
    <3>1. ASSUME NEW x, x = m, NEW v \in DOMAIN page' PROVE Sent(v, x)'
      <4>1. \E e \in Range(chan'[v]) : e.type = "message" /\ e.m = x BY <1>1, <1>3, <1>4, <2>1, <3>1
      <4> QED BY <4>1 DEF Sent
    <3> QED BY <1>5, <3>1
  <2> QED BY <1>6, <1>7, <2>2, <2>3, ReachStep
<1>9. CASE lost' = lost \cup {m} /\ UNCHANGED chan
  <2>1. \A x \in (Alive \ lost)' : x # m BY <1>9
  <2>2. \A v \in DOMAIN page' : PageKeeps(v) BY <1>1, <1>9 DEF PageKeeps, Sent
  <2>3. \A x \in (Alive \ lost)' : Coming(x) => Coming(x)' BY <1>5, <2>1
  <2> QED BY <1>6, <1>7, <2>2, <2>3, ReachStep
<1> QED BY <1>3, <1>8, <1>9

LEMMA ReachRefuse ==
  ASSUME Types, AllReach, Unwritten, NEW m \in DOMAIN uploads, Refuse(m)
  PROVE  AllReach' /\ Unwritten'
<1>1. UNCHANGED <<msgs, lost, hand, inbox, chan>> /\ ~uploads[m].stored BY DEF Refuse, rows, ghosts
<1>2. PageTypes BY DEF Types
<1>3. DOMAIN uploads' = DOMAIN uploads \ {m} /\ \A x \in DOMAIN uploads' : uploads'[x] = uploads[x] BY TypesRefuse
<1>4. m \notin Alive BY <1>1 DEF Unwritten, Alive
<1>5. \A x : Coming(x) => Coming(x)' \/ x = m BY <1>1, <1>3 DEF Coming
<1>6. (Alive \ lost)' = Alive \ lost BY <1>1 DEF Alive
<1>7. DOMAIN page' = DOMAIN page /\ \A v \in DOMAIN page : DOMAIN page'[v].shown = DOMAIN page[v].shown
  <2>1. CASE page' = page BY <2>1
  <2>2. CASE FailMove(uploads[m].by, m)
    <3>1. PICK q : /\ uploads[m].by \in DOMAIN page /\ page' = [page EXCEPT ![uploads[m].by] = q]
                   /\ DOMAIN q.shown = DOMAIN page[uploads[m].by].shown
      BY <2>2 DEF FailMove
    <3> QED BY <1>2, <3>1, PageParts
  <2> QED BY <2>1, <2>2, TypesRefuse
<1>8. \A v \in DOMAIN page' : PageKeeps(v) BY <1>1, <1>7 DEF PageKeeps, Sent
<1>9. AllReach' BY <1>4, <1>5, <1>6, <1>8, ReachStep
<1>10. Unwritten' BY <1>1, <1>3, UnwrittenDrop
<1> QED BY <1>9, <1>10

LEMMA ReachRestart ==
  ASSUME Types, Unwritten, Restart
  PROVE  AllReach' /\ Unwritten'
<1>1. /\ DOMAIN page' = {} /\ DOMAIN uploads' = {}
      /\ \A v \in Socket : inbox'[v] = <<>> \/ inbox'[v] = inbox[v]
  BY TypesRestart
<1> QED BY <1>1 DEF AllReach, Unwritten

LEMMA ReachInit == ASSUME Init PROVE AllReach /\ Unwritten
<1>1. DOMAIN uploads = {} BY InitFacts
<1>2. \A s \in DOMAIN page : DOMAIN page[s].shown = DOMAIN msgs BY InitFacts, ZenonT(40)
<1>3. AllReach BY <1>2 DEF AllReach, Reach, Alive
<1> QED BY <1>1, <1>3 DEF Unwritten

LEMMA ReachNext ==
  ASSUME Types, AllReach, Unwritten, [Next]_vars
  PROVE  AllReach' /\ Unwritten'
<1>1. ASSUME NEW s \in Socket, Telltale(s) PROVE AllReach' /\ Unwritten'
  <2>1. CASE Connect(s) BY <2>1, ReachConnect
  <2>2. CASE History(s) BY <2>2, ReachHistory
  <2>3. CASE Discard(s) BY <2>3, ReachDiscard
  <2>4. CASE Broadcast(s) BY <2>4, ReachBroadcast
  <2>5. CASE Fanout(s) BY <2>5, ReachFanout
  <2>6. CASE CreateMessage(s) BY <2>6, ReachCreate
  <2>7. CASE Toggle(s) /\ Tombstone(s) BY <2>7, ReachToggle
  <2> QED BY <1>1, <2>1, <2>2, <2>3, <2>4, <2>5, <2>6, <2>7 DEF Telltale
<1>2. ASSUME NEW m \in DOMAIN uploads, Uploading(m) PROVE AllReach' /\ Unwritten'
  BY <1>2, ReachStore, ReachAnnounce, ReachRefuse DEF Uploading
<1> QED BY <1>1, <1>2, Steps, ReachPlain, ReachMakes, ReachRestart

LEMMA ReachHold == Spec => [](Types /\ AllReach /\ Unwritten)
<1>1. Init => Types /\ AllReach /\ Unwritten BY TypesInit, ReachInit
<1>2. (Types /\ AllReach /\ Unwritten) /\ [Next]_vars => (Types /\ AllReach /\ Unwritten)' BY TypesNext, ReachNext
<1> QED BY <1>1, <1>2, PTL DEF Spec

(* When nothing is running or in flight, nothing can be still to come.     *)
LEMMA ReachImplies == ASSUME Types, AllReach PROVE NoMessageMissed
<1>1. ASSUME Quiet, NEW s \in DOMAIN page, NEW m \in Alive \ lost PROVE m \in DOMAIN page[s].shown
  <2>1. Reach(s, m) BY DEF AllReach
  <2>2. s \in Socket /\ s \in DOMAIN chan BY DEF Types, ChanTypes, PageTypes
  <2>3. \A v \in Socket : hand[v] = <<>> BY <1>1 DEF Quiet, Todo
  <2>4. ~Sent(s, m) BY <1>1, <2>2, RangeEmpty DEF Quiet, Sent
  <2>5. DOMAIN uploads = {}
    <3>1. DOMAIN <<>> = {} OBVIOUS
    <3> QED BY <1>1, <3>1 DEF Quiet
  <2>6. ~Coming(m) BY <2>3, <2>5 DEF Coming, Telling, Casts, Awaits
  <2>7. ~Awaits(hand[s], "history") BY <2>2, <2>3 DEF Awaits
  <2> QED BY <2>1, <2>4, <2>6, <2>7 DEF Reach
<1> QED BY <1>1 DEF NoMessageMissed

(* A page that joins in the middle of a conversation, while others write,  *)
(* edit and leave, misses no message that is not deleted: what its history *)
(* was read too early to have, the group brings - unless the event of a    *)
(* voice note was swallowed.  Of any room, however many join and write.    *)
THEOREM NoMessageMissedHolds == Spec => []NoMessageMissed
<1>1. Types /\ AllReach => NoMessageMissed BY ReachImplies
<1> QED BY <1>1, ReachHold, PTL

-----------------------------------------------------------------------------
(* Ticks never go back.  A message frame waits in its socket's inbox, or   *)
(* is at hand until its status has been sent, and there is only one frame  *)
(* of each message: no second status can come.                             *)
Owes(h, m) == (Casts(h, "message") \/ Awaits(h, "status")) /\ Head(h).ev.m = m
InBox(b, m) == \E k \in DOMAIN b : b[k].type = "message" /\ b[k].m = m
OnceIn(b) == \A j, k \in DOMAIN b : b[j].type = "message" /\ b[k].type = "message" /\ b[j].m = b[k].m => j = k
Awaited(v, m) == Owes(hand[v], m) \/ InBox(inbox[v], m)
OnceAt(v) == OnceIn(inbox[v]) /\ \A m : Owes(hand[v], m) => ~InBox(inbox[v], m)
Once == \A v \in Socket : OnceAt(v)

(* What a step does to a hand and an inbox.                                *)
Adds(b, c) == c = b \/ \E f \in Event : f.type # "message" /\ c = Append(b, f)
Kept(v) == (hand'[v] = hand[v] \/ \A m : Owes(hand'[v], m) => Owes(hand[v], m)) /\ Adds(inbox[v], inbox'[v])
Freed(v) ==
  /\ \A m : ~Owes(hand'[v], m)
  /\ inbox'[v] = <<>> \/ (inbox[v] # <<>> /\ inbox'[v] = Tail(inbox[v])) \/ Adds(inbox[v], inbox'[v])
Created(v) ==
  /\ inbox[v] # <<>> /\ inbox'[v] = Tail(inbox[v])
  /\ \A m : Owes(hand'[v], m) => Head(inbox[v]).type = "message" /\ m = Head(inbox[v]).m /\ m \in DOMAIN msgs'
Drew(v) ==
  /\ hand'[v] = hand[v]
  /\ \E f, g \in Event :
       /\ f.type = "message" /\ f.m = drawn + 1 /\ g.type # "message"
       /\ inbox'[v] \in {Append(inbox[v], f), Append(Append(inbox[v], f), g)}
Handled(v) == Kept(v) \/ Freed(v) \/ Created(v) \/ Drew(v)

LEMMA OnceTail ==
  ASSUME NEW b \in Seq(Event), b # <<>>, OnceIn(b)
  PROVE  /\ OnceIn(Tail(b)) /\ \A m : InBox(Tail(b), m) => InBox(b, m)
         /\ Head(b).type = "message" => InBox(b, Head(b).m) /\ ~InBox(Tail(b), Head(b).m)
<1>1. /\ Head(b) = b[1] /\ Len(b) \in Nat /\ Len(b) >= 1 /\ DOMAIN b = 1..Len(b)
      /\ DOMAIN Tail(b) = 1..(Len(b) - 1) /\ \A k \in 1..(Len(b) - 1) : Tail(b)[k] = b[k+1] /\ k+1 \in DOMAIN b
  OBVIOUS
<1>2. OnceIn(Tail(b))
  <2> SUFFICES ASSUME NEW j \in DOMAIN Tail(b), NEW k \in DOMAIN Tail(b), Tail(b)[j].type = "message",
                      Tail(b)[k].type = "message", Tail(b)[j].m = Tail(b)[k].m
               PROVE  j = k
    BY DEF OnceIn
  <2>1. j+1 \in DOMAIN b /\ k+1 \in DOMAIN b /\ b[j+1] = Tail(b)[j] /\ b[k+1] = Tail(b)[k] BY <1>1
  <2>2. j+1 = k+1 BY <2>1 DEF OnceIn
  <2> QED BY <1>1, <2>2
<1>3. ASSUME NEW m, InBox(Tail(b), m) PROVE \E k \in DOMAIN b : k # 1 /\ b[k].type = "message" /\ b[k].m = m
  <2>1. PICK k \in DOMAIN Tail(b) : Tail(b)[k].type = "message" /\ Tail(b)[k].m = m BY <1>3 DEF InBox
  <2>2. k+1 \in DOMAIN b /\ b[k+1] = Tail(b)[k] /\ k+1 # 1 BY <1>1, <2>1
  <2> QED BY <2>1, <2>2
<1>4. \A m : InBox(Tail(b), m) => InBox(b, m) BY <1>3 DEF InBox
<1>5. 1 \in DOMAIN b BY <1>1
<1>6. ASSUME Head(b).type = "message" PROVE InBox(b, Head(b).m) /\ ~InBox(Tail(b), Head(b).m)
  <2>1. InBox(b, Head(b).m) BY <1>1, <1>5, <1>6 DEF InBox
  <2>2. ~InBox(Tail(b), Head(b).m) BY <1>1, <1>3, <1>5, <1>6 DEF OnceIn
  <2> QED BY <2>1, <2>2
<1> QED BY <1>2, <1>4, <1>6

LEMMA OnceAppend ==
  ASSUME NEW b \in Seq(Event), NEW f \in Event, OnceIn(b), f.type = "message" => ~InBox(b, f.m)
  PROVE  OnceIn(Append(b, f)) /\ \A m : InBox(Append(b, f), m) => InBox(b, m) \/ (f.type = "message" /\ f.m = m)
<1>1. /\ Len(b) \in Nat /\ DOMAIN b = 1..Len(b) /\ DOMAIN Append(b, f) = 1..(Len(b) + 1)
      /\ \A k \in 1..Len(b) : Append(b, f)[k] = b[k]
      /\ Append(b, f)[Len(b)+1] = f
  OBVIOUS
<1> DEFINE c == Append(b, f)
<1>2. \A k \in DOMAIN c : (k \in DOMAIN b /\ c[k] = b[k]) \/ (k = Len(b) + 1 /\ c[k] = f)
  <2>1. \A k \in 1..(Len(b) + 1) : k \in 1..Len(b) \/ k = Len(b) + 1 BY <1>1
  <2> QED BY <1>1, <2>1
<1> HIDE DEF c
<1>3. OnceIn(c)
  <2> SUFFICES ASSUME NEW j \in DOMAIN c, NEW k \in DOMAIN c, c[j].type = "message",
                      c[k].type = "message", c[j].m = c[k].m
               PROVE  j = k
    BY DEF OnceIn
  <2>1. CASE j \in DOMAIN b /\ c[j] = b[j] /\ k \in DOMAIN b /\ c[k] = b[k] BY <2>1 DEF OnceIn
  <2>2. CASE j \in DOMAIN b /\ c[j] = b[j] /\ c[k] = f BY <2>2 DEF InBox
  <2>3. CASE k \in DOMAIN b /\ c[k] = b[k] /\ c[j] = f BY <2>3 DEF InBox
  <2>4. CASE j = Len(b) + 1 /\ k = Len(b) + 1 BY <2>4
  <2> QED BY <1>2, <2>1, <2>2, <2>3, <2>4
<1>4. \A m : InBox(c, m) => InBox(b, m) \/ (f.type = "message" /\ f.m = m) BY <1>2 DEF InBox
<1> QED BY <1>3, <1>4 DEF c

LEMMA OnceNone == OnceIn(<<>>) /\ \A m : ~InBox(<<>>, m)
BY DEF OnceIn, InBox

LEMMA OnceAdds ==
  ASSUME NEW b \in Seq(Event), NEW c, Adds(b, c), OnceIn(b)
  PROVE  OnceIn(c) /\ \A m : InBox(c, m) => InBox(b, m)
<1>1. CASE c = b BY <1>1
<1>2. ASSUME NEW f \in Event, f.type # "message", c = Append(b, f)
      PROVE  OnceIn(c) /\ \A m : InBox(c, m) => InBox(b, m)
  <2>1. OnceIn(Append(b, f)) /\ \A m : InBox(Append(b, f), m) => InBox(b, m) \/ (f.type = "message" /\ f.m = m)
    BY <1>2, OnceAppend
  <2> QED BY <1>2, <2>1
<1> QED BY <1>1, <1>2 DEF Adds

(* There stays one frame of each message, and the only new one is of the   *)
(* number just drawn.                                                      *)
LEMMA OnceStep ==
  ASSUME HandTypes, NEW v \in Socket, OnceAt(v), Handled(v)
  PROVE  OnceAt(v)' /\ \A m : Awaited(v, m)' => Awaited(v, m) \/ m = drawn + 1
<1>1. inbox[v] \in Seq(Event) /\ drawn \in Nat BY Boxed DEF HandTypes
<1>2. CASE Kept(v)
  <2>1. OnceIn(inbox'[v]) /\ \A m : InBox(inbox'[v], m) => InBox(inbox[v], m)
    BY <1>1, <1>2, OnceAdds DEF OnceAt, Kept
  <2> QED BY <1>2, <2>1 DEF Kept, OnceAt, Awaited
<1>3. CASE Freed(v)
  <2>1. OnceIn(inbox'[v]) /\ \A m : InBox(inbox'[v], m) => InBox(inbox[v], m)
    BY <1>1, <1>3, OnceAdds, OnceTail, OnceNone DEF OnceAt, Freed
  <2> QED BY <1>3, <2>1 DEF Freed, OnceAt, Awaited
<1>4. CASE Created(v)
  <2>1. /\ OnceIn(inbox'[v]) /\ \A m : InBox(inbox'[v], m) => InBox(inbox[v], m)
        /\ Head(inbox[v]).type = "message" => InBox(inbox[v], Head(inbox[v]).m) /\ ~InBox(inbox'[v], Head(inbox[v]).m)
    BY <1>1, <1>4, OnceTail DEF OnceAt, Created
  <2> QED BY <1>4, <2>1 DEF Created, OnceAt, Awaited
<1>5. CASE Drew(v)
  <2>1. PICK f, g \in Event :
           /\ f.type = "message" /\ f.m = drawn + 1 /\ g.type # "message"
           /\ inbox'[v] \in {Append(inbox[v], f), Append(Append(inbox[v], f), g)}
    BY <1>5 DEF Drew
  <2>2. \A m : Awaited(v, m) => m # drawn + 1
    <3>1. ASSUME NEW m, Owes(hand[v], m) PROVE m # drawn + 1
      <4>1. hand[v] # <<>> /\ Head(hand[v]).await \in {"cast", "status"} /\ Head(hand[v]).ev.m = m BY <3>1 DEF Owes, Casts, Awaits
      <4>2. HandIn(drawn, v, hand[v]) BY DEF HandTypes, Fine
      <4>3. Head(hand[v]).ev.type = "message"
        <5>1. CASE Casts(hand[v], "message") BY <5>1 DEF Casts
        <5>2. CASE Head(hand[v]).await = "status" BY <1>1, <4>1, <4>2, <5>2, Fronts, FrameShapes
        <5> QED BY <3>1, <5>1, <5>2 DEF Owes, Awaits
      <4>4. m \in 1..drawn BY <4>1, <4>3, HandDrawn
      <4> QED BY <1>1, <4>4
    <3>2. ASSUME NEW m, InBox(inbox[v], m) PROVE m # drawn + 1
      <4>1. PICK x \in Range(inbox[v]) : x.type = "message" /\ x.m = m BY <3>2 DEF InBox, Range
      <4>2. m \in 1..drawn BY <4>1, Boxed DEF FrameIn, Own, Drawn
      <4> QED BY <1>1, <4>2
    <3> QED BY <3>1, <3>2 DEF Awaited
  <2>3. PICK c \in Seq(Event) : c = Append(inbox[v], f)
    <3>1. Append(inbox[v], f) \in Seq(Event) BY <1>1
    <3> QED BY <3>1
  <2>4. OnceIn(c) /\ \A m : InBox(c, m) => InBox(inbox[v], m) \/ m = drawn + 1
    BY <1>1, <2>1, <2>2, <2>3, OnceAppend DEF OnceAt, Awaited
  <2>5. OnceIn(inbox'[v]) /\ \A m : InBox(inbox'[v], m) => InBox(c, m)
    <3>1. Adds(c, inbox'[v]) BY <2>1, <2>3 DEF Adds
    <3> QED BY <2>4, <3>1, OnceAdds
  <2>6. hand'[v] = hand[v] BY <1>5 DEF Drew
  <2> QED BY <2>2, <2>4, <2>5, <2>6 DEF OnceAt, Awaited
<1> QED BY <1>2, <1>3, <1>4, <1>5 DEF Handled

LEMMA OwesShapes ==
  ASSUME NEW s \in Socket
  PROVE  LET i == Who[s] IN
         /\ \A h \in {<<>>, Joining1(i), Joining2(i), Joining3(i), Joining4(i), Leaving2(i), Leaving3(i),
                      Leaving4(i), Leaving5(i)} : \A m : ~Owes(h, m)
         /\ \A f : \A m : Owes(Reports(f), m) <=> f.m = m
         /\ \A f : f.type = "message" => \A m : Owes(Sends(f), m) <=> f.m = m
         /\ \A f : f.type # "message" => \A m : ~Owes(Tells(f), m)
<1>1. \A h : h = <<>> => \A m : ~Owes(h, m) BY DEF Owes, Casts, Awaits
<1>2. \A h : Head(h).await \notin {"cast", "status"} => \A m : ~Owes(h, m) BY DEF Owes, Casts, Awaits
<1>3. \A h : Head(h).await = "cast" /\ Head(h).ev.type # "message" => \A m : ~Owes(h, m) BY DEF Owes, Casts, Awaits
<1>4. \A f : \A m : Owes(Reports(f), m) <=> f.m = m BY FrameShapes DEF Owes, Casts, Awaits
<1>5. \A f : f.type = "message" => \A m : Owes(Sends(f), m) <=> f.m = m BY FrameShapes DEF Owes, Casts, Awaits
<1>6. \A f : f.type # "message" => \A m : ~Owes(Tells(f), m) BY <1>3, FrameShapes
<1> QED BY <1>1, <1>2, <1>3, <1>4, <1>5, <1>6, HandShapes

LEMMA HandledMove ==
  ASSUME HandTypes, NEW s \in Socket, NEW h, NEW b, Move(s, h, b),
         \/ /\ \A m : ~Owes(h, m)
            /\ (inbox[s] # <<>> /\ b = Tail(inbox[s])) \/ Adds(inbox[s], b)
         \/ (\A m : Owes(h, m) => Owes(hand[s], m)) /\ b = inbox[s]
  PROVE  \A v \in Socket : Handled(v)
<1>1. hand'[s] = h /\ inbox'[s] = b /\ \A v \in Socket \ {s} : hand'[v] = hand[v] /\ inbox'[v] = inbox[v]
  BY MoveParts
<1>2. \A v \in Socket \ {s} : Kept(v) BY <1>1 DEF Kept, Adds
<1>3. Freed(s) \/ Kept(s) BY <1>1 DEF Freed, Kept, Adds
<1> QED BY <1>2, <1>3 DEF Handled

LEMMA HandledConsumer ==
  ASSUME Types, NEW s \in Socket, ConsumerStep(s)
  PROVE  \A v \in Socket : Handled(v)
<1> USE OwesShapes
<1>1. HandTypes BY DEF Types
<1>2. Adds(inbox[s], inbox[s]) BY DEF Adds
<1>3. \A b : Reported(drawn, s, inbox[s], b) => Adds(inbox[s], b) BY DEF Reported, Adds, FrameIn, Own
<1>4. ASSUME Begins(s, Arg(s)), NEW g, g.type # "message",
             Move(s, <<>>, Tail(inbox[s])) \/ Move(s, Tells(g), Tail(inbox[s]))
      PROVE  \A v \in Socket : Handled(v)
  <2>1. inbox[s] # <<>> BY <1>4 DEF Begins
  <2> QED BY <1>1, <1>4, <2>1, HandledMove
<1>5. CASE Connect(s)
  <2>1. hand' = [hand EXCEPT ![s] = Joining1(Who[s])] /\ inbox' = inbox BY <1>5 DEF Connect, Joining1
  <2>2. Move(s, Joining1(Who[s]), inbox[s]) BY <1>1, <2>1 DEF Move, HandTypes
  <2> QED BY <1>1, <1>2, <2>2, HandledMove
<1>6. CASE History(s)
  <2>1. PICK b : Move(s, Joining2(Who[s]), b) /\ Reported(drawn, s, inbox[s], b) BY <1>6, HistoryShows
  <2> QED BY <1>1, <1>3, <2>1, HandledMove
<1>7. CASE Join(s)
  <2>1. Move(s, Joining3(Who[s]), inbox[s]) BY <1>7, TypesJoin DEF JoinMove
  <2> QED BY <1>1, <1>2, <2>1, HandledMove
<1>8. CASE Snapshot(s)
  <2>1. Move(s, <<>>, inbox[s]) BY <1>8, TypesSnapshot DEF SnapshotMove
  <2> QED BY <1>1, <1>2, <2>1, HandledMove
<1>9. CASE Leave(s)
  <2>1. Move(s, Leaving4(Who[s]), inbox[s]) BY <1>9, TypesLeave DEF LeaveMove
  <2> QED BY <1>1, <1>2, <2>1, HandledMove
<1>10. CASE Discard(s)
  <2>1. Move(s, <<>>, inbox[s]) BY <1>10, TypesDiscard DEF DiscardMove
  <2> QED BY <1>1, <1>2, <2>1, HandledMove
<1>11. CASE Broadcast(s)
  <2>1. PICK h, b : CastCase(s, Arg(s), h, b) /\ Move(s, h, b) BY <1>11, TypesBroadcast
  <2>2. CASE hand[s] = Sends(Arg(s)) /\ Arg(s).type = "message" /\ h = Reports(Arg(s)) /\ b = inbox[s]
    BY <1>1, <2>1, <2>2, HandledMove
  <2>3. CASE b = inbox[s] /\ h \in {<<>>, Joining4(Who[s]), Leaving3(Who[s]), Leaving5(Who[s])}
    BY <1>1, <1>2, <2>1, <2>3, HandledMove
  <2>4. CASE inbox[s] # <<>> /\ b = Tail(inbox[s]) /\ h \in {<<>>, Leaving2(Who[s])}
    BY <1>1, <2>1, <2>4, HandledMove
  <2> QED BY <2>1, <2>2, <2>3, <2>4 DEF CastCase, Begins
<1>12. CASE Fanout(s)
  <2>1. PICK b : Move(s, <<>>, b) /\ Reported(drawn, s, inbox[s], b) BY <1>12, FanoutShows
  <2> QED BY <1>1, <1>3, <2>1, HandledMove
<1>13. CASE Allow(s)
  <2>1. Begins(s, Arg(s)) /\ Arg(s).type \in Kinds
        /\ (Move(s, <<>>, Tail(inbox[s])) \/ Move(s, Tells(Arg(s)), Tail(inbox[s])))
    BY <1>13, TypesAllow DEF TellMove
  <2>2. Arg(s).type # "message" BY <2>1 DEF Kinds
  <2> QED BY <1>4, <2>1, <2>2
<1>14. CASE CreateMessage(s)
  <2>1. /\ Begins(s, Arg(s)) /\ Arg(s).type = "message" /\ Move(s, Sends(AsStored(Arg(s))), Tail(inbox[s]))
        /\ Arg(s).m \in DOMAIN msgs' /\ Own(drawn, s, Arg(s))
    BY <1>14, TypesCreate, ZenonT(40) DEF CreateMove
  <2>5. AsStored(Arg(s)).type = "message" /\ AsStored(Arg(s)).m = Arg(s).m
    <3>1. drawn \in Nat BY <1>1 DEF HandTypes
    <3> QED BY <2>1, <3>1, StoredFrame
  <2>2. /\ hand'[s] = Sends(AsStored(Arg(s))) /\ inbox'[s] = Tail(inbox[s])
        /\ \A v \in Socket \ {s} : hand'[v] = hand[v] /\ inbox'[v] = inbox[v]
    BY <1>1, <2>1, MoveParts
  <2>3. Created(s) BY <2>1, <2>2, <2>5 DEF Created, Begins
  <2>4. \A v \in Socket \ {s} : Kept(v) BY <2>2 DEF Kept, Adds
  <2> QED BY <2>3, <2>4 DEF Handled
<1>15. CASE Status(s)
  <2>1. Move(s, <<>>, inbox[s]) BY <1>15, TypesStatus DEF StatusMove
  <2> QED BY <1>1, <1>2, <2>1, HandledMove
<1>16. CASE ReadMessages(s)
  <2>1. Begins(s, Arg(s)) /\ ReadEvent(s).type = "read"
        /\ (Move(s, <<>>, Tail(inbox[s])) \/ Move(s, Tells(ReadEvent(s)), Tail(inbox[s])))
    BY <1>16, TypesRead DEF TellMove
  <2> QED BY <1>4, <2>1
<1>17. CASE PlayMessage(s)
  <2>1. Begins(s, Arg(s)) /\ Arg(s).type = "played"
        /\ (Move(s, <<>>, Tail(inbox[s])) \/ Move(s, Tells(Arg(s)), Tail(inbox[s])))
    BY <1>17, TypesPlay DEF TellMove
  <2> QED BY <1>4, <2>1
<1>18. CASE Toggle(s)
  <2>1. CASE Tombstone(s)
    <3>1. Crashed({s}) BY <1>18, <2>1, TypesToggle, CrashParts
    <3>2. Freed(s) /\ \A v \in Socket \ {s} : Kept(v) BY <3>1 DEF Crashed, Freed, Kept, Adds
    <3> QED BY <3>2 DEF Handled
  <2>2. CASE ~Tombstone(s)
    <3>1. Begins(s, Arg(s)) /\ \/ Move(s, <<>>, Tail(inbox[s]))
                               \/ Move(s, Tells(ReactEvent(s)), Tail(inbox[s])) /\ ReactEvent(s).type = "reaction"
      BY <1>18, <2>2, TypesToggle
    <3>2. inbox[s] # <<>> BY <3>1 DEF Begins
    <3> QED BY <1>1, <3>1, <3>2, HandledMove
  <2> QED BY <2>1, <2>2
<1>19. CASE EditMessage(s)
  <2>1. Begins(s, Arg(s)) /\ Arg(s).type = "edit"
        /\ (Move(s, <<>>, Tail(inbox[s])) \/ Move(s, Tells(Arg(s)), Tail(inbox[s])))
    BY <1>19, TypesEdit
  <2> QED BY <1>4, <2>1
<1>20. CASE DeleteMessage(s)
  <2>1. Begins(s, Arg(s)) /\ Arg(s).type = "delete"
        /\ (Move(s, <<>>, Tail(inbox[s])) \/ Move(s, Tells(Arg(s)), Tail(inbox[s])))
    BY <1>20, TypesDelete
  <2> QED BY <1>4, <2>1
<1> QED BY <1>5, <1>6, <1>7, <1>8, <1>9, <1>10, <1>11, <1>12, <1>13, <1>14, <1>15, <1>16, <1>17, <1>18, <1>19, <1>20
        DEF ConsumerStep

LEMMA HandledAdds ==
  ASSUME HandTypes, NEW s \in Socket, NEW f \in Event, f.type # "message",
         hand' = hand, inbox' = [inbox EXCEPT ![s] = Append(inbox[s], f)]
  PROVE  \A v \in Socket : Handled(v)
<1>1. inbox'[s] = Append(inbox[s], f) /\ \A v \in Socket \ {s} : inbox'[v] = inbox[v] BY InboxParts
<1> QED BY <1>1 DEF Handled, Kept, Adds

LEMMA HandledPage ==
  ASSUME Types, NEW s \in DOMAIN page, PageStep(s) \/ SignTimeout(s)
  PROVE  \A v \in Socket : Handled(v)
<1>1. HandTypes /\ PageTypes /\ drawn \in Nat BY DEF Types, HandTypes
<1>2. s \in Socket BY <1>1, PageAt
<1>3. hand' = hand BY DEF PageStep, SignTimeout, Send, CloseSocket, SendVoice, Start, Stop, React, CommitEdit, Del, Play
<1>4. ASSUME NEW q, NEW f, SaysOne(s, q, f), f.type # "message" PROVE \A v \in Socket : Handled(v)
  <2>1. f \in Event /\ inbox' = [inbox EXCEPT ![s] = Append(inbox[s], f)] BY <1>4 DEF SaysOne, FrameIn, Own
  <2> QED BY <1>1, <1>2, <1>3, <1>4, <2>1, HandledAdds
<1>5. \A type, m, val : Asks(s, type, m, val).type = type BY DEF Asks, Ev
<1>6. CASE Send(s)
  <2>1. PICK q, b, f :
            /\ q \in Pages(drawn') /\ inbox' = [inbox EXCEPT ![s] = b]
            /\ f = Asks(s, "message", drawn', drawn') /\ FrameIn(drawn', s, f)
            /\ \/ b = Append(inbox[s], f)
               \/ b = Append(Append(inbox[s], f), Asks(s, "typing_stop", 0, 0))
    BY <1>6, TypesSend
  <2>2. drawn' = drawn + 1 BY <1>6 DEF Send
  <2>3. f.m = drawn + 1 /\ f.type = "message" /\ f \in Event BY <2>1, <2>2 DEF Asks, Ev, FrameIn, Own
  <2>4. PICK g \in Event : g = Asks(s, "typing_stop", 0, 0) /\ g.type # "message"
    <3>1. "typing_stop" \in FrameTypes \ {"message", "edit", "disconnect"} /\ 0 \in Nat BY DEF FrameTypes
    <3>2. FrameIn(drawn, s, Asks(s, "typing_stop", 0, 0)) BY <1>1, <1>2, <3>1, AskFrame
    <3> QED BY <1>5, <3>2 DEF FrameIn, Own
  <2>5. inbox'[s] = b /\ \A v \in Socket \ {s} : inbox'[v] = inbox[v] BY <1>1, <1>2, <2>1, InboxParts
  <2>6. Drew(s) BY <1>3, <2>1, <2>3, <2>4, <2>5 DEF Drew
  <2>7. \A v \in Socket \ {s} : Kept(v) BY <1>3, <2>5 DEF Kept, Adds
  <2> QED BY <2>6, <2>7 DEF Handled
<1>7. CASE CloseSocket(s)
  <2>1. inbox' = [inbox EXCEPT ![s] = Append(inbox[s], Bye(Who[s]))] BY <1>7, TypesClose
  <2>2. Bye(Who[s]) \in Event /\ Bye(Who[s]).type = "disconnect" BY <1>2, WhoTyped, Events
  <2> QED BY <1>1, <1>2, <1>3, <2>1, <2>2, HandledAdds
<1>8. CASE SendVoice(s)
  <2>1. PICK q : SaysOne(s, q, Asks(s, "recording_stop", 0, 0)) BY <1>8, TypesSendVoice
  <2> QED BY <1>4, <1>5, <2>1
<1>9. ASSUME NEW type \in Kinds, Start(s, type) \/ Stop(s, type) PROVE \A v \in Socket : Handled(v)
  <2>1. PICK q, f : SaysOne(s, q, f) /\ f.type # "message" BY <1>9, TypesStart
  <2> QED BY <1>4, <2>1
<1>10. ASSUME NEW m \in DOMAIN page[s].shown, React(s, m) \/ CommitEdit(s, m) \/ Del(s, m) \/ Play(s, m)
       PROVE  \A v \in Socket : Handled(v)
  <2>1. CASE React(s, m)
    <3>1. PICK q : SaysOne(s, q, Asks(s, "reaction", ServerId(page[s].shown[m], m), 0)) BY <2>1, TypesReact
    <3> QED BY <1>4, <1>5, <3>1
  <2>2. CASE CommitEdit(s, m)
    <3>1. PICK q : SaysOne(s, q, Asks(s, "edit", ServerId(page[s].shown[m], m), drawn')) BY <2>2, TypesCommitEdit
    <3> QED BY <1>4, <1>5, <3>1
  <2>3. CASE Del(s, m)
    <3>1. PICK q : SaysOne(s, q, Asks(s, "delete", ServerId(page[s].shown[m], m), 0)) BY <2>3, TypesDel
    <3> QED BY <1>4, <1>5, <3>1
  <2>4. CASE Play(s, m)
    <3>1. SaysOne(s, page[s], Asks(s, "played", m, 0)) BY <2>4, TypesPlayed
    <3> QED BY <1>4, <1>5, <3>1
  <2> QED BY <1>10, <2>1, <2>2, <2>3, <2>4
<1>11. CASE SignTimeout(s)
  <2>1. inbox' = inbox BY <1>11 DEF SignTimeout
  <2> QED BY <1>3, <2>1 DEF Handled, Kept, Adds
<1> QED BY <1>6, <1>7, <1>8, <1>9, <1>10, <1>11 DEF PageStep, Kinds

LEMMA HandledNext ==
  ASSUME Types, [Next]_vars
  PROVE  \A v \in Socket : Handled(v)
<1>1. CASE UploadStep \/ Fade \/ UNCHANGED vars
  <2>1. hand' = hand /\ inbox' = inbox
    BY <1>1 DEF UploadStep, Store, Announce, Refuse, LoseAnswer, Fade, vars
  <2> QED BY <2>1 DEF Handled, Kept, Adds
<1>2. CASE Restart
  <2>1. \A v \in Socket : (hand'[v] = <<>> /\ inbox'[v] = <<>>) \/ (hand'[v] = hand[v] /\ inbox'[v] = inbox[v])
    BY <1>2, TypesRestart
  <2>2. \A v \in Socket : Freed(v) \/ Kept(v) BY <2>1, OwesShapes DEF Freed, Kept, Adds
  <2> QED BY <2>2 DEF Handled
<1> QED BY <1>1, <1>2, HandledConsumer, HandledPage DEF Next

(* What is told of, in a channel or by a hand, has been written.           *)
Told ==
  /\ \A v \in DOMAIN chan : \A ev \in Range(chan[v]) : ev.type = "message" => ev.m \in DOMAIN msgs
  /\ \A v \in Socket : \A m : Owes(hand[v], m) => m \in DOMAIN msgs

LEMMA MsgsGrow ==
  ASSUME Types, [Next]_vars
  PROVE  DOMAIN msgs \subseteq DOMAIN msgs'
<1>1. CASE Plain BY <1>1 DEF Plain
<1>2. ASSUME NEW s \in Socket, Telltale(s) PROVE DOMAIN msgs \subseteq DOMAIN msgs'
  <2>1. CASE CreateMessage(s) BY <2>1, TypesCreate
  <2>2. CASE ~CreateMessage(s) BY <1>2, <2>2 DEF Telltale, Connect, History, Discard, Broadcast, Fanout, Toggle, rows
  <2> QED BY <2>1, <2>2
<1>3. ASSUME NEW s \in DOMAIN page, PageMakes(s) PROVE DOMAIN msgs \subseteq DOMAIN msgs'
  BY <1>3 DEF PageMakes, Send, SendVoice, CloseSocket, rows
<1>4. ASSUME NEW m \in DOMAIN uploads, Uploading(m) PROVE DOMAIN msgs \subseteq DOMAIN msgs'
  <2>1. CASE Store(m) BY <2>1, TypesStore
  <2>2. CASE ~Store(m) BY <1>4, <2>2 DEF Uploading, Announce, Refuse, rows
  <2> QED BY <2>1, <2>2
<1>5. CASE Restart BY <1>5 DEF Restart, rows
<1> QED BY <1>1, <1>2, <1>3, <1>4, <1>5, Steps

LEMMA ToldChan ==
  ASSUME Types, Told, [Next]_vars, NEW v \in DOMAIN chan', NEW x \in Range(chan'[v]), x.type = "message"
  PROVE  x.m \in DOMAIN msgs
<1>1. HandTypes /\ ChanTypes /\ PageTypes BY DEF Types
<1>2. (v \in DOMAIN chan /\ x \in Range(chan[v])) => x.m \in DOMAIN msgs BY DEF Told
<1>3. CASE Plain BY <1>2, <1>3 DEF Plain
<1>4. ASSUME NEW s \in Socket, Telltale(s) PROVE x.m \in DOMAIN msgs
  <2>1. CASE Connect(s)
    <3>1. chan' = Put(chan, s, <<>>) BY <2>1 DEF Connect
    <3>2. (v \in DOMAIN chan /\ chan'[v] = chan[v]) \/ chan'[v] = <<>> BY <3>1 DEF Put
    <3> QED BY <1>2, <3>2, RangeEmpty
  <2>2. CASE Discard(s)
    <3>1. chan' = Restrict(chan, DOMAIN chan \ {s}) BY <2>2 DEF Discard
    <3>2. v \in DOMAIN chan /\ chan'[v] = chan[v] BY <3>1 DEF Restrict
    <3> QED BY <1>2, <3>2
  <2>3. CASE Broadcast(s)
    <3>1. PICK ev : ev = Arg(s) OBVIOUS
    <3>2. PICK h, b : CastCase(s, ev, h, b) /\ Move(s, h, b) BY <2>3, <3>1, TypesBroadcast
    <3>3. ev \in Event /\ chan' = Everyone(ev) BY <2>3, <3>1, TypesBroadcast DEF EventIn, Broadcast
    <3>4. v \in DOMAIN chan /\ Range(chan'[v]) = Range(chan[v]) \cup {ev} BY <1>1, <3>3, ChanAppend
    <3>5. ev.type = "message" => Owes(hand[s], ev.m) BY <1>1, <3>2, CastFacts DEF Owes, Casts, Awaits
    <3> QED BY <1>2, <3>4, <3>5 DEF Told
  <2>4. CASE Fanout(s)
    <3>1. DOMAIN chan' = DOMAIN chan /\ Range(chan'[s]) \subseteq Range(chan[s]) /\ \A u \in DOMAIN chan \ {s} : chan'[u] = chan[u]
      BY <2>4, FanoutShows
    <3> QED BY <1>2, <3>1
  <2>5. CASE Toggle(s) /\ Tombstone(s)
    <3>1. Crashed({s}) BY <2>5, TypesToggle, CrashParts
    <3> QED BY <1>2, <3>1 DEF Crashed
  <2>6. CASE History(s) \/ CreateMessage(s) BY <1>2, <2>6 DEF History, CreateMessage
  <2> QED BY <1>4, <2>1, <2>2, <2>3, <2>4, <2>5, <2>6 DEF Telltale
<1>5. ASSUME NEW s \in DOMAIN page, PageMakes(s) PROVE x.m \in DOMAIN msgs
  BY <1>2, <1>5 DEF PageMakes, Send, SendVoice, CloseSocket
<1>6. ASSUME NEW m \in DOMAIN uploads, Uploading(m) PROVE x.m \in DOMAIN msgs
  <2>1. CASE Announce(m)
    <3>1. PICK ev : ev = VoiceEvent(m) OBVIOUS
    <3>2. ev \in Event /\ ev.m \in DOMAIN msgs /\ (chan' = Everyone(ev) \/ chan' = chan)
      BY <2>1, <3>1, TypesAnnounce DEF EventIn
    <3>3. CASE chan' = Everyone(ev)
      <4>1. v \in DOMAIN chan /\ Range(chan'[v]) = Range(chan[v]) \cup {ev} BY <1>1, <3>2, <3>3, ChanAppend
      <4> QED BY <1>2, <3>2, <4>1
    <3> QED BY <1>2, <3>2, <3>3
  <2>2. CASE Store(m) \/ Refuse(m) BY <1>2, <2>2 DEF Store, Refuse
  <2> QED BY <1>6, <2>1, <2>2 DEF Uploading
<1>7. CASE Restart BY <1>7, TypesRestart
<1> QED BY <1>3, <1>4, <1>5, <1>6, <1>7, Steps

LEMMA ToldNext ==
  ASSUME Types, Told, [Next]_vars
  PROVE  Told'
<1>1. DOMAIN msgs \subseteq DOMAIN msgs' BY MsgsGrow
<1>2. \A v \in DOMAIN chan' : \A x \in Range(chan'[v]) : x.type = "message" => x.m \in DOMAIN msgs BY ToldChan
<1>3. ASSUME NEW v \in Socket, NEW m, Owes(hand'[v], m) PROVE m \in DOMAIN msgs'
  <2>1. Handled(v) BY HandledNext
  <2>2. Owes(hand[v], m) \/ m \in DOMAIN msgs' BY <1>3, <2>1 DEF Handled, Kept, Freed, Created, Drew
  <2> QED BY <1>1, <2>2 DEF Told
<1> QED BY <1>1, <1>2, <1>3 DEF Told

LEMMA OnceNext ==
  ASSUME Types, Once, [Next]_vars
  PROVE  Once' /\ \A v \in Socket : \A m : Awaited(v, m)' => Awaited(v, m) \/ m = drawn + 1
<1>1. HandTypes BY DEF Types
<1>2. ASSUME NEW v \in Socket PROVE OnceAt(v)' /\ \A m : Awaited(v, m)' => Awaited(v, m) \/ m = drawn + 1
  <2>1. OnceAt(v) /\ Handled(v) BY HandledNext DEF Once
  <2> QED BY <1>1, <2>1, OnceStep
<1> QED BY <1>2 DEF Once

LEMMA OnceInit == ASSUME Init PROVE Once /\ Told
<1>1. \A v \in Socket : OnceAt(v) /\ \A m : ~Owes(hand[v], m) BY InitFacts, OwesShapes, OnceNone DEF OnceAt
<1>2. \A v \in DOMAIN chan : Range(chan[v]) = {} BY InitFacts, RangeEmpty
<1> QED BY <1>1, <1>2 DEF Once, Told

(* Who has a tick: the author, on his own pages.  A status that is to come *)
(* has not come yet.  A voice note that is not stored is unconfirmed.      *)
OwnTicks == \A s \in DOMAIN page : \A m \in DOMAIN page[s].shown :
  page[s].shown[m].tick # "none" => page[s].shown[m].by = Who[s]
NotYet == \A s \in DOMAIN page : \A m \in DOMAIN page[s].shown :
  Awaited(s, m) => page[s].shown[m].tick # "delivered"
Early == \A m \in DOMAIN uploads : \A s \in DOMAIN page :
  ~uploads[m].stored /\ uploads[m].by = s /\ m \in DOMAIN page[s].shown =>
    page[s].shown[m].tick \in {"none", "sending", "failed"}
Ticking == Told /\ Once /\ OwnTicks /\ NotYet /\ Early

(* What a step may do to a tick: leave it, confirm it, call it read, show  *)
(* the message of another, send a status, fail it, or start it.            *)
Had(v, m) == v \in DOMAIN page /\ m \in DOMAIN page[v].shown
Changed(v, m, e, f) ==
  \/ Had(v, m) /\ f.tick = e.tick /\ f.by = e.by
  \/ Had(v, m) /\ e.tick = "sending" /\ f.tick = "sent" /\ f.by = e.by /\ m \in DOMAIN msgs
  \/ f.tick = "read" /\ f.by = Who[v] /\ m \in DOMAIN msgs
  \/ f.tick = "none" /\ f.by # Who[v] /\ (Had(v, m) => e.by = f.by)
  \/ /\ Had(v, m) /\ Owes(hand[v], m) /\ ~Owes(hand'[v], m) /\ ~InBox(inbox'[v], m)
     /\ f.tick \in {"sent", "delivered"} /\ e.tick # "read" /\ f.by = Who[v] /\ m \in DOMAIN msgs
  \/ Had(v, m) /\ e.tick \in {"none", "sending", "failed"} /\ f.tick = "failed" /\ f.by = Who[v]
  \/ m = drawn + 1 /\ f.tick = "sending" /\ f.by = Who[v]
Ticked == \A v \in DOMAIN page' : \A m \in DOMAIN page'[v].shown :
  Changed(v, m, page[v].shown[m], page'[v].shown[m])

LEMMA TickedKept ==
  ASSUME \A v \in DOMAIN page' : (v \in DOMAIN page /\ page'[v].shown = page[v].shown) \/ DOMAIN page'[v].shown = {}
  PROVE  Ticked
BY DEF Ticked, Changed, Had

LEMMA TickedPage ==
  ASSUME PageTypes, NEW s \in DOMAIN page, NEW q, page' = [page EXCEPT ![s] = q],
         \A m \in DOMAIN q.shown : Changed(s, m, page[s].shown[m], q.shown[m])
  PROVE  Ticked
<1>1. DOMAIN page' = DOMAIN page /\ page'[s] = q /\ \A v \in DOMAIN page \ {s} : page'[v] = page[v] BY PageParts
<1> QED BY <1>1 DEF Ticked, Changed, Had

LEMMA TickedHistory ==
  ASSUME Types, NEW au, Earned(au), NEW s \in Socket, History(s)
  PROVE  Ticked
<1>1. DOMAIN page' = DOMAIN page /\ \A v \in DOMAIN page \ {s} : page'[v] = page[v] BY HistoryShows
<1>2. ASSUME s \in DOMAIN page, NEW m \in DOMAIN page'[s].shown
      PROVE  Changed(s, m, page[s].shown[m], page'[s].shown[m])
  <2> DEFINE f == page'[s].shown[m]
  <2>1. m \in Alive /\ f = FromServer(s, msgs[m].by, msgs[m].text, Summary(m)) BY <1>2, HistoryShows
  <2>2. m \in DOMAIN msgs /\ msgs[m].by = au[m] BY <2>1 DEF Alive, Earned
  <2>3. f.by = msgs[m].by /\ f.tick = IF msgs[m].by = Who[s] THEN "read" ELSE "none"
    <3>1. LET e == FromServer(s, msgs[m].by, msgs[m].text, Summary(m)) IN
          e.by = msgs[m].by /\ e.tick = IF msgs[m].by = Who[s] THEN "read" ELSE "none"
      BY DEF FromServer
    <3> QED BY <2>1, <3>1
  <2> HIDE DEF f
  <2>4. Had(s, m) => page[s].shown[m].by = au[m] BY <1>2 DEF Had, Earned, EntrySound
  <2>5. Changed(s, m, page[s].shown[m], f) BY <2>2, <2>3, <2>4 DEF Changed
  <2> QED BY <2>5 DEF f
<1> QED BY <1>1, <1>2 DEF Ticked, Changed, Had

(* A confirmation makes sending sent; a receipt makes any tick read.       *)
LEMMA TickedFanout ==
  ASSUME Types, NEW au, Earned(au), Told, NEW s \in Socket, Fanout(s)
  PROVE  Ticked
<1> DEFINE ev == Head(chan[s])
<1>1. DOMAIN page' = DOMAIN page /\ \A v \in DOMAIN page \ {s} : page'[v] = page[v] BY FanoutShows
<1>2. /\ s \in DOMAIN chan /\ ev \in Range(chan[s]) /\ EventIn(drawn, ev)
      /\ s \in DOMAIN page =>
           /\ DOMAIN page'[s].shown = DOMAIN page[s].shown \cup (IF ev.type = "message" THEN {ev.m} ELSE {})
           /\ \A m \in DOMAIN page[s].shown : page'[s].shown[m] = EntryAfter(s, ev, m, page[s].shown[m])
           /\ ev.type = "message" /\ ev.m \notin DOMAIN page[s].shown =>
                page'[s].shown[ev.m] = FromServer(s, ev.who, ev.val, 0)
  BY FanoutShows
<1> HIDE DEF ev
<1>3. ev.type = "message" => ev.m \in DOMAIN msgs BY <1>2 DEF Told
<1>4. ev.type = "read" => ev.ids \subseteq DOMAIN msgs
  <2>1. Sound(au, receipts, plays, ev) BY <1>2 DEF Earned
  <2>2. receipts \subseteq (DOMAIN msgs) \X Person BY DEF Types, RowTypes, PerReader
  <2> QED BY <2>1, <2>2 DEF Sound
<1>5. ASSUME s \in DOMAIN page, NEW m \in DOMAIN page'[s].shown
      PROVE  Changed(s, m, page[s].shown[m], page'[s].shown[m])
  <2>1. CASE m \in DOMAIN page[s].shown
    <3> DEFINE e == page[s].shown[m]  f == page'[s].shown[m]
    <3>1. f = EntryAfter(s, ev, m, e) /\ Had(s, m) BY <1>2, <1>5, <2>1 DEF Had
    <3>2. e \in Entry BY <1>5, <2>1, PageAt, PageGet, EntryGet DEF Types
    <3> HIDE DEF e, f
    <3>3. EntryAfter(s, ev, m, e).by = e.by BY <1>2, <3>2, EntryAfterTyped
    <3>4. \/ EntryAfter(s, ev, m, e).tick = e.tick
          \/ EntryAfter(s, ev, m, e).tick = "sent" /\ e.tick = "sending" /\ m \in DOMAIN msgs
          \/ EntryAfter(s, ev, m, e).tick = "read" /\ e.by = Who[s] /\ m \in DOMAIN msgs
      <4>1. CASE ev.type = "message" /\ m = ev.m BY <1>3, <3>2, <4>1, EchoedEntry DEF EntryAfter
      <4>2. CASE ev.type = "read" /\ m \in ev.ids /\ e.by = Who[s] BY <1>4, <3>2, <4>2 DEF EntryAfter, Entry
      <4>3. CASE ~(ev.type = "message" /\ m = ev.m) /\ ~(ev.type = "read" /\ m \in ev.ids /\ e.by = Who[s])
        BY <3>2, <4>3 DEF EntryAfter, Entry
      <4> QED BY <4>1, <4>2, <4>3
    <3>5. Changed(s, m, e, f) BY <3>1, <3>3, <3>4 DEF Changed
    <3> QED BY <3>5 DEF e, f
  <2>2. CASE m \notin DOMAIN page[s].shown
    <3>1. ev.type = "message" /\ m = ev.m /\ page'[s].shown[m] = FromServer(s, ev.who, ev.val, 0) BY <1>2, <1>5, <2>2
    <3>2. LET e == FromServer(s, ev.who, ev.val, 0) IN
          e.by = ev.who /\ e.tick = IF ev.who = Who[s] THEN "read" ELSE "none"
      BY DEF FromServer
    <3> QED BY <1>3, <2>2, <3>1, <3>2 DEF Changed, Had
  <2> QED BY <2>1, <2>2
<1> QED BY <1>1, <1>5 DEF Ticked, Changed, Had

(* The one status of a message makes its tick sent or delivered.           *)
LEMMA TickedStatus ==
  ASSUME Types, NEW au, Earned(au), Told, Once, NEW s \in Socket, Status(s)
  PROVE  Ticked
<1>1. HandTypes /\ PageTypes BY DEF Types
<1>2. PICK a : a = Arg(s) OBVIOUS
<1>3. Own(drawn, s, a) /\ a.type = "message" /\ hand[s] = Reports(a) /\ Move(s, <<>>, inbox[s])
  BY <1>2, TypesStatus DEF StatusMove
<1>4. hand'[s] = <<>> /\ inbox'[s] = inbox[s] BY <1>1, <1>3, MoveParts
<1>5. Owes(hand[s], a.m) /\ ~Owes(hand'[s], a.m) /\ ~InBox(inbox'[s], a.m)
  <2>1. Owes(hand[s], a.m) /\ ~Owes(hand'[s], a.m) BY <1>3, <1>4, OwesShapes
  <2> QED BY <1>4, <2>1 DEF Once, OnceAt
<1>6. a.m \in DOMAIN msgs BY <1>5 DEF Told
<1>7. au[a.m] = Who[s]
  <2>1. Sound(au, receipts, plays, a) BY <1>3, FrameShapes DEF Earned, HandSound
  <2> QED BY <1>3, <2>1 DEF Sound, Own
<1>8. CASE s \notin DOMAIN page
  <2>1. page' = page BY <1>8, TypesStatus
  <2> QED BY <2>1, TickedKept
<1>9. CASE s \in DOMAIN page
  <2>1. PICK q \in Pages(drawn), new \in {"delivered", "sent"} :
            /\ page' = [page EXCEPT ![s] = q] /\ DOMAIN q.shown = DOMAIN page[s].shown
            /\ \A m \in DOMAIN q.shown :
                 q.shown[m] = IF m = Arg(s).m /\ page[s].shown[m].tick # "read"
                              THEN [page[s].shown[m] EXCEPT !.tick = new] ELSE page[s].shown[m]
    BY <1>9, TypesStatus, ZenonT(40)
  <2>2. ASSUME NEW m \in DOMAIN q.shown PROVE Changed(s, m, page[s].shown[m], q.shown[m])
    <3> DEFINE e == page[s].shown[m]
    <3>1. e \in Entry /\ e.by = au[m] /\ Had(s, m)
      BY <1>1, <1>9, <2>1, <2>2, PageAt, PageGet, EntryGet DEF Earned, EntrySound, Had
    <3>2. q.shown[m] = IF m = a.m /\ e.tick # "read" THEN [e EXCEPT !.tick = new] ELSE e BY <1>2, <2>1, <2>2
    <3> HIDE DEF e
    <3>3. [e EXCEPT !.tick = new].tick = new /\ [e EXCEPT !.tick = new].by = e.by BY <3>1 DEF Entry
    <3>4. Changed(s, m, e, q.shown[m]) BY <1>5, <1>6, <1>7, <3>1, <3>2, <3>3 DEF Changed
    <3> QED BY <3>4 DEF e
  <2> QED BY <1>1, <1>9, <2>1, <2>2, TickedPage
<1> QED BY <1>8, <1>9

(* An entry keeps its author and its tick; or a bubble is added.           *)
LEMMA TickedShows ==
  ASSUME PageTypes, NEW s \in DOMAIN page, NEW q, NEW f, SaysOne(s, q, f), NEW m \in DOMAIN page[s].shown, NEW e,
         Shows(s, q, m, e), e.by = page[s].shown[m].by, e.tick = page[s].shown[m].tick
  PROVE  Ticked
<1>1. page' = [page EXCEPT ![s] = q] BY DEF SaysOne
<1>2. \A x \in DOMAIN q.shown : Changed(s, x, page[s].shown[x], q.shown[x]) BY DEF Shows, Changed, Had
<1> QED BY <1>1, <1>2, TickedPage

LEMMA TickedBubble ==
  ASSUME Types, NEW s \in DOMAIN page, NEW q, page' = [page EXCEPT ![s] = q],
         q.shown = Put(page[s].shown, drawn + 1, Bubble(s, drawn + 1))
  PROVE  Ticked
<1>1. PageTypes /\ drawn \in Nat BY DEF Types, HandTypes
<1>2. s \in Socket BY <1>1, PageAt
<1>3. ASSUME NEW m \in DOMAIN q.shown PROVE Changed(s, m, page[s].shown[m], q.shown[m])
  <2>1. CASE m # drawn + 1
    <3>1. m \in DOMAIN page[s].shown /\ q.shown[m] = page[s].shown[m] BY <1>3, <2>1 DEF Put
    <3> QED BY <3>1 DEF Changed, Had
  <2>2. CASE m = drawn + 1
    <3>1. q.shown[m] = Bubble(s, drawn + 1) BY <1>3, <2>2 DEF Put
    <3>2. LET e == Bubble(s, drawn + 1) IN e.by = Who[s] /\ e.tick = "sending" BY DEF Bubble
    <3> QED BY <2>2, <3>1, <3>2 DEF Changed
  <2> QED BY <2>1, <2>2
<1> QED BY <1>1, <1>3, TickedPage

LEMMA TickedSame ==
  ASSUME PageTypes, NEW s \in DOMAIN page, NEW q, page' = [page EXCEPT ![s] = q], q.shown = page[s].shown
  PROVE  Ticked
<1>1. \A m \in DOMAIN q.shown : Changed(s, m, page[s].shown[m], q.shown[m]) BY DEF Changed, Had
<1> QED BY <1>1, TickedPage

LEMMA TickedPageStep ==
  ASSUME Types, NEW s \in DOMAIN page, PageStep(s) \/ SignTimeout(s)
  PROVE  Ticked
<1>1. PageTypes /\ drawn \in Nat BY DEF Types, HandTypes
<1>2. s \in Socket /\ page[s].shown \in Shown(drawn) BY <1>1, PageAt, PageGet
<1>3. CASE Send(s)
  <2>1. drawn' = drawn + 1 BY <1>3 DEF Send
  <2>2. PICK q : page' = [page EXCEPT ![s] = q] /\ q.shown = Put(page[s].shown, drawn + 1, Bubble(s, drawn + 1))
    BY <1>3, <2>1, TypesSend
  <2> QED BY <2>2, TickedBubble
<1>4. CASE SendVoice(s)
  <2>1. drawn' = drawn + 1 BY <1>4 DEF SendVoice
  <2>2. PICK q : SaysOne(s, q, Asks(s, "recording_stop", 0, 0)) /\ q.shown = Put(page[s].shown, drawn + 1, Bubble(s, drawn + 1))
    BY <1>4, <2>1, TypesSendVoice
  <2>3. page' = [page EXCEPT ![s] = q] BY <2>2 DEF SaysOne
  <2> QED BY <2>2, <2>3, TickedBubble
<1>5. ASSUME NEW type \in Kinds, Start(s, type) \/ Stop(s, type) PROVE Ticked
  <2>1. PICK q, f : SaysOne(s, q, f) /\ q.shown = page[s].shown BY <1>5, TypesStart
  <2>2. page' = [page EXCEPT ![s] = q] BY <2>1 DEF SaysOne
  <2> QED BY <1>1, <2>1, <2>2, TickedSame
<1>6. ASSUME NEW m \in DOMAIN page[s].shown, React(s, m) \/ CommitEdit(s, m) \/ Del(s, m) \/ Play(s, m) PROVE Ticked
  <2> DEFINE old == page[s].shown[m]
  <2>1. old \in Entry BY <1>2, <1>6, EntryGet
  <2>2. CASE React(s, m)
    <3>1. PICK q, f : SaysOne(s, q, f) /\ Shows(s, q, m, [old EXCEPT !.count = @ + 1]) BY <2>2, TypesReact
    <3>2. PICK e : e = [old EXCEPT !.count = @ + 1] OBVIOUS
    <3>3. e.by = old.by /\ e.tick = old.tick BY <2>1, <3>2 DEF Entry
    <3> QED BY <1>1, <1>6, <3>1, <3>2, <3>3, TickedShows
  <2>3. CASE CommitEdit(s, m)
    <3>1. PICK n : n = drawn' OBVIOUS
    <3>2. PICK q, f : SaysOne(s, q, f) /\ Shows(s, q, m, [old EXCEPT !.text = n]) BY <2>3, <3>1, TypesCommitEdit
    <3>3. PICK e : e = [old EXCEPT !.text = n] OBVIOUS
    <3>4. e.by = old.by /\ e.tick = old.tick BY <2>1, <3>3 DEF Entry
    <3> QED BY <1>1, <1>6, <3>2, <3>3, <3>4, TickedShows
  <2>4. CASE Del(s, m)
    <3>1. PICK q, f : SaysOne(s, q, f) /\ Shows(s, q, m, [old EXCEPT !.deleted = TRUE, !.count = 0]) BY <2>4, TypesDel
    <3>2. PICK e : e = [old EXCEPT !.deleted = TRUE, !.count = 0] OBVIOUS
    <3>3. e.by = old.by /\ e.tick = old.tick BY <2>1, <3>2 DEF Entry
    <3> QED BY <1>1, <1>6, <3>1, <3>2, <3>3, TickedShows
  <2>5. CASE Play(s, m)
    <3>1. page' = page BY <2>5 DEF Play
    <3> QED BY <3>1, TickedKept
  <2> QED BY <1>6, <2>2, <2>3, <2>4, <2>5
<1>7. CASE CloseSocket(s)
  <2>1. \A v \in DOMAIN page' : v \in DOMAIN page /\ page'[v] = page[v] BY <1>7, TypesClose
  <2> QED BY <2>1, TickedKept
<1>8. CASE SignTimeout(s)
  <2>1. PICK q : page' = [page EXCEPT ![s] = q] /\ q.shown = page[s].shown BY <1>8, TypesSign
  <2> QED BY <1>1, <2>1, TickedSame
<1> QED BY <1>3, <1>4, <1>5, <1>6, <1>7, <1>8 DEF PageStep, Kinds

(* A note that is not stored, or not yet confirmed, may fail.              *)
LEMMA TickedFail ==
  ASSUME Types, NEW au, Earned(au), NEW s, NEW m, FailMove(s, m), au[m] = Who[s],
         m \in DOMAIN page[s].shown => page[s].shown[m].tick \in {"none", "sending", "failed"}
  PROVE  Ticked
<1>1. PageTypes /\ s \in DOMAIN page BY DEF Types, FailMove
<1>2. PICK q \in Pages(drawn) :
        /\ page' = [page EXCEPT ![s] = q] /\ DOMAIN q.shown = DOMAIN page[s].shown
        /\ \A x \in DOMAIN page[s].shown : q.shown[x] = IF x = m THEN Failed(page[s].shown[x]) ELSE page[s].shown[x]
  BY DEF FailMove
<1>3. ASSUME NEW x \in DOMAIN q.shown PROVE Changed(s, x, page[s].shown[x], q.shown[x])
  <2> DEFINE e == page[s].shown[x]
  <2>1. e \in Entry /\ e.by = au[x] /\ Had(s, x)
    BY <1>1, <1>2, <1>3, PageAt, PageGet, EntryGet DEF Earned, EntrySound, Had
  <2>2. q.shown[x] = IF x = m THEN Failed(e) ELSE e BY <1>2, <1>3
  <2>3. x = m => e.tick \in {"none", "sending", "failed"} BY <1>2, <1>3
  <2> HIDE DEF e
  <2>4. Failed(e).by = e.by /\ Failed(e).tick = "failed" BY <2>1 DEF Failed, Entry
  <2>5. Changed(s, x, e, q.shown[x]) BY <2>1, <2>2, <2>3, <2>4 DEF Changed
  <2> QED BY <2>5 DEF e
<1> QED BY <1>1, <1>2, <1>3, TickedPage

LEMMA TickedUpload ==
  ASSUME Types, NEW au, Earned(au), Early, OwnTicks, UploadStep
  PROVE  Ticked
<1>1. CASE page' = page BY <1>1, TickedKept
<1>2. ASSUME NEW m \in DOMAIN uploads, Refuse(m) PROVE Ticked
  <2>1. ~uploads[m].stored /\ (page' = page \/ FailMove(uploads[m].by, m)) BY <1>2, TypesRefuse DEF Refuse
  <2>2. CASE FailMove(uploads[m].by, m)
    <3>1. PICK s : s = uploads[m].by OBVIOUS
    <3>2. au[m] = Who[s] BY <3>1 DEF Earned
    <3>3. s \in DOMAIN page BY <2>2, <3>1 DEF FailMove
    <3>4. m \in DOMAIN page[s].shown => page[s].shown[m].tick \in {"none", "sending", "failed"} BY <2>1, <3>1, <3>3 DEF Early
    <3> QED BY <2>2, <3>1, <3>2, <3>4, TickedFail
  <2> QED BY <1>1, <2>1, <2>2
<1>3. ASSUME NEW s \in DOMAIN page, NEW m \in DOMAIN page[s].shown, LoseAnswer(s, m) PROVE Ticked
  <2>1. FailMove(s, m) BY <1>3, TypesLoseAnswer
  <2>2. page[s].shown[m].tick = "sending" BY <1>3 DEF LoseAnswer
  <2>3. au[m] = Who[s] BY <2>2 DEF OwnTicks, Earned, EntrySound
  <2> QED BY <2>1, <2>2, <2>3, TickedFail
<1>4. ASSUME NEW m \in DOMAIN uploads, Store(m) \/ Announce(m) PROVE page' = page BY <1>4 DEF Store, Announce
<1> QED BY <1>1, <1>2, <1>3, <1>4 DEF UploadStep

LEMMA TickedConsumer ==
  ASSUME Types, NEW au, Earned(au), Told, Once, NEW s \in Socket, ConsumerStep(s)
  PROVE  Ticked
<1>1. PageTypes BY DEF Types
<1>2. CASE page' = page BY <1>2, TickedKept
<1>3. CASE Connect(s)
  <2>1. page' = Put(page, s, NewPage) BY <1>3 DEF Connect
  <2>2. DOMAIN NewPage.shown = {}
    <3>1. NewPage.shown = <<>> /\ DOMAIN <<>> = {} BY DEF NewPage
    <3> QED BY <3>1
  <2>3. \A v \in DOMAIN page' : (v \in DOMAIN page /\ page'[v] = page[v]) \/ page'[v] = NewPage BY <2>1 DEF Put
  <2> QED BY <2>2, <2>3, TickedKept
<1>4. CASE Snapshot(s)
  <2>1. CASE s \in DOMAIN page
    <3>1. page' = [page EXCEPT ![s].members = hash \cup {Who[s]}] BY <1>4, <2>1 DEF Snapshot
    <3> DEFINE q == [page[s] EXCEPT !.members = hash \cup {Who[s]}]
    <3>2. page' = [page EXCEPT ![s] = q] BY <3>1
    <3>3. q.shown = page[s].shown BY <1>1, <2>1, PageAt DEF Pages
    <3> HIDE DEF q
    <3> QED BY <1>1, <2>1, <3>2, <3>3, TickedSame
  <2>2. CASE s \notin DOMAIN page BY <1>2, <1>4, <2>2 DEF Snapshot
  <2> QED BY <2>1, <2>2
<1>5. CASE Toggle(s)
  <2>1. CASE Tombstone(s)
    <3>1. Crashed({s}) BY <1>5, <2>1, TypesToggle, CrashParts
    <3> QED BY <3>1, TickedKept DEF Crashed
  <2>2. CASE ~Tombstone(s) BY <1>2, <1>5, <2>2, TypesToggle
  <2> QED BY <2>1, <2>2
<1>6. Join(s) \/ Leave(s) \/ Discard(s) \/ Broadcast(s) \/ Allow(s) \/ CreateMessage(s) \/ ReadMessages(s)
      \/ PlayMessage(s) \/ EditMessage(s) \/ DeleteMessage(s) => page' = page
  BY DEF Join, Leave, Discard, Broadcast, Allow, CreateMessage, ReadMessages, PlayMessage, EditMessage, DeleteMessage
<1> QED BY <1>2, <1>3, <1>4, <1>5, <1>6, TickedHistory, TickedFanout, TickedStatus DEF ConsumerStep

LEMMA TickedNext ==
  ASSUME Types, NEW au, Earned(au), Ticking, [Next]_vars
  PROVE  Ticked
<1> USE DEF Ticking
<1>1. CASE Restart
  <2>1. DOMAIN page' = {} BY <1>1, TypesRestart
  <2> QED BY <2>1, TickedKept
<1>2. CASE Fade \/ UNCHANGED vars
  <2>1. page' = page BY <1>2 DEF Fade, vars
  <2> QED BY <2>1, TickedKept
<1> QED BY <1>1, <1>2, TickedConsumer, TickedPageStep, TickedUpload DEF Next

LEMMA TickValues ==
  /\ TickOrder["none"] = 0 /\ TickOrder["sending"] = 1 /\ TickOrder["failed"] = 1
  /\ TickOrder["sent"] = 2 /\ TickOrder["delivered"] = 3 /\ TickOrder["read"] = 4
BY DEF TickOrder

LEMMA UploadsNew ==
  ASSUME Types, [Next]_vars, NEW m \in DOMAIN uploads', ~uploads'[m].stored
  PROVE  (m \in DOMAIN uploads /\ uploads'[m] = uploads[m]) \/ m = drawn + 1
<1>1. CASE uploads' = uploads BY <1>1
<1>2. ASSUME NEW s \in DOMAIN page, SendVoice(s) PROVE (m \in DOMAIN uploads /\ uploads'[m] = uploads[m]) \/ m = drawn + 1
  <2>1. drawn' = drawn + 1 /\ uploads' = Put(uploads, drawn', [by |-> s, stored |-> FALSE]) BY <1>2 DEF SendVoice
  <2> QED BY <2>1 DEF Put
<1>3. ASSUME NEW x \in DOMAIN uploads, Uploading(x) PROVE m \in DOMAIN uploads /\ uploads'[m] = uploads[m]
  <2>1. CASE Store(x) BY <2>1, TypesStore
  <2>2. CASE Announce(x) BY <2>2, TypesAnnounce
  <2>3. CASE Refuse(x) BY <2>3, TypesRefuse
  <2> QED BY <1>3, <2>1, <2>2, <2>3 DEF Uploading
<1>4. CASE Restart
  <2>1. DOMAIN uploads' = {} BY <1>4, TypesRestart
  <2> QED BY <2>1
<1>5. Plain => uploads' = uploads BY DEF Plain
<1>6. \A s \in Socket : Telltale(s) => uploads' = uploads
  BY DEF Telltale, Connect, History, Discard, Broadcast, Fanout, CreateMessage, Toggle
<1>7. \A s \in DOMAIN page : Send(s) \/ CloseSocket(s) => uploads' = uploads BY DEF Send, CloseSocket
<1> QED BY <1>1, <1>2, <1>3, <1>4, <1>5, <1>6, <1>7, Steps DEF PageMakes

LEMMA HadDrawn ==
  ASSUME PageTypes, NEW v, NEW m, Had(v, m)
  PROVE  m \in 1..drawn /\ page[v].shown[m] \in Entry
BY PageAt, PageGet, EntryGet DEF Had

(* What an entry does in a step, then, never takes its tick back, and the  *)
(* invariants that say so are kept.                                        *)
LEMMA TickingNext ==
  ASSUME Types, Types', Unwritten', NEW au, Earned(au), Ticking, [Next]_vars
  PROVE  Ticking'
<1>1. PageTypes /\ drawn \in Nat BY DEF Types, HandTypes
<1>2. Told /\ Once /\ OwnTicks /\ NotYet /\ Early BY DEF Ticking
<1>3. Told' BY <1>2, ToldNext
<1>4. Once' /\ \A v \in Socket : \A m : Awaited(v, m)' => Awaited(v, m) \/ m = drawn + 1 BY <1>2, OnceNext
<1>5. DOMAIN page' \subseteq Socket BY DEF Types, PageTypes
<1>6. DOMAIN msgs \subseteq DOMAIN msgs' BY MsgsGrow
<1>7. ASSUME NEW v \in DOMAIN page', NEW m \in DOMAIN page'[v].shown
      PROVE  /\ page'[v].shown[m].tick # "none" => page'[v].shown[m].by = Who[v]
             /\ Awaited(v, m)' => page'[v].shown[m].tick # "delivered"
             /\ m \in DOMAIN uploads' /\ ~uploads'[m].stored /\ uploads'[m].by = v =>
                  page'[v].shown[m].tick \in {"none", "sending", "failed"}
  <2> DEFINE e == page[v].shown[m]  f == page'[v].shown[m]
  <2>1. Changed(v, m, e, f) BY <1>7, TickedNext DEF Ticked
  <2>2. Had(v, m) => m # drawn + 1
    <3>1. m \in 1..drawn => m # drawn + 1 BY <1>1
    <3> QED BY <1>1, <3>1, HadDrawn
  <2>3. /\ Had(v, m) /\ e.tick # "none" => e.by = Who[v]
        /\ Had(v, m) /\ Awaited(v, m) => e.tick # "delivered"
        /\ Had(v, m) /\ m \in DOMAIN uploads /\ ~uploads[m].stored /\ uploads[m].by = v => e.tick \in {"none", "sending", "failed"}
    BY <1>2 DEF OwnTicks, NotYet, Early, Had
  <2>4. v \in Socket BY <1>5, <1>7
  <2>5. Awaited(v, m)' => (Awaited(v, m) \/ m = drawn + 1) /\ (Owes(hand'[v], m) \/ InBox(inbox'[v], m))
    BY <1>4, <2>4 DEF Awaited
  <2>6. m \in DOMAIN uploads' /\ ~uploads'[m].stored =>
          m \notin DOMAIN msgs /\ ((m \in DOMAIN uploads /\ uploads'[m] = uploads[m]) \/ m = drawn + 1)
    BY <1>6, UploadsNew DEF Unwritten
  <2> HIDE DEF e, f
  <2>7. f.tick # "none" => f.by = Who[v] BY <2>1, <2>3 DEF Changed
  <2>8. Awaited(v, m)' => f.tick # "delivered" BY <2>1, <2>2, <2>3, <2>5 DEF Changed
  <2>9. m \in DOMAIN uploads' /\ ~uploads'[m].stored /\ uploads'[m].by = v => f.tick \in {"none", "sending", "failed"}
    BY <2>1, <2>2, <2>3, <2>6 DEF Changed
  <2> QED BY <2>7, <2>8, <2>9 DEF f
<1>8. OwnTicks' BY <1>7 DEF OwnTicks
<1>9. NotYet' BY <1>7 DEF NotYet
<1>10. Early' BY <1>7 DEF Early
<1> QED BY <1>3, <1>4, <1>8, <1>9, <1>10 DEF Ticking

LEMMA TicksForward ==
  ASSUME Types, NEW au, Earned(au), Ticking, [Next]_vars,
         NEW s \in DOMAIN page \cap DOMAIN page', NEW m \in DOMAIN page[s].shown \cap DOMAIN page'[s].shown
  PROVE  TickOrder[page'[s].shown[m].tick] >= TickOrder[page[s].shown[m].tick]
<1> DEFINE e == page[s].shown[m]  f == page'[s].shown[m]
<1>1. PageTypes /\ drawn \in Nat BY DEF Types, HandTypes
<1>2. Changed(s, m, e, f) BY TickedNext DEF Ticked
<1>3. Had(s, m) BY DEF Had
<1>4. m # drawn + 1 /\ e.tick \in Ticks
  <2>1. m \in 1..drawn => m # drawn + 1 BY <1>1
  <2> QED BY <1>1, <1>3, <2>1, HadDrawn DEF Entry
<1>5. (e.tick # "none" => e.by = Who[s]) /\ (Awaited(s, m) => e.tick # "delivered")
  BY DEF Ticking, OwnTicks, NotYet
<1> HIDE DEF e, f
<1>6. Owes(hand[s], m) => Awaited(s, m) BY DEF Awaited
<1>7. TickOrder[e.tick] \in 0..4 BY <1>4, TickValues DEF Ticks
<1>8. ASSUME f.tick = e.tick PROVE TickOrder[f.tick] >= TickOrder[e.tick] BY <1>7, <1>8
<1>9. ASSUME f.tick # e.tick PROVE TickOrder[f.tick] >= TickOrder[e.tick]
  <2>1. \/ e.tick = "sending" /\ f.tick = "sent"
        \/ f.tick = "read"
        \/ e.tick \in {"none", "sending", "sent", "failed"} /\ f.tick \in {"sent", "delivered"}
        \/ e.tick \in {"none", "sending", "failed"} /\ f.tick = "failed"
    BY <1>2, <1>3, <1>4, <1>5, <1>6, <1>9 DEF Changed, Ticks
  <2> QED BY <1>7, <2>1, TickValues
<1>10. TickOrder[f.tick] >= TickOrder[e.tick] BY <1>8, <1>9
<1> QED BY <1>10 DEF e, f

LEMMA TickingInit == ASSUME Init PROVE Ticking
<1>1. Told /\ Once BY OnceInit
<1>2. /\ \A s \in Socket : hand[s] = <<>> /\ inbox[s] = <<>>
      /\ DOMAIN uploads = {} /\ DOMAIN page = mix.on /\ mix.on \subseteq Socket
      /\ \A s \in mix.on : page[s].shown = [m \in DOMAIN msgs |-> FromServer(s, msgs[m].by, msgs[m].text, 0)]
  BY InitFacts
<1>3. ASSUME NEW s \in DOMAIN page, NEW m \in DOMAIN page[s].shown
      PROVE  LET e == page[s].shown[m] IN (e.tick # "none" => e.by = Who[s]) /\ e.tick # "delivered"
  <2>1. page[s].shown[m] = FromServer(s, msgs[m].by, msgs[m].text, 0) BY <1>2
  <2>2. LET e == FromServer(s, msgs[m].by, msgs[m].text, 0) IN e.by = msgs[m].by /\ e.tick = IF msgs[m].by = Who[s] THEN "read" ELSE "none"
    BY DEF FromServer
  <2> QED BY <2>1, <2>2
<1>4. OwnTicks BY <1>3 DEF OwnTicks
<1>5. NotYet BY <1>3 DEF NotYet
<1>6. Early BY <1>2 DEF Early
<1> QED BY <1>1, <1>4, <1>5, <1>6 DEF Ticking

LEMMA TickingHold == Spec => []Ticking
<1>1. Init => Ticking BY TickingInit
<1>2. Types /\ Types' /\ Unwritten' /\ Authors /\ Ticking /\ [Next]_vars => Ticking'
  BY TickingNext DEF Authors
<1>3. Spec => [](Types /\ Unwritten)
  <2>1. Types /\ AllReach /\ Unwritten => Types /\ Unwritten OBVIOUS
  <2> QED BY <2>1, ReachHold, PTL
<1> QED BY <1>1, <1>2, <1>3, AuthorsHold, PTL DEF Spec

(* On every page, of any room: the tick of a message never falls back, in  *)
(* whatever order its confirmation, its one status, the receipts of others *)
(* and the failure of its upload reach the page.                           *)
THEOREM TicksNeverGoBackHolds == Spec => TicksNeverGoBack
<1>1. Types /\ Authors /\ Ticking /\ [Next]_vars =>
        [\A s \in DOMAIN page \cap DOMAIN page' :
           \A m \in DOMAIN page[s].shown \cap DOMAIN page'[s].shown :
             TickOrder[page'[s].shown[m].tick] >= TickOrder[page[s].shown[m].tick]]_vars
  BY TicksForward DEF Authors
<1> QED BY <1>1, TypesHold, AuthorsHold, TickingHold, PTL DEF Spec, TicksNeverGoBack
=============================================================================
