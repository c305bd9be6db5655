# Verification of ChatBot-App

TLA+ models of the backend (Django, Channels, PostgreSQL, Redis) and of the page
that talks to it, TLC runs on small instances, and TLAPS proofs. Paths are relative
to the repository; most code is below `src/`. `PROJECT.json` maps every definition to
the lines it stands for.

## The system

| Part | State | Operations | What is hard |
|---|---|---|---|
| Group permissions (`groups/permissions.py`) | role tables, custom-role grants | `effective_permissions`, `can`, `outranks` | ranks and grants decide every guard below |
| Group service (`groups/services.py`, `models.py`, `views.py`, `tasks.py`) | Group, GroupMember, Invite, JoinRequest rows | create, update, delete, join, join_with_invite, leave, kick, ban, unban, mute, set_role, invites, requests, the clean-up task | long legal sequences; every check is a SELECT that the later write does not repeat |
| member_count (`services.py:_recount`, `signals.py`) | a denormalised number on the Group row | recount after each save (signal) and after each operation (service) | SELECT count and UPDATE are separate statements; some operations have no transaction |
| Calls (`chat/call_consumers.py`, `presence.py`, `templates/chat/room.html`) | page state, consumer memory, `callonline`/`incall` keys, Call rows | offer, answer, reject, end, connect, disconnect | two pages and two consumers, each handler a chain of awaits; keys expire |
| Chat room (`chat/consumers.py`, `presence.py`, `room.html`) | presence hash, throttle keys, channel group, the page's list of messages, ticks, members and typing signs | connect, message, typing, recording, read, played, reaction, edit, delete, disconnect | a handler is a chain of awaits, and other consumers run between them; presence is kept by user, not by tab; events arrive after the rows have changed again |
| Messaging (`messaging/`) | Message, Reaction, ReadReceipt, PlayedReceipt rows, voice notes | create, toggle, receipts, soft delete, history, upload | a toggle under a unique constraint that counts tombstones; an upload beside the socket whose event may be swallowed |
| Sessions (`accounts/`, `login_views.py`) | Session, Device, Profile rows, SimpleJWT's tokens and blacklist | issue, refresh, logout, logout_all, register device | stateless tokens against session rows |
| Registration and codes (`api/auth/views/`, `users/models.py`) | User, code records, change logs | register, verify, link, resend, forgotten password, change password, change e-mail | no view opens a transaction; whole rows are saved from copies; attempts, expiry, blocks and resends in any order; mail late, lost or failing |
| Common (`common/`) | soft delete, audit rows, transactions | `atomic`, `delete`, `audit` | used by all services |

How they interact: REST views call the services; services write rows in PostgreSQL
(READ COMMITTED, autocommit outside `atomic()`), signals run inside the same save;
consumers share state through Redis and talk through the channel layer. The group
service and the count meet in the membership rows; the call consumers meet only
through Redis, the Call rows and the pages they relay to. The room's consumers meet in
the message rows, the presence hash and the channel group, and a voice note enters the
room from a REST view. Registration, account changes and sessions meet in the User
row, whose deletion takes codes, logs and Sessions with it.

## The modules

| Module | Models | Correspondence |
|---|---|---|
| `GroupPermissions` | roles, grants, ranks | one operator per function or table of `permissions.py` |
| `GroupService` | the group service, one request per step | one action per service method: the guard is the method's checks together with the view's lookup, the primed variables its saves; a refused request stutters |
| `GroupRequests` | the same operations when requests overlap | a worker's request goes load, actor, target, get, save, one step per SELECT and one for the final write; `snap` is what it read and does not read again |
| `MemberCount` | the count under overlapping requests | one step per SQL statement, row locks held to the end of the transaction, `draft` the uncommitted count |
| `Roster` | what the count should look like | a member enters or leaves and the number changes with him |
| `CallSignaling` | one-to-one calls | `client` is `this.call` of a page, `up`/`down` its socket, `task` the handler its consumer is running as a list of awaited steps, `online`/`busy` the Redis keys, `row` the Call rows |
| `AccountRows` | the rows behind users and codes, and a request in flight | a job is the copies a request holds in memory and the `plan` of statements it has still to run; one action per kind of statement (`Clear`, `Create`, `Issue`, `LoadUser`, `SaveUser`, `SaveRow`, `Deliver`) and `Abandon`, the death of a worker; `Time` lets codes lapse and blocks end |
| `Registration` | registration, codes and links, resends, forgotten password | one operator per view: the guard is the checks on the first rows it reads, the job what it will do with them |
| `AccountChanges` | change of password and of e-mail address by a signed-in user | the same, over the change logs |
| `Sessions` | sign-in, refresh rotation, logout, logout_all | `tokens` is SimpleJWT's outstanding tokens and blacklist, `sessions` the Session rows, named by the token in `refresh_jti` |
| `Accounts` | the composition of these over the same User rows | `told` is what answers have told each user; `clash`, `guesses`, `posted` record history for the properties |
| `ChatRoom` | one room: consumers, rows, Redis, uploads, pages | `hand` is what a consumer's handler has still to await, `inbox` the frames of its page it has not read, `chan` its channel in the group, `page` what `room.html` shows; `Handler` lists the awaits of every handler |
| `GroupServiceProofs`, `GroupRequestsProofs`, `MemberCountProofs`, `AccountsProofs`, `CodesProofs`, `CallProofs`, `ChatRoomProofs`, `ChatRoomQuietProofs` | theorems | |
| `MC*` | instances for TLC | |

`GroupRequests` refines `GroupService` (`ImplementsGroupService`) when one worker runs,
`MemberCount` refines `Roster` (`ImplementsRoster`) when only transactional operations run:
the refinements say what the code promises, the violation runs where it stops promising it.

## The runs

| Run | Question | Bounds, and why they are enough |
|---|---|---|
| `group_service` | Do invites, bans, roles and tombstones obey their rules over every sequence of operations? | The creator and one guest: the permission checks compare one actor with one target, so two users exercise every rank comparison; a custom role grants the guest extra permissions. All visibilities, all roles as input (`owner` included), one invite with limits below zero, zero and positive. |
| `owner_leaves` | Can the owner leave? (finding) | the same instance |
| `count_transactions` | Is the count exact, and the protocol a `Roster`? | Three workers (a stale first count, its repair and a third request between them), three users, any worker may die and roll back. Workers, and users but the owner, are symmetric. |
| `count_all_kinds` | Does a count taken under the lock stay true, and do transactions repair the count after touches, unbans, joins and full saves? Does every request end? | Two workers of all kinds; lock cycles of two would already appear, and one other request suffices to change what a transaction has counted. Workers may die, except in a join or an unban: one that dies between its write and its recount leaves the count wrong, and nothing in flight shows it. |
| `count_drift` | Is the count exact when nothing runs? (finding) | two public joins |
| `requests_serial` | Does one worker, step by step, implement `GroupService`? | One worker, two users, the guest with a custom role that opens invites and requests to him, two request rows, one link. All operations but `mute`. |
| `requests_overlap` | What survives every race? | Two workers: each property speaks of one write after a stale check, so one other request suffices. `UsesBound` exceeds the limit, so an overdraft larger than allowed would be seen. |
| `group_resurrected` | Can a deleted group come back? (finding) | one update against one delete |
| `calls_pair` | Do flags, log and pages stay together, whatever two users do? | Two users with one tab each, two calls (both may dial at once, or one after the other), one user reloads at any step, the other's keys expire at any time, and either may call, so both sides of a call are seen leaving. (With both leaving and both expiring the run passes too, on 3.3 million states.) |
| `accounts` | Do codes, mails, rows and tokens keep their promises whatever requests overlap? | Eleven mixes of request kinds (`MCFlows`). A mix names how many requests are made (`left`, 4 to 10) and how many at once (one or two: every race here is one save after another request's). Two addresses (a member has one, the other is free), two passwords; `MaxWrong`, `MaxResend` and `MaxOpens` are 1 instead of 6, 3 and 5, so that blocks are reached. One mix is an e-mail change that is only resent and guessed at, ten requests one at a time: a resend dies between its two saves, the old code is guessed again, and the next resend blocks. Workers and passwords are symmetric, and every property is one of states or of steps. |
| `room` | Do pages, rows and presence agree when all is quiet? | Twelve mixes (`MCMixes`), each of two or three actions of users over two people, one of whom may have two tabs; connections and closings count as actions. Two writers are enough for a write between another's write and its event; one more socket joins late, and sees history and events mixed. Two of the texts are longer than a row keeps (`Long`), so a message may be sent long, or edited to be. |
| `calls_third_party` | Does a closing page always free its peer? (finding) | three users; only the first may leave |

Deadlock is checked in all of them but `accounts` and `room`, where users may have nothing more to
do. A run's bounds (`UsesBound`, `RowIds`, `CallIds`, `Leaving`, `Expiring`, `InviteIds`,
`Flows` with its budgets, `Mixes`) are constants named in the module that uses them; they only
remove behaviour beyond the bound. `StartCall` takes the number of the row early, which also
bounds how often a page dials.

### What they show

- Taken one at a time the operations are sound (`EntryIsEarned`, `BanLiftedByModeratorOnly`,
  `InviteWithinLimit`, `InviteNeverRevives`, `DeletedGroupSealed`, `PromotionUnderCover`). Two
  surprises are stated rather than hidden: an invite made before a deletion still admits
  members (`DeletedGroupSealed` lists it as the only way in), and approving an old request lifts a
  ban (`EntryIsEarned` has no ban condition on that disjunct).
- `OwnerNeverLeaves` fails: `set_role` lets the creator demote himself, after which he may leave and
  the group is nobody's (`OrphanedForever`).
- Transactions keep the count exact although the first of their two recounts may be stale: the
  second runs under the group's row lock. Joins of a public group have no transaction and
  `QuietCountExact` fails. Nor has `unban` (`groups/services.py:214`): it saves a row it read as banned, so an
  approval in between is undone, and the count another transaction took may be wrong when it commits.
  `ChangeRepairsCount` speaks of changes committed while no join and no unban is in flight.
- Overlapping requests leave the owner's seat alone, overdraw an invite by at most one use per
  other worker, and undo a ban or a deletion only while an older request is under way
  (`SettledBanHolds`, `SealedForever`). `TombstoneStays` fails: a settings change that loaded the
  group earlier writes `is_deleted = False` back.
- Between two users calls are consistent, hang-ups during the microphone prompt included. A third
  caller breaks it: the page declines for its user, the consumer forgets its own call, and
  the peer is left (`PeerNotLeftHanging`).
- Overlapping account requests lose only what a save of a stale copy overwrites
  (`AcknowledgedKept`), count every wrong guess unless two requests held the record
  (`GuessesBounded`, by code and, for an e-mail change, by resend), and never activate an account, move an address or reset a password by a code
  that was not mailed for it (`ActivatedByMailedCode`, `EmailByMailedCode`, `ResetByMailedCode`). What the
  properties have to concede is stated in them: a resend during an e-mail change goes to the
  *present* address (`resend_code_views.py:93`), and one that dies between its two saves (:131, :92) leaves the
  old code with a fresh count; a posted address is saved after its code (`change_email_views.py:99`, :102), so a
  wrong guess in between can leave the new code beside the old address; a registration under way when its user is verified
  deletes him (`VerifiedKept`). The code of a forgotten password is taken only once it has
  *lapsed* (`verifications_views.py:105`), which the model keeps.
- A log-out everywhere misses a token whose Session is not recorded yet, but the next one
  reaches it (`UsableTokenListed`). Rotated tokens have no Session (`accounts/services.py:84`): no log-out
  everywhere reaches them. And `room.html` keeps the old refresh token after a refresh, so
  a later logout raises `TokenError` and leaves the Session open.
- A page that joins during a conversation misses no message (`NoMessageMissed`), ticks never go
  back, read and played marks are earned, and quiet pages show what the rows hold, but for a
  message written again before its last write was announced (`PagesFollowRows`, ghost `raced`).
  A row keeps 8000 characters (`chat/consumers.py:180`, :253), but an edit is broadcast whole (:130) and the author's
  bubble is never cut: until it is reloaded a page may show more than the row. The property compares
  what the row can hold.
  `ReceiptsEarned` speaks of the page a message was sent from: after a reload the page calls all its
  own messages read, whatever `messaging/models.py` keeps.
- The third toggle of one reaction raises `IntegrityError`: taking it back left a tombstone that the
  constraint counts. The consumer dies without its disconnect handler, and its user stays in the
  hash. `PresenceTrue` names such crashes, the TTL of the whole hash (refreshed by joins only) and
  second tabs (`hdel` is per identity) as the only causes of false presence.

### What the properties exempt

`clash`: records that one request saved while another still held a copy. `raced`: messages changed
before their last write was announced, or changed by their author's page before confirmation.
`lost`: voice notes whose event the view swallowed (`messaging/services.py`). `faded`:
identities whose presence the TTL took. `Lone`: people with one connection ever. Each is a set
that grows only when the thing named happens, so everything else is still checked. `Uncounted`: a join or an
unban that has written its row and not yet its recount.

### Fairness

Only `count_all_kinds` needs it: strong fairness of each worker's next statement. PostgreSQL
queues the transactions that wait for a row and the process schedules its threads, so a
statement that is enabled again and again is run in the end. Nothing else is fair: users
need not act, requests need not come, workers may die (`CrashKinds`).

## The proofs

For every set of users, any number of invites, workers, sockets, calls and tabs, every mix of requests
and every input, from the constants' assumptions alone: the ranges of the inputs; `Who` gives every
socket a person and `UserOf` every tab a user; `NoUser` is no user and no call has number 0; custom roles
grant permissions of the group (`GrantsAssumption`); `MaxWrong` and `MaxResend` are natural numbers
(`LimitsAssumption`); `Long` is any set of texts (`LongAssumption`). Sets are
finite only where something is counted: users for the count, workers for the overdraft, people and sockets
for what a room draws and shows. What a theorem asks beyond that stands in its statement (`Covered`, transactional
kinds only, one worker, no custom `manage_roles`, `OneTabEach`).

`GroupServiceProofs`
: `TypeCorrect` goes by the actions. `OwnerSeatHolds` needs `TypeOK` beside it and one lemma,
`EveryRowStep`: every action changes at most one membership row and in one of a few ways (status to a
value, activation with the old role, a role given by someone entitled), so the seat is argued once
per way instead of once per action. `OrphanedForeverHolds` and `PromotionUnderCoverHolds` (while no
custom role grants `manage_roles`) use the same lemma. `EveryInviteStep` does the same for invites
and yields `InviteWithinLimitHolds` and `InviteNeverRevivesHolds`. `StatusMoves` names the operations that
change a user's status: from it follow `EntryIsEarnedHolds` and `BanLiftedByModeratorOnlyHolds`, and from the few
that need no live group (`OnlyUnrouted`) `DeletedGroupSealedHolds`.

`MemberCountProofs`
: `CountExact` is not inductive: it says nothing of a count already taken and not yet stored. The
invariant is `IInv == TypeOK /\ JobShape /\ (Covered => CountUnderLock)`: having stored once, a
transaction holds the group's row, and what it counted since is the set it will commit, unless a join or
an unban that wrote by itself (`Uncounted`) waits for the same row to store its recount. `Covered` says that
no worker dies in one of those.
`NextIInv` has one lemma per kind of statement, and `OtherWorkersSafe` shows that the others' steps are
`Harmless` to it. It gives `TypeCorrect`; `ChangeRepairsCountHolds` and `CountUnderLockHolds` for all kinds of
operation under `Covered`; and with transactional kinds only `CountExactHolds` and the refinement
`RosterImplemented`.

`GroupRequestsProofs`
: The same seat under any overlap, where no write repeats its checks. `Typed` adds to `TypeOK` where
each request stands (`Place`): a decision past its lookup has found its row, and no row is lost, so
what was found stays. `SeatInv` says why stale checks do no harm: while the creator is seated he is
active, no operation that could change his row (`Barred`) is past its checks, he has no JoinRequest
row to approve, and no request that will save a role it has read has read "owner". From these
`TypeCorrect` and `OwnerSeatHolds`. One lemma per reading step (`LoadStep`, `ActorStep`,
`TargetStep`, `GetRowStep`) says what the step checked; `SealedForeverHolds` and
`SettledBanHoldsAlways` follow from those. `OverdraftBoundedHolds` counts the redeems between their
check and their write: uses and these together stay below the limit plus the number of
workers.
: `GroupServiceImplemented`: with one worker (`OneWorker`) each statement of `GroupRequests` is a step of
`GroupService` or none. `GroupService` decides by the rows, a request by its copies, so the proof
needs `UpToDate`: the group, members, invite and JoinRequest that the one request has read are what the rows
say now, and each check it has passed would pass now (`Allowed`). The join request a user has is his last
row there, a `CHOOSE` here: `RowsInOrder` (for any number of workers) says that rows are
appended and that all but the last of a user are decided, so both name the same row (`LatestOnly`).
Then `GuardsAgree` and `Decision` match the guards and one lemma per write matches what it
changes. Custom roles are any; there is one link, and it does not expire (`Serial`). TLC checked
`RowsInOrder` and `UpToDate` on the instance of `requests_serial` (1,672,270 states), the first on
`requests_overlap` too.

`AccountsProofs`
: `UsableTokenListed` is not inductive: between the blacklisting of a token and the closing of its
Session nothing in the rows says what the request will do. `IInv` therefore says where each
request stands: one that has still to close a Session has blacklisted its token, and one that has
still to clear an address is a registration that read an inactive user. The first gives
`UsableTokenListedHolds`, the second `VerifiedKeptHolds`.
: `AcknowledgedKeptHolds` is about the copies: `Copies` says that a User row still to be saved is what
its user has been told with the change of its request, unless he clashed. It holds when the row is
read because `AcknowledgedKept` does, and until it is saved because a save by another request makes
its holder a clash.
: `TypeOKHolds`. A request remembers a user, a record and copies of both in fields that mean
nothing until a step has filled them. `RowsTyped` says, for each plan, which of them the rest of
the request needs (`Holds`, `Carries`), and that rows, codes and mails name rows
that were made before them. It needs `Copies`: a request that saves a User row carries one whose user
exists. TLC checked `RowsTyped` on the instance of `accounts` (872,597 states).

`CodesProofs`
: `ActivatedByMailedCodeHolds`, `EmailByOwnCode` and `ResetByMailedCodeHolds`. A code is copied: from the
row to the request that read it, from there to a mail and back to the row, while a resend replaces it.
`Traced` says that nothing parts it from what it was drawn for. `OneRecord`: all copies of a record and all
mails with one code agree on user and kind. `Untouched` and `Addressed`: a
user never verified still has the address he registered with, and only it was mailed. `Proven`: a
forgotten-password record marked as done was answered with its own code. `Trusted`: what each request
in flight relies on of these. To which address the code of a change went (`EmailByMailedCode`) is left to
TLC: between the two saves of the posting the record has the new code beside the old address. `TracedFrame` reduces a step to the rows, mails and request it changes, and there is one
lemma per action. TLC checked `Traced` on the same instance.
: `GuessesBoundedHolds`. The limit is `attapts`, a number in a row that requests copy, change in memory and
write back, and that resends, blocks and re-opened windows set or raise for reasons of their own. `Counts` says
when a record still knows enough about its code: while the code is live, no guess was made beyond `MaxWrong`
and either the count covers them or the record is blocked (a block sets the count to zero and ends
later than the code); an e-mail change whose window may open again needs the count itself. `Tallied` demands this
of each row, and of each copy still to be saved, which must count one more if its request answers a
wrong guess - unless the record is in `clash`. A new code starts from nothing because nobody has guessed it. So does a
resend of an e-mail change, which sets the count back while the old code is still stored: guesses are
counted by `Round`, the code together with the resends, and resends only go up (`Ahead`). TLC checked `Tallied`
on the same instance.

`CallProofs`
: `DeclinedNeverStartedHolds`, when no user has two tabs (`OneTabEach`: a ring is relayed to every tab of
the user, and each could answer). The rows alone do not give it: `_finalize` saves a row it read a
step earlier. The invariant follows who may still decide a call. `Fate` says that a call has at most one
token: the number waiting in `startCall`, the offer, the ring on its way or on the page, the answer
or the refusal, in a queue or in its handler. While it is no answer, the row is not marked as started
unless it is over. Every action lets tokens vanish (`Fewer`), moves one (`Moved`) or takes one from
the head of a queue (`HeadTaken`), or is the save of an answer, which holds the only one; the row a
refusal has read is therefore not a started call.
: `TypeOKHolds`, for any tabs. That a letter "answer" names a user, or that a ring names its caller, is not
local: the name is copied from the page, which took it from a ping, which a handler made from a
letter. `Placing` says that the number of a call stands in one place until its row has a caller, and
that each later mention (page, letter, ping, consumer, handler, the row's copy about to be saved) agrees
with the row about the two parties.
: `BusyWithOwnCallHolds`, under `OneTabEach`. A flag is set by an answer and cleared by an end, in two consumers,
and a refusal or an end may write back a copy of the row read before the answer marked it.
`Agreed` excludes that. `Serial`: the receiver's consumer runs one handler at a time, in
the order his page spoke, so its end of a call comes after its answer. `OverStarted`: what is over
before the answer is marked was ended by the caller's closing tab. `Settles`: an answer marks the row
before it sets a flag, and a copy about to be saved knows what the flags know.

`ChatRoomProofs`
: `TypeOKHolds`. Beside rows and pages it types what is in flight: frames in inboxes, events in channels, and
the rest of a handler (`hand`), which is a remainder of one of the lists of `Handler`. A frame names its
sender and only texts already drawn, a socket is in the group just while its consumer lives, and a
consumer that has ended has nothing left to do. One lemma per action.
: `ReceiptsEarnedHolds`. `Authors` says who drew each number, and `Earned` that each receipt in flight,
in a hand or in a channel, is in the rows already; so what a page shows was earned when it was sent.
: `NoMessageMissedHolds`. A message that a joined page does not show is in its channel, still in the hand
that will announce it, or its page has not had its history yet (`AllReach`); what is in none of these
has not been written (`Unwritten`). A consumer joins the group before it reads the history, and that
is all the argument needs.
: `TicksNeverGoBackHolds`. A bubble could go back only by a confirmation that comes late: it comes once
(`Once`), to the page that wrote it (`Told`), and no receipt for it precedes it (`NotYet`, `Early`). `Changed` then
gives the ways a step may change a bubble.

`ChatRoomQuietProofs`
: `PresenceTrueHolds`. Nobody's presence follows from the hash alone, since it is spread over events not
delivered. `Presence` ties the two: who is in the hash has a connection that is open, crashed or has
not yet left (`HashHeld`); a leave event is of someone whose socket ended (`LeaveKnown`); the only open
socket of a person is in the hash or about to join, and each page shows it or has
its join in the channel (`OnlyHere`); once it is gone, each page ends without him (`OnlyGone`);
typing signs likewise (`SignsHeld`). Most steps are `Calm`, which
disturbs none of these; each of the others has its lemma. TLC checked `Presence` on the instance of `room`
(811,458 states).
: `PagesFollowRowsHolds`. The hardest of the room: a page changes a message by itself before the row changes,
an event carries what the row held when it was written, and a history overtakes the events in the channel. `Follows`
therefore says, for every page and message, what the page will show once it has taken what is on its way.
`Sure`: the count, the text and the deletion are those of the rows already, or the last event about them in the channel
carries those (`LastIn`), or the write is still to be told (`Casting`, `Announcing`) or to be made (`Asked`); and no
page shows a deletion that nobody asked for. `HandTrue`: what a handler is about to tell is
what the rows have. `Untouched`: nobody has touched a message that is still to be announced, so the announcement cannot
undo a write. `BubbleTrue`: an unconfirmed bubble says what its page sent, until the announcement
takes it over. `FramesMeant` and `EventsMeant`: who asks for an edit or a deletion wrote the message, and a
deletion that is told of is in the rows; `Unmade`: one frame makes a message. Messages in `raced` or `lost`
are left out, as the property leaves them out. Texts are compared as rows hold them (`Cut`); nothing is gained by
cutting twice (`CutTwice`). TLC checked `Follows` and `Unmade` on the same instance.

Only model-checked:

- Liveness (`EveryRequestEnds`): the prover has no fairness.
- `NoDeadRing` and `PeerNotLeftHanging`: each speaks of a quiet state, so its invariant must say, for
  the pages of both parties, which letter or closing tab will still end the ring. `Placing` and `Agreed`
  are parts of that.
- To which address the code of an e-mail change was mailed (the rest of `EmailByMailedCode`).

## Not modelled

- Uniqueness of group names and slugs across groups: each module has one group. Audit rows and
  broadcasts of the service: nothing reads them back. `mute` in `GroupRequests`: no operation reads
  `muted_until`, so muting restricts nothing.
- ICE, media, call type and durations: no decision depends on them. A call socket that reconnects
  under a page that keeps its call; the model closes the tab with its socket. A page that reloads faster than its
  old socket's disconnect runs is to the consumers a second tab of its user. The remainder of an
  `acceptCall` hung up half way. Several tabs per user are possible in the model (`UserOf`) but not in
  the runs.
- Rows changed by hand in the Django admin, settings, deployment, serializers, templates: no
  protocol, pure I/O, or outside every protocol.
- Accounts: a request answered with an error and no write is no step; the first read of a view
  and its checks are one step. Codes are drawn from 900,000 numbers in the code, and are all different in
  the model. Time passes only for a record no request holds. Any active user may be the authenticated caller (access tokens
  are not modelled). Devices and profiles (plain rows of their own endpoints), the format rules of
  passwords and addresses, and `SessionService.revoke` (no route reaches it) are left out. SimpleJWT
  and Celery are external: tokens are checked and rotated in two steps, a queued mail may be lost.
- Chat room: one process, in which Channels runs the database functions one at a time
  (`thread_sensitive`). One emoji, and rooms shorter than the history limit of 50. A throttled sign
  passes or not, as the clock may have it. Last-seen times and edit history are read by nobody.
  The page is always at the bottom. Frames sent after the close, the capacity and expiry of
  channels, and the identity behind a token or a guest key are left out. The page takes the
  confirmation of a voice note from the event alone, although `messaging/views.py:4` says it
  reconciles with the answer: a swallowed event leaves the bubble sending, a lost answer makes it
  failed.

## Plan

Done: the group service alone and under overlap with the refinement between them, its count against
`Roster`, calls, accounts, and the room. What could follow:

- Proofs of what quiet pages of a call show: `NoDeadRing` and `PeerNotLeftHanging` from `Placing` and `Agreed`.
- Calls with several tabs per user, and reloads that overtake the old socket: two tabs that answer one call overlap in a way `calls_pair` does not
  have; the online flag falls with the first tab that closes (`call_consumers.py:50`).
- A caller whose page never learns the number of its call (`call_consumers.py:120`): the log keeps
  the call ringing, which `NoDeadRing` does not forbid.
- Two moderators who decide one JoinRequest (`groups/services.py:271`): both answers are saved, and no
  property of the code says which should win.
