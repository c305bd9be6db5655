---------------------------- MODULE MemberCount -----------------------------
(***************************************************************************)
(* How Group.member_count follows the membership rows when requests        *)
(* overlap.  Every SQL statement is a step; the database is PostgreSQL at  *)
(* READ COMMITTED, so a statement sees what is committed and what its own  *)
(* transaction wrote, and an UPDATE holds its row until the transaction    *)
(* ends.                                                                   *)
(*                                                                         *)
(* A recount is two statements, a SELECT count and an UPDATE of the group's*)
(* row.  GroupMember's post_save signal does one after every save, and     *)
(* GroupService._recount another after the operation.  What differs between*)
(* operations is whether a transaction encloses them:                      *)
(*   "tx"      leave, kick, ban, join_with_invite, approve_request         *)
(*   "join"    join on a public group: each statement commits by itself,   *)
(*             except that get_or_create inserts a new row in a            *)
(*             transaction of its own ("insert") before the rest           *)
(*   "unban"   a row read as BANNED is saved as LEFT, whoever activated it *)
(*             in between, and recounted by the signal only                *)
(*   "touch"   set_role, mute: a save that leaves every status alone,      *)
(*             recounted by the signal only                                *)
(*   "update"  a full save of a Group object read earlier                  *)
(* The group is live: for a tombstone GroupService._recount matches no row.*)
(***************************************************************************)
EXTENDS Naturals, FiniteSets

CONSTANTS
  Workers,     \* requests being served at the same time
  NoWorker,    \* holder of a free lock
  Users, Owner,
  Kinds,       \* kinds of operation the workers run
  CrashKinds   \* kinds whose worker may die half way

ASSUME WorkersAssumption == NoWorker \notin Workers
ASSUME OwnerAssumption == Owner \in Users
ASSUME FiniteAssumption == IsFiniteSet(Users)
ASSUME KindsAssumption == Kinds \subseteq {"tx", "join", "unban", "touch", "update"}

VARIABLES
  active,       \* users whose committed row has status ACTIVE
  banned,       \* users whose committed row has status BANNED
  memberCount,  \* committed Group.member_count
  rowLock,      \* transaction holding the membership row of a user
  groupLock,    \* transaction holding the group's row
  job,          \* the request each worker serves
  pc,           \* its next statement
  round,        \* recounts it has stored
  counted,      \* result of its last SELECT count (or count it loaded)
  draft         \* member_count it wrote and has not committed

vars == <<active, banned, memberCount, rowLock, groupLock, job, pc, round, counted, draft>>

Job == [kind : {"none", "tx", "insert", "join", "unban", "touch", "update"},
        user : Users, effect : {"in", "out", "ban", "keep"}, rounds : 1..3]
NoJob == [kind |-> "none", user |-> Owner, effect |-> "keep", rounds |-> 1]

Init ==
  /\ active = {Owner}
  /\ banned = {}
  /\ memberCount = 1
  /\ rowLock = [u \in Users |-> NoWorker]
  /\ groupLock = NoWorker
  /\ job = [w \in Workers |-> NoJob]
  /\ pc = [w \in Workers |-> "idle"]
  /\ round = [w \in Workers |-> 0]
  /\ counted = [w \in Workers |-> 0]
  /\ draft = [w \in Workers |-> 0]

-----------------------------------------------------------------------------
InTransaction(w) == job[w].kind \in {"tx", "insert"}

\* Mutant of Free: nobody waits for a row.
NeverWait(lock, w) == TRUE
Free(lock, w) == lock \in {NoWorker, w}

\* The active set after w's own write, and the banned one.
Applied(w) ==
  CASE job[w].effect = "in"            -> active \union {job[w].user}
    [] job[w].effect \in {"out", "ban"} -> active \ {job[w].user}
    [] OTHER                           -> active

AppliedBans(w) ==
  CASE job[w].effect = "ban"          -> banned \union {job[w].user}
    [] job[w].effect \in {"in", "out"} -> banned \ {job[w].user}
    [] OTHER                          -> banned

\* Mutant of Seen: the count misses the transaction's own write.
SeenCommittedOnly(w) == active
\* What a SELECT of worker w sees once w has written its row.
Seen(w) == IF InTransaction(w) THEN Applied(w) ELSE active

Goto(w, label) == pc' = [pc EXCEPT ![w] = label]

Begin(w, j, label) ==
  /\ pc[w] = "idle"
  /\ job' = [job EXCEPT ![w] = j]
  /\ round' = [round EXCEPT ![w] = 0]
  /\ Goto(w, label)

\* The request is over: its local variables are gone.
End(w) ==
  /\ Goto(w, "idle")
  /\ job' = [job EXCEPT ![w] = NoJob]
  /\ round' = [round EXCEPT ![w] = 0]
  /\ counted' = [counted EXCEPT ![w] = 0]
  /\ draft' = [draft EXCEPT ![w] = 0]

-----------------------------------------------------------------------------
(* Requests arrive; the checks read committed rows *)

\* leave, kick, ban: the member is active when it is read.
StartExit(w, u) ==
  /\ "tx" \in Kinds
  /\ u \in active
  /\ \E e \in {"out", "ban"} :
       Begin(w, [kind |-> "tx", user |-> u, effect |-> e, rounds |-> 2], "write")
  /\ UNCHANGED <<active, banned, memberCount, rowLock, groupLock, counted, draft>>

\* Mutant of StartEnter: a new row's signal is the only recount.
StartEnterSignalOnly(w, u) ==
  /\ "tx" \in Kinds
  /\ Begin(w, [kind |-> "tx", user |-> u, effect |-> "in", rounds |-> 1], "write")
  /\ UNCHANGED <<active, banned, memberCount, rowLock, groupLock, counted, draft>>

\* approve_request, which does not look at the requester's row, and
\* join_with_invite, which refuses an active or banned one: a new row is saved
\* twice, by get_or_create and by _activate, an old one once.
StartEnter(w, u) ==
  /\ "tx" \in Kinds
  /\ \E n \in IF u \in active \union banned THEN {2} ELSE {2, 3} :
       Begin(w, [kind |-> "tx", user |-> u, effect |-> "in", rounds |-> n], "write")
  /\ UNCHANGED <<active, banned, memberCount, rowLock, groupLock, counted, draft>>

StartJoin(w, u) ==
  /\ "join" \in Kinds
  /\ u \notin active \union banned
  /\ \/ Begin(w, [kind |-> "insert", user |-> u, effect |-> "in", rounds |-> 1], "write")
     \/ Begin(w, [kind |-> "join", user |-> u, effect |-> "in", rounds |-> 2], "write")
  /\ UNCHANGED <<active, banned, memberCount, rowLock, groupLock, counted, draft>>

StartUnban(w, u) ==
  /\ "unban" \in Kinds
  /\ u \in banned
  /\ Begin(w, [kind |-> "unban", user |-> u, effect |-> "out", rounds |-> 1], "write")
  /\ UNCHANGED <<active, banned, memberCount, rowLock, groupLock, counted, draft>>

\* set_role, mute: the target is active when it is read.
StartTouch(w, u) ==
  /\ "touch" \in Kinds
  /\ u \in active
  /\ Begin(w, [kind |-> "touch", user |-> u, effect |-> "keep", rounds |-> 1], "write")
  /\ UNCHANGED <<active, banned, memberCount, rowLock, groupLock, counted, draft>>

\* views._get_group loads every column, member_count with them.
StartUpdate(w) ==
  /\ "update" \in Kinds
  /\ Begin(w, [NoJob EXCEPT !.kind = "update"], "save")
  /\ counted' = [counted EXCEPT ![w] = memberCount]
  /\ UNCHANGED <<active, banned, memberCount, rowLock, groupLock, draft>>

-----------------------------------------------------------------------------
(* Statements inside a transaction *)

WriteRow(w) ==
  /\ pc[w] = "write" /\ InTransaction(w)
  /\ Free(rowLock[job[w].user], w)
  /\ rowLock' = [rowLock EXCEPT ![job[w].user] = w]
  /\ Goto(w, "count")
  /\ UNCHANGED <<active, banned, memberCount, groupLock, job, round, counted, draft>>

\* Mutant of StoreCount: the count is moved by one instead of recounted.
StoreDelta(w) ==
  /\ pc[w] = "store" /\ InTransaction(w)
  /\ Free(groupLock, w)
  /\ groupLock' = w
  /\ draft' = [draft EXCEPT ![w] =
       IF job[w].effect = "in" THEN memberCount + 1 ELSE memberCount - 1]
  /\ round' = [round EXCEPT ![w] = @ + 1]
  /\ Goto(w, IF round[w] + 1 < job[w].rounds THEN "count" ELSE "commit")
  /\ UNCHANGED <<active, banned, memberCount, rowLock, job, counted>>

StoreCount(w) ==
  /\ pc[w] = "store" /\ InTransaction(w)
  /\ Free(groupLock, w)
  /\ groupLock' = w
  /\ draft' = [draft EXCEPT ![w] = counted[w]]
  /\ round' = [round EXCEPT ![w] = @ + 1]
  /\ Goto(w, IF round[w] + 1 < job[w].rounds THEN "count" ELSE "commit")
  /\ UNCHANGED <<active, banned, memberCount, rowLock, job, counted>>

ReleaseRow(w) == rowLock' = [rowLock EXCEPT ![job[w].user] = NoWorker]

\* After the transaction get_or_create opened for the new row, join goes on
\* with the statements of _activate.
AfterCommit(w) ==
  IF job[w].kind = "insert"
    THEN /\ job' = [job EXCEPT ![w] =
              [kind |-> "join", user |-> job[w].user, effect |-> "in", rounds |-> 2]]
         /\ round' = [round EXCEPT ![w] = 0]
         /\ Goto(w, "write")
         /\ UNCHANGED <<counted, draft>>
    ELSE End(w)

\* Mutant of Commit: the group's row stays locked.
CommitKeepingGroup(w) ==
  /\ pc[w] = "commit"
  /\ active' = Applied(w) /\ banned' = AppliedBans(w)
  /\ memberCount' = draft[w]
  /\ ReleaseRow(w)
  /\ AfterCommit(w)
  /\ UNCHANGED groupLock

Commit(w) ==
  /\ pc[w] = "commit"
  /\ active' = Applied(w) /\ banned' = AppliedBans(w)
  /\ memberCount' = draft[w]
  /\ ReleaseRow(w)
  /\ groupLock' = NoWorker
  /\ AfterCommit(w)

\* An exception or a lost connection rolls the transaction back.
Rollback(w) ==
  /\ pc[w] # "idle" /\ InTransaction(w) /\ job[w].kind \in CrashKinds
  /\ rowLock' = [u \in Users |-> IF rowLock[u] = w THEN NoWorker ELSE rowLock[u]]
  /\ groupLock' = IF groupLock = w THEN NoWorker ELSE groupLock
  /\ End(w)
  /\ UNCHANGED <<active, banned, memberCount>>

-----------------------------------------------------------------------------
(* Statements in autocommit mode *)

WriteThrough(w) ==
  /\ pc[w] = "write" /\ ~InTransaction(w)
  /\ rowLock[job[w].user] = NoWorker
  /\ active' = Applied(w) /\ banned' = AppliedBans(w)
  /\ Goto(w, "count")
  /\ UNCHANGED <<memberCount, rowLock, groupLock, job, round, counted, draft>>

StoreThrough(w) ==
  /\ pc[w] = "store" /\ ~InTransaction(w)
  /\ groupLock = NoWorker
  /\ memberCount' = counted[w]
  /\ IF round[w] + 1 < job[w].rounds
       THEN /\ round' = [round EXCEPT ![w] = @ + 1]
            /\ Goto(w, "count")
            /\ UNCHANGED <<job, counted, draft>>
       ELSE End(w)
  /\ UNCHANGED <<active, banned, rowLock, groupLock>>

\* update: Group.save() writes every column of the object loaded earlier.
SaveGroup(w) ==
  /\ pc[w] = "save"
  /\ groupLock = NoWorker
  /\ memberCount' = counted[w]
  /\ End(w)
  /\ UNCHANGED <<active, banned, rowLock, groupLock>>

\* The process dies between two autocommitted statements.
Die(w) ==
  /\ pc[w] # "idle" /\ ~InTransaction(w) /\ job[w].kind \in CrashKinds
  /\ End(w)
  /\ UNCHANGED <<active, banned, memberCount, rowLock, groupLock>>

-----------------------------------------------------------------------------
\* SELECT count: the first statement of both recounts.
Count(w) ==
  /\ pc[w] = "count"
  /\ counted' = [counted EXCEPT ![w] = Cardinality(Seen(w))]
  /\ Goto(w, "store")
  /\ UNCHANGED <<active, banned, memberCount, rowLock, groupLock, job, round, draft>>

Start(w) ==
  \/ \E u \in Users : StartExit(w, u)
  \/ \E u \in Users : StartEnter(w, u)
  \/ \E u \in Users : StartJoin(w, u)
  \/ \E u \in Users : StartUnban(w, u)
  \/ \E u \in Users : StartTouch(w, u)
  \/ StartUpdate(w)

Statement(w) ==
  \/ WriteRow(w) \/ WriteThrough(w)
  \/ Count(w)
  \/ StoreCount(w) \/ StoreThrough(w) \/ SaveGroup(w)
  \/ Commit(w)

Next == \E w \in Workers : Start(w) \/ Statement(w) \/ Rollback(w) \/ Die(w)

Spec == Init /\ [][Next]_vars

\* A statement is executed sooner or later; one that waits for a row gets it,
\* because PostgreSQL queues the transactions waiting for a row lock.
Fairness == \A w \in Workers : SF_vars(Statement(w))

FairSpec == Spec /\ Fairness

-----------------------------------------------------------------------------
(* Safety and liveness *)

TypeOK ==
  /\ active \subseteq Users /\ banned \subseteq Users
  /\ memberCount \in Nat
  /\ rowLock \in [Users -> Workers \union {NoWorker}]
  /\ groupLock \in Workers \union {NoWorker}
  /\ job \in [Workers -> Job]
  /\ pc \in [Workers -> {"idle", "write", "count", "store", "commit", "save"}]
  /\ round \in [Workers -> 0..3]
  /\ counted \in [Workers -> Nat]
  /\ draft \in [Workers -> Nat]

\* services.py:7, "keeps member_count correct": the committed count is the
\* number of committed active members, in every state.  True of "tx"
\* operations alone, because the last recount runs under the group's row lock.
CountExact == memberCount = Cardinality(active)

\* The same wherever no request is under way.
QuietCountExact == (\A w \in Workers : pc[w] = "idle") => CountExact

\* w has committed a membership by itself and not stored its recount yet.
Uncounted(w) == job[w].kind \in {"join", "unban"} /\ pc[w] \in {"count", "store"}

\* A transaction that changes the membership commits an exact count, even if
\* touches and group saves that raced before it had spoiled the count.  Only a
\* public join or an unban in flight, whose write is not covered by the group's
\* row lock, can get between a transaction's last count and its commit (also
\* one whose worker died after that write, which CrashKinds must leave out).
ChangeRepairsCount ==
  [][active' # active /\ (\A w \in Workers : job[w].kind \notin {"insert", "join", "unban"})
       => memberCount' = Cardinality(active')]_vars

\* Why the count of a transaction is right when it commits.  Having stored
\* once it owns the group's row, so no other transaction commits a
\* membership, and a join or unban that does must wait for that row to store
\* its recount; unless one is waiting, what is counted from then on is the set
\* that will be committed.  The first count, made before that lock, may be
\* stale: it is never the one that is committed.
CountSafe(w) ==
  /\ job[w].kind \in {"tx", "insert"} =>
       /\ pc[w] = "write" => round[w] = 0
       /\ round[w] > 0 => groupLock = w
       /\ pc[w] = "commit" => round[w] > 0
  /\ job[w].kind = "tx" /\ (\A v \in Workers : ~Uncounted(v)) =>
       /\ pc[w] = "store" /\ round[w] > 0 => counted[w] = Cardinality(Applied(w))
       /\ pc[w] = "commit" => draft[w] = Cardinality(Applied(w))

CountUnderLock == \A w \in Workers : CountSafe(w)

\* Rows are always locked in the order member, group: every request that
\* started comes to an end, none deadlocks or starves.
EveryRequestEnds == \A w \in Workers : pc[w] # "idle" ~> pc[w] = "idle"

\* Membership changes and their count look like one step.
Abstract == INSTANCE Roster
ImplementsRoster == Abstract!Spec
=============================================================================
