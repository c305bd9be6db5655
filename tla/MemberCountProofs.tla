-------------------------- MODULE MemberCountProofs --------------------------
(***************************************************************************)
(* Proofs about MemberCount for any number of workers and any finite set   *)
(* of users: while no public join or unban is in flight, every committed   *)
(* change of membership leaves member_count exact, and transactional       *)
(* operations alone implement Roster.                                      *)
(*                                                                         *)
(* The invariant is inductive because of the second recount.  The first    *)
(* UPDATE of the group's row makes the transaction wait for every other    *)
(* one that changed the roster; CountUnderLock says that what it counts    *)
(* after that cannot go stale before it commits, unless an autocommitted   *)
(* write that makes it stale is waiting for the same row.                  *)
(***************************************************************************)
EXTENDS MemberCount, FiniteSetTheorems, TLAPS

USE WorkersAssumption, OwnerAssumption, FiniteAssumption, KindsAssumption

\* The kind of a job decides its effect, its recounts and where its program
\* counter can be.
Shape(w) ==
  /\ \/ job[w].kind \in Kinds \union {"none"}
     \/ job[w].kind = "insert" /\ "join" \in Kinds
  /\ job[w].kind = "tx" => job[w].rounds >= 2
  /\ job[w].kind \in {"tx", "insert"} => pc[w] # "idle" /\ pc[w] # "save"
  /\ job[w].kind \notin {"tx", "insert"} => pc[w] # "commit"
  /\ job[w].kind \in {"join", "unban"} => pc[w] \in {"write", "count", "store"}
  /\ job[w].kind \in {"none", "touch", "update"} => job[w].effect = "keep"
  /\ pc[w] \in {"write", "count", "store"} => round[w] < job[w].rounds

JobShape == \A w \in Workers : Shape(w)

\* No worker dies between an autocommitted change of status and its recount.
Covered == Kinds \cap CrashKinds \cap {"join", "unban"} = {}

IInv == TypeOK /\ JobShape /\ (Covered => CountUnderLock)

-----------------------------------------------------------------------------
\* The set a worker will commit is a finite set of users, so its size is a
\* natural number.
LEMMA AppliedFinite ==
  ASSUME TypeOK, NEW w \in Workers
  PROVE  /\ Applied(w) \subseteq Users
         /\ Seen(w) \subseteq Users /\ AppliedBans(w) \subseteq Users
         /\ Cardinality(Applied(w)) \in Nat
         /\ Cardinality(Seen(w)) \in Nat
  <1>1. active \subseteq Users /\ banned \subseteq Users /\ job[w].user \in Users
    BY DEF TypeOK, Job
  <1>2. Applied(w) \subseteq Users /\ Seen(w) \subseteq Users /\ AppliedBans(w) \subseteq Users
    BY <1>1 DEF Applied, AppliedBans, Seen
  <1>3. IsFiniteSet(Applied(w)) /\ IsFiniteSet(Seen(w))
    BY <1>2, FS_Subset
  <1> QED BY <1>2, <1>3, FS_CardinalityType

\* A request that ends leaves well-typed locals and no job.
LEMMA EndStep ==
  ASSUME TypeOK, NEW w \in Workers, End(w)
  PROVE  /\ pc' = [pc EXCEPT ![w] = "idle"]
         /\ job' = [job EXCEPT ![w] = NoJob]
         /\ job' \in [Workers -> Job]
         /\ pc' \in [Workers -> {"idle", "write", "count", "store", "commit", "save"}]
         /\ round' \in [Workers -> 0..3]
         /\ counted' \in [Workers -> Nat]
         /\ draft' \in [Workers -> Nat]
  BY DEF TypeOK, End, Goto, NoJob, Job

LEMMA InitIInv == Init => IInv
  <1> SUFFICES ASSUME Init PROVE IInv
    OBVIOUS
  <1>1. NoJob \in Job
    BY DEF NoJob, Job
  <1>2. TypeOK
    BY <1>1 DEF Init, TypeOK
  <1>3. JobShape /\ CountUnderLock
    BY DEF Init, JobShape, Shape, CountUnderLock, CountSafe, NoJob
  <1> QED BY <1>2, <1>3 DEF IInv

\* Workers other than w keep their locals.
Others(w) ==
  \A v \in Workers \ {w} :
    /\ job'[v] = job[v] /\ pc'[v] = pc[v] /\ round'[v] = round[v]
    /\ counted'[v] = counted[v] /\ draft'[v] = draft[v]

\* What a step of w does to the roster or to the group's lock cannot harm
\* another worker's count: nothing changes, or nobody else owns the group's row
\* and so nobody else has stored yet, or w has still to store its recount.
Harmless(w) ==
  \/ groupLock \in {w, NoWorker}
  \/ groupLock' = groupLock /\ (Uncounted(w)' \/ (active' = active /\ ~Uncounted(w)))

LEMMA OtherWorkersSafe ==
  ASSUME IInv, NEW w \in Workers, Others(w), Covered => Harmless(w)
  PROVE  \A v \in Workers \ {w} : Shape(v)' /\ (Covered => CountSafe(v)')
  <1> SUFFICES ASSUME NEW v \in Workers \ {w} PROVE Shape(v)' /\ (Covered => CountSafe(v)')
    OBVIOUS
  <1>1. Shape(v)'
    BY DEF IInv, JobShape, Shape, Others
  <1>2. ASSUME Covered PROVE CountSafe(v)'
    <2>1. /\ job'[v] = job[v] /\ pc'[v] = pc[v] /\ round'[v] = round[v]
          /\ counted'[v] = counted[v] /\ draft'[v] = draft[v]
      BY DEF Others
    <2>2. \A u \in Workers \ {w} : Uncounted(u)' <=> Uncounted(u)
      BY DEF Others, Uncounted
    <2>3. CountSafe(v) /\ Harmless(w)
      BY <1>2 DEF IInv, CountUnderLock
    <2>4. CASE ~(job[v].kind \in {"tx", "insert"} /\ round[v] > 0)
      BY <2>1, <2>3, <2>4 DEF CountSafe
    <2>5. CASE job[v].kind \in {"tx", "insert"} /\ round[v] > 0
      <3>1. groupLock = v /\ groupLock' = v
        BY <2>3, <2>5 DEF CountSafe, Harmless
      <3>2. (\A u \in Workers : ~Uncounted(u)') => active' = active /\ \A u \in Workers : ~Uncounted(u)
        BY <2>2, <2>3, <3>1 DEF Harmless
      <3>3. active' = active => Applied(v)' = Applied(v)
        BY <2>1 DEF Applied
      <3> QED BY <2>1, <2>3, <3>1, <3>2, <3>3 DEF CountSafe
    <2> QED BY <2>4, <2>5
  <1> QED BY <1>1, <1>2

\* The frame of every step: a step of w keeps the invariant if it keeps the
\* types, leaves the other workers alone and is right about w.
LEMMA StepOf ==
  ASSUME IInv, NEW w \in Workers, Others(w), TypeOK', Shape(w)',
         Covered => Harmless(w) /\ CountSafe(w)'
  PROVE  IInv'
  BY OtherWorkersSafe DEF IInv, JobShape, CountUnderLock

\* A new request: the program counter leaves "idle", nothing shared changes.
LEMMA BeginStep ==
  ASSUME IInv, NEW w \in Workers, NEW j \in Job,
         NEW label \in {"write", "save"}, Begin(w, j, label),
         j.kind \in Kinds \/ (j.kind = "insert" /\ "join" \in Kinds),
         \/ j.kind = "tx" /\ j.rounds >= 2 /\ label = "write"
         \/ j.kind \in {"insert", "join", "unban"} /\ label = "write"
         \/ j.kind = "touch" /\ j.effect = "keep" /\ label = "write"
         \/ j.kind = "update" /\ j.effect = "keep" /\ label = "save",
         UNCHANGED <<active, banned, memberCount, rowLock, groupLock, draft>>,
         \E n \in Nat : counted' = [counted EXCEPT ![w] = n]
  PROVE  IInv'
  <1>1. TypeOK'
    BY DEF IInv, TypeOK, Begin, Goto
  <1>2. Others(w)
    BY DEF IInv, TypeOK, Begin, Goto, Others
  <1>3. job'[w] = j /\ pc'[w] = label /\ round'[w] = 0 /\ pc[w] = "idle"
    BY DEF IInv, TypeOK, Begin, Goto
  <1>4. Shape(w)'
    BY <1>3 DEF Shape, Job
  <1>5. CountSafe(w)'
    BY <1>3 DEF CountSafe
  <1>6. Harmless(w)
    BY <1>3 DEF Harmless, Uncounted
  <1> QED BY <1>1, <1>2, <1>4, <1>5, <1>6, StepOf

\* A request that ends: only its own locals and locks change.
LEMMA QuitStep ==
  ASSUME IInv, NEW w \in Workers, End(w),
         active' \subseteq Users, banned' \subseteq Users, memberCount' \in Nat,
         rowLock' \in [Users -> Workers \union {NoWorker}],
         groupLock' \in Workers \union {NoWorker},
         Covered => Harmless(w)
  PROVE  IInv'
  <1>1. TypeOK'
    BY EndStep DEF IInv, TypeOK
  <1>2. Others(w)
    BY DEF IInv, TypeOK, End, Goto, Others
  <1>3. job'[w] = NoJob /\ pc'[w] = "idle"
    BY DEF IInv, TypeOK, End, Goto
  <1>4. Shape(w)' /\ CountSafe(w)'
    BY <1>3 DEF Shape, CountSafe, NoJob
  <1> QED BY <1>1, <1>2, <1>4, StepOf

-----------------------------------------------------------------------------
(* The statements, one lemma each *)

LEMMA WriteRowStep ==
  ASSUME IInv, NEW w \in Workers, WriteRow(w) PROVE IInv'
  <1>1. TypeOK'
    BY DEF IInv, TypeOK, WriteRow, Goto, Job
  <1>2. Others(w)
    BY DEF IInv, TypeOK, WriteRow, Goto, Others
  <1>3. /\ pc[w] = "write" /\ pc'[w] = "count" /\ job'[w] = job[w]
        /\ round'[w] = round[w] /\ groupLock' = groupLock /\ active' = active
        /\ job[w].kind \in {"tx", "insert"}
    BY DEF IInv, TypeOK, WriteRow, Goto, InTransaction
  <1>4. Shape(w)'
    BY <1>3 DEF IInv, JobShape, Shape
  <1>5. Covered => CountSafe(w)'
    BY <1>3 DEF IInv, CountUnderLock, CountSafe
  <1>6. Harmless(w)
    BY <1>3 DEF Harmless, Uncounted
  <1> QED BY <1>1, <1>2, <1>4, <1>5, <1>6, StepOf

LEMMA WriteThroughStep ==
  ASSUME IInv, NEW w \in Workers, WriteThrough(w)
  PROVE  IInv' /\ (job[w].kind \notin {"join", "unban"} => active' = active)
  <1>1. job[w].kind \notin {"tx", "insert"} /\ job[w] \in Job
    BY DEF IInv, TypeOK, WriteThrough, InTransaction
  <1>2. job[w].kind \notin {"join", "unban"} => active' = active
    BY <1>1 DEF IInv, JobShape, Shape, WriteThrough, Applied, Job
  <1>3. active' \subseteq Users /\ banned' \subseteq Users
    BY <1>1, AppliedFinite DEF IInv, WriteThrough
  <1>4. TypeOK'
    BY <1>3 DEF IInv, TypeOK, WriteThrough, Goto
  <1>5. Others(w)
    BY DEF IInv, TypeOK, WriteThrough, Goto, Others
  <1>6. /\ pc[w] = "write" /\ pc'[w] = "count" /\ job'[w] = job[w]
        /\ round'[w] = round[w] /\ groupLock' = groupLock
    BY DEF IInv, TypeOK, WriteThrough, Goto
  <1>7. Shape(w)' /\ CountSafe(w)'
    BY <1>1, <1>6 DEF IInv, JobShape, Shape, CountSafe
  <1>8. Harmless(w)
    BY <1>2, <1>6 DEF Harmless, Uncounted
  <1> QED BY <1>2, <1>4, <1>5, <1>7, <1>8, StepOf

LEMMA CountStep ==
  ASSUME IInv, NEW w \in Workers, Count(w) PROVE IInv'
  <1>1. Cardinality(Seen(w)) \in Nat
    BY AppliedFinite DEF IInv
  <1>2. TypeOK'
    BY <1>1 DEF IInv, TypeOK, Count, Goto
  <1>3. Others(w)
    BY DEF IInv, TypeOK, Count, Goto, Others
  <1>4. /\ pc[w] = "count" /\ pc'[w] = "store" /\ job'[w] = job[w]
        /\ round'[w] = round[w] /\ groupLock' = groupLock
        /\ counted'[w] = Cardinality(Seen(w)) /\ active' = active
    BY DEF IInv, TypeOK, Count, Goto
  <1>5. job[w].kind = "tx" => Seen(w) = Applied(w)
    BY DEF Seen, InTransaction
  <1>6. Applied(w)' = Applied(w)
    BY <1>4 DEF Applied
  <1>7. Shape(w)'
    BY <1>4 DEF IInv, JobShape, Shape
  <1>8. Covered => CountSafe(w)'
    BY <1>4, <1>5, <1>6 DEF IInv, CountUnderLock, CountSafe
  <1>9. Harmless(w)
    BY <1>4 DEF Harmless, Uncounted
  <1> QED BY <1>2, <1>3, <1>7, <1>8, <1>9, StepOf

LEMMA StoreCountStep ==
  ASSUME IInv, NEW w \in Workers, StoreCount(w) PROVE IInv'
  <1>1. /\ pc[w] = "store" /\ job[w].kind \in {"tx", "insert"} /\ groupLock \in {w, NoWorker}
        /\ round[w] < job[w].rounds /\ job[w].rounds \in 1..3
        /\ (job[w].kind = "tx" => job[w].rounds >= 2) /\ round[w] \in 0..3
    BY DEF IInv, TypeOK, Job, JobShape, Shape, StoreCount, InTransaction, Free
  <1>2. TypeOK'
    <2>1. round[w] + 1 \in 0..3
      BY <1>1
    <2> QED BY <2>1 DEF IInv, TypeOK, StoreCount, Goto
  <1>3. Others(w)
    BY DEF IInv, TypeOK, StoreCount, Goto, Others
  <1>4. /\ pc'[w] = IF round[w] + 1 < job[w].rounds THEN "count" ELSE "commit"
        /\ job'[w] = job[w] /\ round'[w] = round[w] + 1 /\ groupLock' = w
        /\ draft'[w] = counted[w] /\ active' = active
    BY DEF IInv, TypeOK, StoreCount, Goto
  <1>5. Shape(w)'
    BY <1>1, <1>4 DEF IInv, JobShape, Shape
  <1>6. Applied(w)' = Applied(w)
    BY <1>4 DEF Applied
  <1>7. (\A v \in Workers : ~Uncounted(v))' <=> \A v \in Workers : ~Uncounted(v)
    BY <1>1, <1>3, <1>4 DEF Others, Uncounted
  <1>8. Covered => CountSafe(w)'
    BY <1>1, <1>4, <1>6, <1>7 DEF IInv, CountUnderLock, CountSafe
  <1> QED BY <1>1, <1>2, <1>3, <1>5, <1>8, StepOf DEF Harmless

LEMMA StoreThroughStep ==
  ASSUME IInv, NEW w \in Workers, StoreThrough(w)
  PROVE  IInv' /\ active' = active
  <1>1. /\ counted[w] \in Nat /\ job[w].kind \notin {"tx", "insert"} /\ groupLock = NoWorker
        /\ active' = active /\ groupLock' = groupLock /\ pc[w] = "store"
    BY DEF IInv, TypeOK, StoreThrough, InTransaction, Job
  <1>2. Harmless(w)
    BY <1>1 DEF Harmless
  <1>3. CASE End(w)
    BY <1>1, <1>2, <1>3, QuitStep DEF IInv, TypeOK, StoreThrough
  <1>4. CASE ~End(w)
    <2>1. /\ round[w] + 1 < job[w].rounds /\ round' = [round EXCEPT ![w] = @ + 1]
          /\ Goto(w, "count") /\ UNCHANGED <<job, counted, draft, rowLock, banned>>
          /\ memberCount' = counted[w]
      BY <1>4 DEF StoreThrough
    <2>2. round[w] + 1 \in 0..3
      BY <2>1 DEF IInv, TypeOK, Job
    <2>3. TypeOK'
      BY <1>1, <2>1, <2>2 DEF IInv, TypeOK, Goto
    <2>4. Others(w)
      BY <2>1 DEF IInv, TypeOK, Goto, Others
    <2>5. pc'[w] = "count" /\ job'[w] = job[w] /\ round'[w] = round[w] + 1
      BY <2>1 DEF IInv, TypeOK, Goto
    <2>6. Shape(w)' /\ CountSafe(w)'
      BY <1>1, <2>1, <2>5 DEF IInv, JobShape, Shape, CountSafe
    <2> QED BY <1>1, <1>2, <2>3, <2>4, <2>6, StepOf
  <1> QED BY <1>3, <1>4

\* The heart of the argument: at the commit the group's row is w's, so the
\* roster that becomes visible is the one w counted, unless somebody has still
\* to store the recount of a write of his own.
LEMMA CommitStep ==
  ASSUME IInv, NEW w \in Workers, Commit(w)
  PROVE  /\ IInv'
         /\ Covered /\ job[w].kind # "insert" /\ (\A v \in Workers : ~Uncounted(v))
              => memberCount' = Cardinality(active')
  <1>1. /\ job[w].kind \in {"tx", "insert"} /\ pc[w] = "commit" /\ job[w] \in Job
        /\ draft[w] \in Nat
    BY DEF IInv, TypeOK, JobShape, Shape, Commit
  <1>2. active' = Applied(w) /\ banned' = AppliedBans(w) /\ memberCount' = draft[w]
    BY DEF Commit
  <1>3. active' \subseteq Users /\ banned' \subseteq Users /\ memberCount' \in Nat
    BY <1>1, <1>2, AppliedFinite DEF IInv
  <1>4. /\ rowLock' \in [Users -> Workers \union {NoWorker}]
        /\ groupLock' \in Workers \union {NoWorker}
    BY DEF IInv, TypeOK, Commit, ReleaseRow
  <1>5. Covered => Harmless(w)
    BY <1>1 DEF IInv, CountUnderLock, CountSafe, Harmless, TypeOK
  <1>6. ASSUME job[w].kind # "insert", Covered, \A v \in Workers : ~Uncounted(v)
        PROVE  memberCount' = Cardinality(active')
    BY <1>1, <1>2, <1>6 DEF IInv, CountUnderLock, CountSafe
  <1>7. CASE job[w].kind # "insert"
    <2>1. End(w)
      BY <1>7 DEF Commit, AfterCommit
    <2> QED BY <1>3, <1>4, <1>5, <1>6, <2>1, QuitStep
  <1>8. CASE job[w].kind = "insert"
    <2> DEFINE j == [kind |-> "join", user |-> job[w].user, effect |-> "in", rounds |-> 2]
    <2>1. /\ job' = [job EXCEPT ![w] = j]
          /\ round' = [round EXCEPT ![w] = 0] /\ Goto(w, "write") /\ UNCHANGED <<counted, draft>>
      BY <1>8 DEF Commit, AfterCommit
    <2>2. job' \in [Workers -> Job] /\ job'[w].kind = "join" /\ job'[w].rounds = 2
      BY <1>1, <2>1 DEF IInv, TypeOK, Job
    <2>3. TypeOK'
      BY <1>3, <1>4, <2>1, <2>2 DEF IInv, TypeOK, Goto
    <2>4. Others(w)
      BY <2>1 DEF IInv, TypeOK, Goto, Others
    <2>5. pc'[w] = "write" /\ round'[w] = 0
      BY <2>1 DEF IInv, TypeOK, Goto
    <2>6. Shape(w)' /\ CountSafe(w)'
      BY <1>8, <2>2, <2>5 DEF IInv, JobShape, Shape, CountSafe
    <2> QED BY <1>5, <1>8, <2>3, <2>4, <2>6, StepOf
  <1> QED BY <1>6, <1>7, <1>8

LEMMA StartStep ==
  ASSUME IInv, NEW w \in Workers, Start(w)
  PROVE  IInv' /\ active' = active /\ memberCount' = memberCount
  <1>1. counted' = counted => \E n \in Nat : counted' = [counted EXCEPT ![w] = n]
    BY DEF IInv, TypeOK
  <1>2. ASSUME NEW u \in Users, StartExit(w, u) PROVE IInv'
    <2>1. PICK e \in {"out", "ban"} : Begin(w,
            [kind |-> "tx", user |-> u, effect |-> e, rounds |-> 2], "write")
      BY <1>2 DEF StartExit
    <2> DEFINE j == [kind |-> "tx", user |-> u, effect |-> e, rounds |-> 2]
    <2>2. j \in Job /\ j.kind = "tx" /\ j.rounds >= 2
      BY DEF Job
    <2> QED BY <1>1, <1>2, <2>1, <2>2, BeginStep DEF StartExit
  <1>3. ASSUME NEW u \in Users, StartEnter(w, u) PROVE IInv'
    <2>1. PICK n \in {2, 3} : Begin(w,
            [kind |-> "tx", user |-> u, effect |-> "in", rounds |-> n], "write")
      BY <1>3 DEF StartEnter
    <2> DEFINE j == [kind |-> "tx", user |-> u, effect |-> "in", rounds |-> n]
    <2>2. j \in Job /\ j.kind = "tx" /\ j.rounds >= 2
      BY DEF Job
    <2> QED BY <1>1, <1>3, <2>1, <2>2, BeginStep DEF StartEnter
  <1>4. ASSUME NEW u \in Users, StartTouch(w, u) PROVE IInv'
    <2> DEFINE j == [kind |-> "touch", user |-> u, effect |-> "keep", rounds |-> 1]
    <2>1. j \in Job /\ j.kind = "touch" /\ j.effect = "keep"
      BY DEF Job
    <2> QED BY <1>1, <1>4, <2>1, BeginStep DEF StartTouch
  <1>5. ASSUME StartUpdate(w) PROVE IInv'
    <2> DEFINE j == [NoJob EXCEPT !.kind = "update"]
    <2>1. j \in Job /\ j.kind = "update" /\ j.effect = "keep"
      BY DEF Job, NoJob
    <2>2. memberCount \in Nat
      BY DEF IInv, TypeOK
    <2> QED BY <1>5, <2>1, <2>2, BeginStep DEF StartUpdate
  <1>6. ASSUME NEW u \in Users, StartJoin(w, u) PROVE IInv'
    <2>1. PICK k \in {"insert", "join"}, n \in {1, 2} : Begin(w,
            [kind |-> k, user |-> u, effect |-> "in", rounds |-> n], "write")
      BY <1>6 DEF StartJoin
    <2> DEFINE j == [kind |-> k, user |-> u, effect |-> "in", rounds |-> n]
    <2>2. j \in Job /\ j.kind \in {"insert", "join", "unban"}
      BY DEF Job
    <2> QED BY <1>1, <1>6, <2>1, <2>2, BeginStep DEF StartJoin
  <1>7. ASSUME NEW u \in Users, StartUnban(w, u) PROVE IInv'
    <2> DEFINE j == [kind |-> "unban", user |-> u, effect |-> "out", rounds |-> 1]
    <2>1. j \in Job /\ j.kind \in {"insert", "join", "unban"}
      BY DEF Job
    <2> QED BY <1>1, <1>7, <2>1, BeginStep DEF StartUnban
  <1> QED
    BY <1>2, <1>3, <1>4, <1>5, <1>6, <1>7
       DEF Start, StartExit, StartEnter, StartJoin, StartUnban, StartTouch, StartUpdate

\* Every step keeps the invariant, and one that changes the roster while no
\* join or unban is in flight makes the count exact.
LEMMA NextIInv ==
  ASSUME IInv, [Next]_vars
  PROVE  /\ IInv'
         /\ Covered /\ active' # active /\ (\A w \in Workers : job[w].kind \notin {"insert", "join", "unban"})
              => memberCount' = Cardinality(active')
  <1> DEFINE Repairs == Covered /\ active' # active /\ (\A w \in Workers : job[w].kind \notin {"insert", "join", "unban"})
              => memberCount' = Cardinality(active')
  <1>1. ASSUME NEW w \in Workers, SaveGroup(w)
        PROVE  IInv' /\ active' = active
    <2>1. Harmless(w)
      BY <1>1 DEF SaveGroup, Harmless
    <2> QED BY <1>1, <2>1, QuitStep DEF SaveGroup, IInv, TypeOK
  <1>2. ASSUME NEW w \in Workers, Rollback(w)
        PROVE  IInv' /\ active' = active
    <2>1. rowLock' \in [Users -> Workers \union {NoWorker}]
      BY <1>2 DEF Rollback, IInv, TypeOK
    <2>2. Harmless(w)
      BY <1>2 DEF Rollback, Harmless, Uncounted, InTransaction
    <2> QED BY <1>2, <2>1, <2>2, QuitStep DEF Rollback, IInv, TypeOK
  <1>3. ASSUME NEW w \in Workers, Die(w)
        PROVE  IInv' /\ active' = active
    <2>1. Covered => Harmless(w)
      BY <1>3 DEF Die, IInv, JobShape, Shape, Covered, Harmless, Uncounted
    <2> QED BY <1>3, <2>1, QuitStep DEF Die, IInv, TypeOK
  <1>4. CASE UNCHANGED vars
    <2>1. TypeOK'
      BY <1>4 DEF IInv, TypeOK, vars
    <2>2. JobShape' /\ (Covered => CountUnderLock')
      BY <1>4 DEF IInv, JobShape, Shape, CountUnderLock, CountSafe, Uncounted, Applied, vars
    <2> QED BY <1>4, <2>1, <2>2 DEF IInv, vars
  <1>5. ASSUME NEW w \in Workers, Statement(w) PROVE IInv' /\ Repairs
    <2>1. WriteRow(w) \/ Count(w) \/ StoreCount(w) => active' = active
      BY DEF WriteRow, Count, StoreCount
    <2>2. CASE Commit(w)
      BY <2>2, CommitStep DEF Uncounted
    <2>3. CASE WriteThrough(w)
      BY <2>3, WriteThroughStep
    <2> QED
      BY <1>1, <1>5, <2>1, <2>2, <2>3, WriteRowStep, CountStep,
         StoreCountStep, StoreThroughStep DEF Statement
  <1> QED BY <1>2, <1>3, <1>4, <1>5, StartStep DEF Next

-----------------------------------------------------------------------------
(* Theorems *)

\* The rows, locks and requests keep their types, whatever kinds of operation
\* overlap and whoever dies.
THEOREM TypeCorrect == Spec => []TypeOK
  <1>1. IInv => TypeOK
    BY DEF IInv
  <1>2. IInv /\ [Next]_vars => IInv'
    BY NextIInv
  <1> QED BY <1>1, <1>2, InitIInv, PTL DEF Spec

\* What a transaction counts under the lock on the group's row stays the number
\* of its members until it commits, for any users, workers and kinds of
\* operation, unless a public join or an unban that wrote by itself is waiting
\* to store its recount; no such worker may die while it waits.
THEOREM CountUnderLockHolds ==
  ASSUME Covered
  PROVE  Spec => []CountUnderLock
  <1>1. IInv => CountUnderLock
    BY DEF IInv
  <1>2. IInv /\ [Next]_vars => IInv'
    BY NextIInv
  <1> QED BY <1>1, <1>2, InitIInv, PTL DEF Spec

\* Every change of membership made while no public join and no unban is in
\* flight commits together with the exact count, whatever kinds of operation
\* ran before, spoiled the count or race with it: set_role, mute, and full
\* saves of the group among them.
THEOREM ChangeRepairsCountHolds ==
  ASSUME Covered
  PROVE  Spec => ChangeRepairsCount
  <1>1. IInv /\ [Next]_vars => IInv'
    BY NextIInv
  <1>2. IInv /\ [Next]_vars
          => [active' # active /\ (\A w \in Workers : job[w].kind \notin {"insert", "join", "unban"})
                => memberCount' = Cardinality(active')]_vars
    BY NextIInv
  <1> QED BY InitIInv, <1>1, <1>2, PTL DEF Spec, ChangeRepairsCount

\* No worker runs anything but a transaction.
OnlyTx == \A w \in Workers : job[w].kind \in {"none", "tx"} /\ (pc[w] # "idle" => job[w].kind = "tx")

\* Then the count is written by commits only.
LEMMA OnlyCommitWrites ==
  ASSUME Kinds \subseteq {"tx"}, IInv, OnlyTx, [Next]_vars
  PROVE  /\ OnlyTx'
         /\ \/ active' = active /\ memberCount' = memberCount
            \/ \E w \in Workers : Commit(w)
  <1>1. ASSUME NEW w \in Workers, End(w) PROVE OnlyTx'
    BY <1>1 DEF OnlyTx, IInv, TypeOK, End, Goto, NoJob
  <1>2. ASSUME NEW w \in Workers, Start(w)
        PROVE  OnlyTx' /\ active' = active /\ memberCount' = memberCount
    BY <1>2 DEF OnlyTx, IInv, TypeOK, Start, StartExit, StartEnter, StartJoin, StartUnban,
                StartTouch, StartUpdate, Begin, Goto
  <1>3. ASSUME NEW w \in Workers, WriteRow(w) \/ Count(w) \/ StoreCount(w)
        PROVE  OnlyTx' /\ active' = active /\ memberCount' = memberCount
    BY <1>3 DEF OnlyTx, IInv, TypeOK, WriteRow, Count, StoreCount, Goto
  <1>4. ASSUME NEW w \in Workers
        PROVE  ~WriteThrough(w) /\ ~StoreThrough(w) /\ ~SaveGroup(w) /\ ~Die(w)
    BY DEF OnlyTx, IInv, JobShape, Shape, WriteThrough, StoreThrough, SaveGroup,
           Die, InTransaction
  <1>5. ASSUME NEW w \in Workers, Commit(w) PROVE OnlyTx'
    <2>1. job[w].kind # "insert"
      BY DEF OnlyTx
    <2> QED BY <1>1, <1>5, <2>1 DEF Commit, AfterCommit
  <1>6. ASSUME NEW w \in Workers, Rollback(w)
        PROVE  OnlyTx' /\ active' = active /\ memberCount' = memberCount
    BY <1>1, <1>6 DEF Rollback
  <1>7. CASE UNCHANGED vars
    BY <1>7 DEF OnlyTx, vars
  <1> QED BY <1>2, <1>3, <1>4, <1>5, <1>6, <1>7 DEF Next, Statement

\* The group starts with its owner alone and a count of one.
LEMMA InitExact == Init => OnlyTx /\ CountExact
  <1>1. Cardinality({Owner}) = 1
    BY FS_Singleton
  <1> QED BY <1>1 DEF Init, OnlyTx, CountExact, NoJob

\* "keeps member_count correct" holds of transactional operations: the
\* committed count is exact in every state.
THEOREM CountExactHolds ==
  ASSUME Kinds \subseteq {"tx"}
  PROVE  Spec => []CountExact
  <1>1. IInv /\ [Next]_vars => IInv'
    BY NextIInv
  <1>2. IInv /\ OnlyTx /\ CountExact /\ [Next]_vars => OnlyTx' /\ CountExact'
    BY OnlyCommitWrites, CommitStep DEF CountExact, OnlyTx, Uncounted, Covered
  <1> QED BY InitIInv, InitExact, <1>1, <1>2, PTL DEF Spec

\* Roster's own instance of FiniteSets counts as this module's does.
LEMMA SameCardinality == \A S : Abstract!Cardinality(S) = Cardinality(S)
  BY DEF Abstract!Cardinality, Cardinality, Abstract!IsFiniteSet, IsFiniteSet

\* The statements of transactional operations implement the one-step roster:
\* a commit is an Enter or an Exit, everything else stutters.
THEOREM RosterImplemented ==
  ASSUME Kinds \subseteq {"tx"}
  PROVE  Spec => ImplementsRoster
  <1>1. Init => Abstract!Init
    BY InitExact, SameCardinality DEF Init, CountExact, Abstract!Init
  <1>2. IInv /\ [Next]_vars => IInv'
    BY NextIInv
  <1>3. IInv /\ OnlyTx /\ CountExact /\ [Next]_vars => OnlyTx' /\ CountExact'
    BY OnlyCommitWrites, CommitStep DEF CountExact, OnlyTx, Uncounted, Covered
  <1>4. IInv /\ OnlyTx /\ CountExact /\ [Next]_vars
          => [Abstract!Next]_<<active, memberCount>>
    <2> SUFFICES ASSUME IInv, OnlyTx, CountExact, NEW w \in Workers, Commit(w)
                 PROVE  [Abstract!Next]_<<active, memberCount>>
      BY OnlyCommitWrites
    <2>1. memberCount' = Cardinality(active')
      BY CommitStep DEF OnlyTx, Uncounted, Covered
    <2>2. job[w].user \in Users /\ active' = Applied(w)
      BY DEF IInv, TypeOK, Job, Commit
    <2>3. CASE active' = active
      BY <2>1, <2>3 DEF CountExact
    <2>4. CASE active' # active
      <3>1. \/ active' = active \union {job[w].user}
            \/ active' = active \ {job[w].user}
        BY <2>2, <2>4 DEF Applied
      <3> QED BY <2>1, <2>2, <3>1, SameCardinality
            DEF Abstract!Next, Abstract!Enter, Abstract!Exit
    <2> QED BY <2>3, <2>4
  <1> QED
    BY InitIInv, InitExact, <1>1, <1>2, <1>3, <1>4, PTL
       DEF Spec, ImplementsRoster, Abstract!Spec
=============================================================================
