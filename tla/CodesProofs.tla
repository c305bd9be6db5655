---------------------------- MODULE CodesProofs ----------------------------
(***************************************************************************)
(* For any users, mixes of requests and number of requests in flight, what *)
(* a one-time code may do and how often it may be guessed:                 *)
(*                                                                         *)
(* - it activates an account, moves an address or resets a password only if *)
(* it was mailed for that.  The invariant follows the code from the record *)
(* it was drawn for through every copy and mail of it;                     *)
(*                                                                         *)
(* - it takes at most MaxWrong + 1 wrong guesses while it is live.  The    *)
(* invariant says of every copy of its record how its count stands to the  *)
(* guesses made.                                                           *)
(***************************************************************************)
EXTENDS AccountsProofs

-----------------------------------------------------------------------------
(* Where codes come from and go to.  A code is drawn for one record of one *)
(* user; copies of the record take it along, and mails are sent of it.     *)

\* Requests whose row is a record that was read or inserted.
Carrying(j) == j.plan \in Sending \cup Saving \cup Revising \cup Loading \cup Changing
Trusting(j) == j.plan \in Loading \cup Changing

Records == {codes[r] : r \in DOMAIN codes} \cup {jobs[w].row : w \in {v \in Worker : Carrying(jobs[v])}}

SameCode(x, y) == x.user = y.user /\ x.kind = y.kind
Announces(m, x) == m.user = x.user /\ m.kind = x.kind

OneRecord ==
  /\ \A x, y \in Records : x.code = y.code /\ x.code # None => SameCode(x, y)
  /\ \A x \in Records, m \in mail : m.code = x.code => Announces(m, x)
  /\ \A x \in Records : x.user \in DOMAIN told

\* A user never verified is as he registered; T is what users have been told.
Untouched(T, u, a) == ~T[u].active => ~a.active /\ a.email = T[u].email
Account(a) == a = [email |-> a.email, active |-> a.active, pw |-> a.pw]
Addressed(T, u, a) == u \in DOMAIN T /\ (~T[u].active => a = T[u].email)

\* The code mailed (M) for a forgotten password was posted (P) for record r.
Answered(r, u, M, P) == \E m \in M : m.user = u /\ m.kind = "forget" /\ <<r, m.code>> \in P
Proven(r, x, M, P) == x.kind = "forget" /\ x.done => Answered(r, x.user, M, P)

Unmade == {<<>>, <<"clear", "create", "issue", "deliver">>, <<"create", "issue", "deliver">>,
           <<"clear", "create", "issue", "saveRow", "deliver">>, <<"create", "issue", "saveRow", "deliver">>}
Working == Sending \cup {<<"saveRow">>} \cup Revising \cup Loading \cup Changing
SignedIn == {"postEmail", "verifyEmail", "changePassword"}
ByCode == {"verify", "link", "verifyEmail"}

Trusted(j, T, M, P) ==
  /\ Carrying(j) => j.row.user = j.user /\ j.user \in DOMAIN T /\ Proven(j.rec, j.row, M, P)
  /\ j.kind = "register" /\ j.plan \notin Unmade => Addressed(T, j.user, j.to)
  /\ j.kind \in SignedIn => T[j.user].active /\ j.plan \in Working
  /\ Trusting(j) /\ j.kind \in ByCode => j.row.code = j.code /\ \E m \in M : m.code = j.code
  /\ Trusting(j) /\ j.kind = "verifyEmail" => j.row.kind = "email"
  /\ Trusting(j) /\ j.kind = "setForget" => Answered(j.rec, j.user, M, P)
  /\ j.plan \in Changing /\ ~T[j.user].active =>
       j.acct.email = T[j.user].email /\ (j.acct.active => j.kind \in {"verify", "link"})

Traced ==
  /\ OneRecord
  /\ \A u \in DOMAIN told : Account(told[u])
  /\ \A u \in DOMAIN users : Untouched(told, u, users[u])
  /\ \A m \in mail : Addressed(told, m.user, m.to)
  /\ \A r \in DOMAIN codes : Proven(r, codes[r], mail, posted)
  /\ \A w \in Worker : Trusted(jobs[w], told, mail, posted)

-----------------------------------------------------------------------------
\* Users are told that they are verified, or more; only who is verified is
\* told of a new address.
Grows(T, U) == \A u \in DOMAIN T : u \in DOMAIN U /\ (~U[u].active => ~T[u].active /\ U[u].email = T[u].email)

LEMMA ProvenStays ==
  ASSUME NEW r, NEW x, NEW M, NEW N, NEW P, NEW Q, M \subseteq N, P \subseteq Q, Proven(r, x, M, P)
  PROVE  Proven(r, x, N, Q)
  BY DEF Proven, Answered

LEMMA AddressedStays ==
  ASSUME NEW T, NEW U, Grows(T, U), NEW u, NEW a, Addressed(T, u, a)
  PROVE  Addressed(U, u, a)
  BY Zenon DEF Addressed, Grows

LEMMA TrustedStays ==
  ASSUME NEW j, NEW T, NEW U, NEW M, NEW N, NEW P, NEW Q, Grows(T, U), M \subseteq N, P \subseteq Q, Trusted(j, T, M, P)
  PROVE  Trusted(j, U, N, Q)
  <1>1. Carrying(j) => j.row.user = j.user /\ j.user \in DOMAIN U /\ Proven(j.rec, j.row, N, Q)
    BY ProvenStays, Zenon DEF Trusted, Grows
  <1>3. j.kind = "register" /\ j.plan \notin Unmade => Addressed(U, j.user, j.to)
    BY AddressedStays, Zenon DEF Trusted
  <1>4. Carrying(j) /\ T[j.user].active => U[j.user].active
    BY Zenon DEF Trusted, Grows
  <1>5. j.plan \in Working => Carrying(j)
    BY DEF Carrying, Saving, Working
  <1>6. j.kind \in SignedIn => U[j.user].active /\ j.plan \in Working
    BY <1>4, <1>5, Zenon DEF Trusted
  <1>7. Trusting(j) /\ j.kind \in ByCode => j.row.code = j.code /\ \E m \in N : m.code = j.code
    BY DEF Trusted
  <1>8. Trusting(j) /\ j.kind = "verifyEmail" => j.row.kind = "email"
    BY Zenon DEF Trusted
  <1>9. Trusting(j) /\ j.kind = "setForget" => Answered(j.rec, j.user, N, Q)
    <2>1. Trusting(j) /\ j.kind = "setForget" => Answered(j.rec, j.user, M, P)
      BY Zenon DEF Trusted
    <2> QED BY <2>1 DEF Answered
  <1>10. j.plan \in Changing /\ ~U[j.user].active =>
           j.acct.email = U[j.user].email /\ (j.acct.active => j.kind \in {"verify", "link"})
    <2>1. j.plan \in Changing => Carrying(j)
      BY DEF Carrying
    <2>2. j.plan \in Changing /\ ~U[j.user].active => ~T[j.user].active /\ U[j.user].email = T[j.user].email
      BY <2>1, Zenon DEF Trusted, Grows
    <2>3. j.plan \in Changing /\ ~T[j.user].active =>
            j.acct.email = T[j.user].email /\ (j.acct.active => j.kind \in {"verify", "link"})
      BY Zenon DEF Trusted
    <2> QED BY <2>2, <2>3, Zenon
  <1> QED BY <1>1, <1>3, <1>6, <1>7, <1>8, <1>9, <1>10, Zenon DEF Trusted

\* A record known before; one without a code; the one a code was drawn for.
Known(x, z) ==
  \/ \E y \in Records : x.code = y.code /\ SameCode(x, y)
  \/ x.code = None /\ x.user \in DOMAIN told
  \/ x.code = fresh + 1 /\ SameCode(x, z) /\ x.user \in DOMAIN told

LEMMA OneRecordStays ==
  ASSUME RowsTyped, OneRecord, DOMAIN told \subseteq DOMAIN told', NEW z, \A x \in Records' : Known(x, z),
         \A m \in mail' \ mail : m.code # None /\ \E y \in Records : m.code = y.code /\ Announces(m, y)
  PROVE  OneRecord'
  <1>1. \A x \in Records : x.code # fresh + 1
    <2>1. \A r \in DOMAIN codes : codes[r].code \in 0..fresh
      BY DEF RowsTyped, CodesIn, Stored
    <2>2. ASSUME NEW w \in Worker, Carrying(jobs[w]) PROVE jobs[w].row.code \in 0..fresh
      <3>1. Holds(fresh, jobs[w])
        BY DEF RowsTyped
      <3>2. jobs[w].plan \in Sending \cup Saving \cup Revising \cup Loading \cup Changing
        BY <2>2 DEF Carrying
      <3>3. Carries(fresh, jobs[w])
        <4>1. jobs[w].plan \notin Drafting \cup Minting \cup Closing \cup {<<>>}
          BY <3>2 DEF Sending, Saving, Revising, Loading, Changing, Drafting, Linking, Coding, Minting, Closing
        <4> QED BY <3>1, <4>1 DEF Holds, Drafts
      <3>4. jobs[w].row \in Stored(fresh)
        BY <3>3, Zenon DEF Carries
      <3> QED BY <3>4 DEF Stored
    <2>3. fresh \in Nat
      BY DEF RowsTyped
    <2> QED BY <2>1, <2>2, <2>3 DEF Records
  <1>2. \A m \in mail : m.code # None /\ m.code # fresh + 1
    BY DEF RowsTyped, Mail, None
  <1>3. ASSUME NEW x \in Records', NEW y \in Records', x.code = y.code, x.code # None PROVE SameCode(x, y)
    <2>1. Known(x, z) /\ Known(y, z)
      OBVIOUS
    <2>2. \A u, v \in Records : u.code = v.code /\ u.code # None => SameCode(u, v)
      BY DEF OneRecord
    <2> QED BY <1>1, <1>3, <2>1, <2>2 DEF Known, SameCode
  <1>4. ASSUME NEW x \in Records', NEW m \in mail', m.code = x.code PROVE Announces(m, x)
    <2>1. \A u \in Records, n \in mail : n.code = u.code => Announces(n, u)
      BY DEF OneRecord
    <2>2. \A u, v \in Records : u.code = v.code /\ u.code # None => SameCode(u, v)
      BY DEF OneRecord
    <2>3. Known(x, z)
      OBVIOUS
    <2>4. m.code # None /\ m.code # fresh + 1
      BY <1>1, <1>2
    <2>5. PICK u \in Records : x.code = u.code /\ SameCode(x, u)
      BY <1>4, <2>3, <2>4 DEF Known
    <2>6. Announces(m, u)
      <3>1. CASE m \in mail
        BY <1>4, <2>1, <2>5, <3>1
      <3>2. CASE m \notin mail
        <4>1. PICK y \in Records : m.code = y.code /\ Announces(m, y)
          BY <3>2
        <4>2. SameCode(u, y)
          BY <1>4, <2>2, <2>4, <2>5, <4>1
        <4> QED BY <4>1, <4>2, Zenon DEF Announces, SameCode
      <3> QED BY <3>1, <3>2
    <2> QED BY <2>5, <2>6, Zenon DEF Announces, SameCode
  <1>5. ASSUME NEW x \in Records' PROVE x.user \in DOMAIN told'
    <2>1. \A u \in Records : u.user \in DOMAIN told
      BY DEF OneRecord
    <2>2. Known(x, z)
      OBVIOUS
    <2> QED BY <2>1, <2>2 DEF Known, SameCode
  <1> QED BY <1>3, <1>4, <1>5 DEF OneRecord

-----------------------------------------------------------------------------
\* A step under which requests stay trusted, records stay known, mails are of
\* records, and nobody unverified is touched.
LEMMA TracedFrame ==
  ASSUME Copies, RowsTyped, Traced, Grows(told, told'), mail \subseteq mail', posted \subseteq posted', NEW z,
         told' = told \/ \A u \in DOMAIN told' : Account(told'[u]),
         \A v \in Worker : \/ jobs'[v] = jobs[v]
                           \/ /\ Trusted(jobs'[v], told', mail', posted')
                              /\ Carrying(jobs'[v]) => Known(jobs'[v].row, z),
         \A r \in DOMAIN codes' : \/ r \in DOMAIN codes /\ codes'[r] = codes[r]
                                  \/ Known(codes'[r], z) /\ Proven(r, codes'[r], mail', posted'),
         \A m \in mail' \ mail : /\ Addressed(told', m.user, m.to)
                                 /\ m.code # None /\ \E y \in Records : m.code = y.code /\ Announces(m, y),
         \A u \in DOMAIN users' : \/ u \in DOMAIN users /\ users'[u] = users[u]
                                  \/ Untouched(told', u, users'[u])
  PROVE  Traced'
  <1>1. \A x \in Records : Known(x, z)
    BY DEF Known, SameCode
  <1>2. \A x \in Records' : Known(x, z)
    <2>1. ASSUME NEW r \in DOMAIN codes' PROVE Known(codes'[r], z)
      <3>1. CASE r \in DOMAIN codes /\ codes'[r] = codes[r]
        BY <1>1, <3>1 DEF Records
      <3> QED BY <3>1
    <2>2. ASSUME NEW v \in Worker, Carrying(jobs'[v]) PROVE Known(jobs'[v].row, z)
      <3>1. CASE jobs'[v] = jobs[v]
        BY <1>1, <2>2, <3>1 DEF Records
      <3> QED BY <2>2, <3>1
    <2> QED BY <2>1, <2>2 DEF Records
  <1>3. OneRecord'
    <2>1. DOMAIN told \subseteq DOMAIN told'
      BY DEF Grows
    <2> QED BY <1>2, <2>1, OneRecordStays DEF Traced
  <1>4. ASSUME NEW u \in DOMAIN users' PROVE Untouched(told', u, users'[u])
    <2>1. CASE u \in DOMAIN users /\ users'[u] = users[u]
      <3>1. u \in DOMAIN told
        BY <2>1 DEF Copies, ToldOK
      <3>2. Untouched(told, u, users[u])
        BY <2>1 DEF Traced
      <3> QED BY <2>1, <3>1, <3>2 DEF Untouched, Grows
    <2> QED BY <2>1
  <1>5. ASSUME NEW m \in mail' PROVE Addressed(told', m.user, m.to)
    <2>1. CASE m \in mail
      BY <2>1, AddressedStays DEF Traced
    <2> QED BY <2>1
  <1>6. ASSUME NEW r \in DOMAIN codes' PROVE Proven(r, codes'[r], mail', posted')
    <2>1. CASE r \in DOMAIN codes /\ codes'[r] = codes[r]
      BY <2>1, ProvenStays DEF Traced
    <2> QED BY <2>1
  <1>7. ASSUME NEW v \in Worker PROVE Trusted(jobs'[v], told', mail', posted')
    <2>1. CASE jobs'[v] = jobs[v]
      BY <2>1, TrustedStays DEF Traced
    <2> QED BY <2>1
  <1>8. \A u \in DOMAIN told' : Account(told'[u])
    BY DEF Traced
  <1> QED BY <1>3, <1>4, <1>5, <1>6, <1>7, <1>8 DEF Traced

LEMMA NoJobTrusted == ASSUME NEW T, NEW M, NEW P PROVE Trusted(NoJob, T, M, P) /\ ~Carrying(NoJob)
  <1>1. NoJob.plan = <<>> /\ NoJob.kind = "none"
    BY DEF NoJob
  <1>2. NoJob.plan \notin Sending \cup Saving \cup Revising \cup Loading \cup Changing
    BY <1>1 DEF Sending, Saving, Revising, Loading, Changing
  <1>3. ~Carrying(NoJob) /\ ~Trusting(NoJob)
    BY <1>2 DEF Carrying, Trusting
  <1>4. NoJob.kind \notin SignedIn /\ NoJob.kind # "register"
    BY <1>1 DEF SignedIn
  <1> QED BY <1>2, <1>3, <1>4, Zenon DEF Trusted

\* The same, when worker w is left with job k.
LEMMA TracedStep ==
  ASSUME IInv, Copies, RowsTyped, Traced, NEW w \in Worker, NEW k, jobs' = [jobs EXCEPT ![w] = k], NEW z,
         Trusted(k, told', mail', posted'), Carrying(k) => Known(k.row, z),
         Grows(told, told'), mail \subseteq mail', posted \subseteq posted',
         told' = told \/ \A u \in DOMAIN told' : Account(told'[u]),
         \A r \in DOMAIN codes' : \/ r \in DOMAIN codes /\ codes'[r] = codes[r]
                                  \/ Known(codes'[r], z) /\ Proven(r, codes'[r], mail', posted'),
         \A m \in mail' \ mail : /\ Addressed(told', m.user, m.to)
                                 /\ m.code # None /\ \E y \in Records : m.code = y.code /\ Announces(m, y),
         \A u \in DOMAIN users' : \/ u \in DOMAIN users /\ users'[u] = users[u]
                                  \/ Untouched(told', u, users'[u])
  PROVE  Traced'
  <1>1. \A v \in Worker : jobs'[v] = IF v = w THEN k ELSE jobs[v]
    BY DEF IInv, JobsOK
  <1>2. \A v \in Worker : \/ jobs'[v] = jobs[v]
                          \/ /\ Trusted(jobs'[v], told', mail', posted')
                             /\ Carrying(jobs'[v]) => Known(jobs'[v].row, z)
    BY <1>1
  <1> QED BY <1>2, TracedFrame

LEMMA GrowsNot == ASSUME NEW T PROVE Grows(T, T)
  BY DEF Grows

\* What is left of a request after a statement that changes nothing it relies on.
LEMMA TrustedNext ==
  ASSUME NEW j, NEW k, NEW T, NEW M, NEW P, Trusted(j, T, M, P),
         k.kind = j.kind, k.user = j.user, k.to = j.to, ~Trusting(k),
         Carrying(k) => Carrying(j) /\ k.rec = j.rec /\ SameCode(k.row, j.row) /\ k.row.done = j.row.done,
         k.plan \notin Unmade => j.plan \notin Unmade,
         j.plan \in Working =>
           k.plan \in Working
  PROVE  Trusted(k, T, M, P)
  <1>1. Carrying(k) => k.row.user = k.user /\ k.user \in DOMAIN T /\ Proven(k.rec, k.row, M, P)
    BY Zenon DEF Trusted, SameCode, Proven
  <1>4. k.kind = "register" /\ k.plan \notin Unmade => Addressed(T, k.user, k.to)
    BY Zenon DEF Trusted
  <1>5. k.kind \in SignedIn => T[k.user].active /\ k.plan \in Working
    <2>1. k.kind \in SignedIn => T[k.user].active /\ j.plan \in Working
      BY Zenon DEF Trusted
    <2> QED BY <2>1
  <1>6. k.plan \notin Changing
    BY DEF Trusting
  <1> QED BY <1>1, <1>4, <1>5, <1>6, Zenon DEF Trusted

\* A statement after which the next finds less to do, or as much.
LEMMA TrustedOn ==
  ASSUME NEW n, NEW j, NEW T, NEW M, NEW P, Trusted(j, T, M, P), IsJob(j), Holds(n, j), j.plan # <<>>,
         Head(j.plan) \in {"clear", "saveRow", "deliver", "saveUser", "mint", "record", "rotate", "blacklist", "close"}
  PROVE  /\ Trusted(Advance(j), T, M, P)
         /\ Carrying(Advance(j)) => Carrying(j) /\ Advance(j).row = j.row
  <1> DEFINE k == Advance(j)
  <1>1. CASE Len(j.plan) = 1
    BY <1>1, NoJobTrusted DEF Advance
  <1>2. CASE Len(j.plan) # 1
    <2>1. k.plan = Tail(j.plan) /\ k.kind = j.kind /\ k.user = j.user /\ k.rec = j.rec /\ k.row = j.row /\ k.to = j.to
      BY <1>2, Fieldwise
    <2> HIDE DEF k
    <2>2. j.plan \in {<<"clear", "create", "issue", "deliver">>,
                      <<"clear", "create", "issue", "saveRow", "deliver">>,
                      <<"saveRow", "deliver", "saveRow">>,
                      <<"deliver", "saveRow">>,
                      <<"saveRow", "deliver">>,
                      <<"saveRow", "renew", "issue", "saveRow", "deliver">>,
                      <<"saveRow", "revise", "saveRow", "deliver">>,
                      <<"saveUser", "saveRow">>,
                      <<"mint", "record">>,
                      <<"blacklist", "close">>}
      <3>1. CASE Drafts(j)
        <4>1. j.plan \in Drafting
          BY <3>1, Zenon DEF Drafts
        <4> QED BY <4>1 DEF Drafting, Linking, Coding
      <3>2. CASE Carries(n, j)
        <4>1. j.plan \in Sending \cup Saving \cup Revising \cup Loading \cup Changing
          BY <3>2, Zenon DEF Carries
        <4> QED BY <1>2, <4>1, Shorter DEF Sending, Saving, Revising, Loading, Changing
      <3>3. CASE j.plan \in Minting \cup Closing
        BY <1>2, <3>3, Shorter DEF Minting, Closing
      <3> QED BY <3>1, <3>2, <3>3, Zenon DEF Holds
    <2>3. /\ j.plan = <<"clear", "create", "issue", "deliver">> => k.plan = <<"create", "issue", "deliver">>
          /\ j.plan = <<"clear", "create", "issue", "saveRow", "deliver">> => k.plan = <<"create", "issue", "saveRow", "deliver">>
          /\ j.plan = <<"saveRow", "deliver", "saveRow">> => k.plan = <<"deliver", "saveRow">>
          /\ j.plan = <<"deliver", "saveRow">> => k.plan = <<"saveRow">>
          /\ j.plan = <<"saveRow", "deliver">> => k.plan = <<"deliver">>
          /\ j.plan = <<"saveRow", "renew", "issue", "saveRow", "deliver">> => k.plan = <<"renew", "issue", "saveRow", "deliver">>
          /\ j.plan = <<"saveRow", "revise", "saveRow", "deliver">> => k.plan = <<"revise", "saveRow", "deliver">>
          /\ j.plan = <<"saveUser", "saveRow">> => k.plan = <<"saveRow">>
          /\ j.plan = <<"mint", "record">> => k.plan = <<"record">>
          /\ j.plan = <<"blacklist", "close">> => k.plan = <<"close">>
      BY <2>1, Shorter
    <2>4. /\ k.plan \notin Loading \cup Changing
          /\ Carrying(k) => Carrying(j)
          /\ k.plan \notin Unmade => j.plan \notin Unmade
          /\ j.plan \in Working => k.plan \in Working
      <3> USE DEF Carrying, Working, Sending, Saving, Revising, Loading, Changing, Unmade
      <3>1. CASE j.plan = <<"clear", "create", "issue", "deliver">>
        <4>1. k.plan = <<"create", "issue", "deliver">>
          BY <2>3, <3>1
        <4> QED BY <3>1, <4>1
      <3>2. CASE j.plan = <<"clear", "create", "issue", "saveRow", "deliver">>
        <4>1. k.plan = <<"create", "issue", "saveRow", "deliver">>
          BY <2>3, <3>2
        <4> QED BY <3>2, <4>1
      <3>3. CASE j.plan = <<"saveRow", "deliver", "saveRow">>
        BY <2>3, <3>3
      <3>4. CASE j.plan = <<"deliver", "saveRow">>
        BY <2>3, <3>4
      <3>5. CASE j.plan = <<"saveRow", "deliver">>
        BY <2>3, <3>5
      <3>6. CASE j.plan = <<"saveRow", "renew", "issue", "saveRow", "deliver">>
        BY <2>3, <3>6
      <3>7. CASE j.plan = <<"saveRow", "revise", "saveRow", "deliver">>
        BY <2>3, <3>7
      <3>8. CASE j.plan = <<"saveUser", "saveRow">>
        BY <2>3, <3>8
      <3>9. CASE j.plan = <<"mint", "record">>
        BY <2>3, <3>9
      <3>10. CASE j.plan = <<"blacklist", "close">>
        BY <2>3, <3>10
      <3> QED BY <2>2, <3>1, <3>2, <3>3, <3>4, <3>5, <3>6, <3>7, <3>8, <3>9, <3>10
    <2>5. ~Trusting(k) /\ (Carrying(k) => Carrying(j))
      BY <2>4 DEF Trusting
    <2>6. SameCode(k.row, j.row)
      BY <2>1 DEF SameCode
    <2>7. Trusted(k, T, M, P)
      BY <2>1, <2>4, <2>5, <2>6, TrustedNext
    <2> QED BY <2>1, <2>5, <2>7 DEF k
  <1> QED BY <1>1, <1>2

\* The request of worker w goes on with what it holds, or stops.
LEMMA GoesOnTraced ==
  ASSUME IInv, Copies, RowsTyped, Traced, NEW w \in Worker,
         NEW step \in {"clear", "saveRow", "deliver", "saveUser", "mint", "record", "rotate", "blacklist", "close"},
         On(w, step), Proceed(w, jobs[w]) \/ Stop(w), NEW z,
         Grows(told, told'), mail \subseteq mail', posted \subseteq posted',
         told' = told \/ \A u \in DOMAIN told' : Account(told'[u]),
         \A r \in DOMAIN codes' : \/ r \in DOMAIN codes /\ codes'[r] = codes[r]
                                  \/ Known(codes'[r], z) /\ Proven(r, codes'[r], mail', posted'),
         \A m \in mail' \ mail : /\ Addressed(told', m.user, m.to)
                                 /\ m.code # None /\ \E y \in Records : m.code = y.code /\ Announces(m, y),
         \A u \in DOMAIN users' : \/ u \in DOMAIN users /\ users'[u] = users[u]
                                  \/ Untouched(told', u, users'[u])
  PROVE  Traced'
  <1> DEFINE j == jobs[w]
             k == Advance(j)
  <1>1. IsJob(j) /\ Holds(fresh, j) /\ j.plan # <<>> /\ Head(j.plan) = step
    BY DEF IInv, JobsOK, JobOK, RowsTyped, On
  <1>2. Trusted(j, told', mail', posted')
    BY TrustedStays DEF Traced
  <1>3. Trusted(k, told', mail', posted') /\ (Carrying(k) => Carrying(j) /\ k.row = j.row)
    BY <1>1, <1>2, TrustedOn
  <1>4. Carrying(j) => j.row \in Records
    BY DEF Records
  <1>5. Carrying(k) => Known(k.row, z)
    BY <1>3, <1>4 DEF Known, SameCode
  <1> HIDE DEF k
  <1>6. CASE jobs' = [jobs EXCEPT ![w] = k]
    BY <1>3, <1>5, <1>6, TracedStep
  <1>7. CASE jobs' = [jobs EXCEPT ![w] = NoJob]
    <2>1. Trusted(NoJob, told', mail', posted') /\ ~Carrying(NoJob)
      BY NoJobTrusted
    <2> QED BY <1>7, <2>1, TracedStep
  <1> QED BY <1>6, <1>7 DEF Proceed, Stop, k

\* A request ends, or goes on, and rows at most go.
LEMMA CalmTraced ==
  ASSUME IInv, Copies, RowsTyped, Traced, NEW w \in Worker,
         NEW step \in {"clear", "saveRow", "deliver", "saveUser", "mint", "record", "rotate", "blacklist", "close"},
         Stop(w) \/ (On(w, step) /\ Proceed(w, jobs[w])),
         UNCHANGED <<told, mail, posted>>,
         \A r \in DOMAIN codes' : r \in DOMAIN codes /\ codes'[r] = codes[r],
         \A u \in DOMAIN users' : u \in DOMAIN users /\ users'[u] = users[u]
  PROVE  Traced'
  <1>1. Grows(told, told')
    BY GrowsNot
  <1>2. CASE Stop(w)
    <2>1. Trusted(NoJob, told', mail', posted') /\ ~Carrying(NoJob)
      BY NoJobTrusted
    <2> QED BY <1>1, <1>2, <2>1, TracedStep DEF Stop
  <1>3. CASE On(w, step) /\ Proceed(w, jobs[w])
    BY <1>1, <1>3, GoesOnTraced
  <1> QED BY <1>2, <1>3

LEMMA DeletionShrinks ==
  ASSUME NEW u, DeleteUser(u)
  PROVE  /\ \A r \in DOMAIN codes' : r \in DOMAIN codes /\ codes'[r] = codes[r]
         /\ \A v \in DOMAIN users' : v \in DOMAIN users /\ users'[v] = users[v]
  BY DEF DeleteUser

LEMMA ClearTraced ==
  ASSUME IInv, Copies, RowsTyped, Traced, NEW w \in Worker, Clear(w)
  PROVE  Traced'
  <1>1. On(w, "clear") /\ DeleteUser(jobs[w].user) /\ Proceed(w, jobs[w]) /\ UNCHANGED <<told, mail, posted>>
    BY DEF Clear, ghosts
  <1> QED BY <1>1, DeletionShrinks, CalmTraced

LEMMA AbandonTraced ==
  ASSUME IInv, Copies, RowsTyped, Traced, NEW w \in Worker, Abandon(w)
  PROVE  Traced'
  <1>1. Stop(w) /\ UNCHANGED <<users, codes, told, mail, posted>>
    BY DEF Abandon, ghosts
  <1> QED BY <1>1, CalmTraced

LEMMA SaveRowTraced ==
  ASSUME IInv, Copies, RowsTyped, Traced, NEW w \in Worker, SaveRow(w)
  PROVE  Traced'
  <1> DEFINE j == jobs[w]
  <1>1. On(w, "saveRow") /\ UNCHANGED <<users, told, mail, posted>>
    BY DEF SaveRow
  <1>2. \/ Stop(w) /\ codes' = codes
        \/ codes' = Put(codes, j.rec, j.row) /\ Proceed(w, j)
    BY DEF SaveRow
  <1>3. CASE Stop(w) /\ codes' = codes
    BY <1>1, <1>3, CalmTraced
  <1>4. CASE codes' = Put(codes, j.rec, j.row) /\ Proceed(w, j)
    <2>1. Carries(fresh, j)
      BY <1>1, ByHead DEF RowsTyped, On
    <2>2. Carrying(j)
      BY <2>1, Zenon DEF Carries, Carrying
    <2>3. Known(j.row, j.row) /\ Proven(j.rec, j.row, mail', posted')
      <3>1. j.row \in Records
        BY <2>2 DEF Records
      <3>2. Proven(j.rec, j.row, mail, posted)
        BY <2>2, Zenon DEF Traced, Trusted
      <3> QED BY <1>1, <3>1, <3>2 DEF Known, SameCode
    <2>4. \A r \in DOMAIN codes' : \/ r \in DOMAIN codes /\ codes'[r] = codes[r]
                                   \/ Known(codes'[r], j.row) /\ Proven(r, codes'[r], mail', posted')
      BY <1>4, <2>3 DEF Put
    <2>5. Grows(told, told')
      BY <1>1, GrowsNot
    <2> HIDE DEF j
    <2> QED BY <1>1, <1>4, <2>4, <2>5, GoesOnTraced DEF j
  <1> QED BY <1>2, <1>3, <1>4

\* Who is told that he is verified is told no less later; a row that is saved
\* for an unverified user is as he registered, or verifies him.
LEMMA SaveUserTraced ==
  ASSUME IInv, Copies, RowsTyped, Traced, NEW w \in Worker, SaveUser(w)
  PROVE  Traced'
  <1> DEFINE j == jobs[w]
             u == j.user
             acct == j.acct
             new == Change(j, told[u])
  <1>1. On(w, "saveUser") /\ UNCHANGED <<codes, mail, posted>>
    BY DEF SaveUser
  <1>2. \/ Stop(w) /\ UNCHANGED <<users, told>>
        \/ users' = Put(users, u, acct) /\ told' = [told EXCEPT ![u] = new] /\ Proceed(w, j)
    BY Zenon DEF SaveUser, Change
  <1>3. CASE Stop(w) /\ UNCHANGED <<users, told>>
    BY <1>1, <1>3, CalmTraced
  <1>4. CASE users' = Put(users, u, acct) /\ told' = [told EXCEPT ![u] = new] /\ Proceed(w, j)
    <2>1. j.plan \in Changing
      BY <1>1, ByHead DEF RowsTyped, On
    <2>2. j.kind \in Savers /\ u \in DOMAIN told
      <3>1. j.plan \notin Seq(Harmless) /\ j.plan \notin Loading
        <4>1. \A p \in Changing : Head(p) = "saveUser" /\ p # <<>>
          BY DEF Changing
        <4>2. \A p \in Seq(Harmless) : p # <<>> => Head(p) # "saveUser"
          BY DEF Harmless
        <4>3. j.plan \notin Loading
          BY <2>1, PlansTyped
        <4> QED BY <2>1, <4>1, <4>2, <4>3
      <3>2. CopyOK(j, told, clash)
        BY DEF Copies
      <3> QED BY <3>1, <3>2 DEF CopyOK, Loading
    <2>3. Account(told[u])
      BY <2>2 DEF Traced
    <2>4. Trusted(j, told, mail, posted)
      BY DEF Traced
    <2> DEFINE old == told[u]
    <2>14. new = Change(j, old) /\ Account(old)
      BY <2>3
    <2> HIDE DEF old, new
    <2>15. /\ j.kind \in {"verify", "link"} => new = [old EXCEPT !.active = TRUE]
           /\ j.kind \in {"setForget", "changePassword"} => new = [old EXCEPT !.pw = j.pw]
           /\ j.kind = "verifyEmail" => new = [old EXCEPT !.email = j.row.to]
      BY <2>14 DEF Change
    <2>16. j.kind \in {"verify", "link"} \/ j.kind \in {"setForget", "changePassword"} \/ j.kind = "verifyEmail"
      BY <2>2 DEF Savers, Loaders
    <2>17. /\ j.kind \in {"verify", "link"} => new.active = TRUE
           /\ j.kind \in {"setForget", "changePassword"} => new.active = old.active /\ new.email = old.email
           /\ j.kind = "verifyEmail" => new.active = old.active
      BY <2>14, <2>15 DEF Account
    <2>5. told[u].active => new.active
      BY <2>16, <2>17 DEF old
    <2>6. ~new.active => new.email = told[u].email
      <3>1. j.kind = "verifyEmail" => told[u].active
        BY <2>4, Zenon DEF Trusted, SignedIn
      <3> QED BY <2>5, <2>16, <2>17, <3>1 DEF old
    <2>7. Account(new)
      BY <2>14, <2>15, <2>16 DEF Account
    <2>8. ~new.active => ~acct.active /\ acct.email = new.email
      <3>1. ASSUME ~new.active PROVE j.kind \notin {"verify", "link"}
        BY <2>17, <3>1
      <3>2. ~told[u].active => acct.email = told[u].email /\ (acct.active => j.kind \in {"verify", "link"})
        BY <2>1, <2>4, Zenon DEF Trusted
      <3> QED BY <2>5, <2>6, <3>1, <3>2
    <2> HIDE DEF acct
    <2>9. DOMAIN told' = DOMAIN told /\ told'[u] = new /\ \A v \in DOMAIN told : v # u => told'[v] = told[v]
      BY <1>4, <2>2 DEF Copies, ToldOK, new
    <2>10. Grows(told, told')
      BY <2>5, <2>6, <2>9 DEF Grows
    <2>11. \A v \in DOMAIN told' : Account(told'[v])
      BY <2>7, <2>9 DEF Traced
    <2>12. Untouched(told', u, acct)
      BY <2>8, <2>9 DEF Untouched
    <2>13. \A v \in DOMAIN users' : \/ v \in DOMAIN users /\ users'[v] = users[v]
                                    \/ Untouched(told', v, users'[v])
      BY <1>4, <2>12 DEF Put
    <2> HIDE DEF u, j
    <2> QED BY <1>1, <1>4, <2>10, <2>11, <2>13, GoesOnTraced DEF j
  <1> QED BY <1>2, <1>3, <1>4

\* A request that carries no record relies on little.
LEMMA TrustedIdle ==
  ASSUME NEW k, NEW T, NEW M, NEW P, ~Carrying(k), k.kind \notin SignedIn,
         k.kind = "register" /\ k.plan \notin Unmade => Addressed(T, k.user, k.to)
  PROVE  Trusted(k, T, M, P)
  <1>1. k.plan \notin Sending /\ k.plan \notin Changing /\ ~Trusting(k)
    BY DEF Carrying, Trusting
  <1> QED BY <1>1, Zenon DEF Trusted

\* No signed-in caller's request drafts a row or ends with one more to issue.
LEMMA NotSignedIn ==
  ASSUME NEW j, NEW T, NEW M, NEW P, Trusted(j, T, M, P),
         j.plan \in {<<"create", "issue", "deliver">>, <<"create", "issue", "saveRow", "deliver">>, <<"issue", "deliver">>,
                    <<"issue", "saveRow", "deliver">>, <<"issue">>, <<"renew", "issue", "saveRow", "deliver">>}
  PROVE  j.kind \notin SignedIn
  <1>1. j.plan \notin Working
    BY DEF Working, Sending, Revising, Loading, Changing
  <1> QED BY <1>1, Zenon DEF Trusted

LEMMA CreateTraced ==
  ASSUME IInv, Copies, RowsTyped, Traced, NEW w \in Worker, Create(w)
  PROVE  Traced'
  <1> DEFINE j == jobs[w]
             n == fresh + 1
             acct == [email |-> j.to, active |-> FALSE, pw |-> j.pw]
             job == [j EXCEPT !.user = n]
             k == Advance(job)
  <1>1. On(w, "create") /\ UNCHANGED <<codes, mail, posted>>
        /\ \/ Stop(w) /\ UNCHANGED <<users, told>>
           \/ users' = Put(users, n, acct) /\ told' = Put(told, n, acct) /\ Proceed(w, job)
    BY DEF Create
  <1>2. CASE Stop(w) /\ UNCHANGED <<users, told>>
    BY <1>1, <1>2, CalmTraced
  <1>3. CASE users' = Put(users, n, acct) /\ told' = Put(told, n, acct) /\ Proceed(w, job)
    <2>1. n \notin DOMAIN told
      BY DEF Copies, ToldOK, RowsTyped
    <2>2. IsJob(j) /\ Drafts(j) /\ Head(j.plan) = "create"
      BY <1>1, ByHead DEF IInv, JobsOK, JobOK, RowsTyped, On
    <2>3. j.plan = <<"create", "issue", "deliver">> \/ j.plan = <<"create", "issue", "saveRow", "deliver">>
      <3>1. j.plan \in Drafting
        BY <2>2, Zenon DEF Drafts
      <3> QED BY <2>2, <3>1 DEF Drafting, Linking, Coding
    <2>4. IsJob(job) /\ job.plan = j.plan /\ job.to = j.to /\ job.user = n /\ job.kind = j.kind
      BY <2>2 DEF IsJob, Fields
    <2>5. acct.email = j.to /\ acct.active = FALSE /\ Account(acct)
      BY DEF Account
    <2> HIDE DEF job, acct, n
    <2>6. Len(job.plan) # 1 /\ Tail(job.plan) \in {<<"issue", "deliver">>, <<"issue", "saveRow", "deliver">>}
      BY <2>3, <2>4, Shorter
    <2>7. k.plan \in {<<"issue", "deliver">>, <<"issue", "saveRow", "deliver">>} /\ k.kind = j.kind /\ k.user = n /\ k.to = j.to
      BY <2>4, <2>6, Fieldwise
    <2> HIDE DEF k
    <2>8. ~Carrying(k)
      BY <2>7 DEF Carrying, Sending, Saving, Revising, Loading, Changing
    <2>9. told'[n] = acct /\ DOMAIN told' = DOMAIN told \cup {n} /\ \A u \in DOMAIN told : told'[u] = told[u]
      BY <1>3, <2>1 DEF Put
    <2>10. Addressed(told', k.user, k.to)
      BY <2>5, <2>7, <2>9 DEF Addressed
    <2>11. k.kind \notin SignedIn
      BY <2>3, <2>7, NotSignedIn DEF Traced
    <2>12. Trusted(k, told', mail', posted')
      BY <2>8, <2>10, <2>11, TrustedIdle
    <2>13. Grows(told, told')
      BY <2>9 DEF Grows
    <2>14. \A u \in DOMAIN told' : Account(told'[u])
      BY <2>5, <2>9 DEF Traced
    <2>15. \A u \in DOMAIN users' : \/ u \in DOMAIN users /\ users'[u] = users[u]
                                    \/ Untouched(told', u, users'[u])
      BY <1>3, <2>5, <2>9 DEF Put, Untouched
    <2>16. jobs' = [jobs EXCEPT ![w] = k]
      BY <1>3 DEF Proceed, k
    <2> QED BY <1>1, <2>8, <2>12, <2>13, <2>14, <2>15, <2>16, TracedStep
  <1> QED BY <1>1, <1>2, <1>3

LEMMA FilledRow ==
  \A kind, u, c :
    /\ Filled(NewRow(kind), u, c).user = u /\ Filled(NewRow(kind), u, c).code = c
    /\ Filled(NewRow(kind), u, c).kind = kind /\ Filled(NewRow(kind), u, c).done = FALSE
  BY DEF Filled, NewRow

LEMMA DrawnRow ==
  \A row, c : /\ NewCode(row, c).user = row.user /\ NewCode(row, c).kind = row.kind /\ NewCode(row, c).done = row.done
  BY DEF NewCode

\* A code that was never drawn, or none, in a record of a user who exists.
LEMMA IssueTraced ==
  ASSUME IInv, Copies, RowsTyped, Traced, NEW w \in Worker, Issue(w)
  PROVE  Traced'
  <1> DEFINE j == jobs[w]
             n == fresh'
             code == IF j.row.kind = "link" THEN n ELSE None
             row == [j.row EXCEPT !.user = j.user, !.code = code]
             drawn == IF row.kind \in OtpKinds THEN NewCode(row, n) ELSE row
             job == [j EXCEPT !.rec = n, !.row = drawn]
             k == Advance(job)
  <1>1. On(w, "issue") /\ n = fresh + 1 /\ UNCHANGED <<users, mail, told, posted>>
    BY DEF Issue, ghosts
  <1>2. \/ Has(j.user) /\ codes' = Put(codes, n, row) /\ Proceed(w, job)
        \/ Stop(w) /\ codes' = codes
    BY Zenon DEF Issue
  <1>3. CASE Stop(w) /\ codes' = codes
    BY <1>1, <1>3, CalmTraced
  <1>4. CASE Has(j.user) /\ codes' = Put(codes, n, row) /\ Proceed(w, job)
    <2>1. IsJob(j) /\ Drafts(j) /\ Holds(fresh, j)
          /\ j.plan \in {<<"issue", "deliver">>, <<"issue", "saveRow", "deliver">>, <<"issue">>}
      BY <1>1, ByHead DEF IInv, JobsOK, JobOK, RowsTyped, On
    <2>2. PICK kind \in Kinds : /\ j.row = NewRow(kind)
                                /\ j.plan \in Linking => kind = "link"
                                /\ j.plan \in Coding => kind \in OtpKinds
      BY <2>1, Zenon DEF Drafts
    <2>3. row = Filled(NewRow(kind), j.user, code)
      BY <2>2 DEF Filled
    <2>4. code = n \/ code = None
      OBVIOUS
    <2>14. j.row.kind = kind
      BY <2>2 DEF NewRow
    <2>15. /\ j.plan = <<"issue", "deliver">> => kind = "link" /\ code = n
           /\ j.plan = <<"issue", "saveRow", "deliver">> => kind \in OtpKinds
      BY <2>2, <2>14 DEF Linking, Coding
    <2> HIDE DEF code
    <2> HIDE DEF row
    <2>5. row.user = j.user /\ row.code = code /\ row.kind = kind /\ row.done = FALSE
      BY <2>3, FilledRow
    <2>6. j.user \in DOMAIN told
      BY <1>4 DEF Has, Copies, ToldOK
    <2>7. Known(row, row) /\ Proven(n, row, mail', posted')
      BY <1>1, <2>4, <2>5, <2>6 DEF Known, SameCode, Proven
    <2>16. row \in Stored(n)
      <3>1. n \in 0..n /\ None \in 0..n /\ j.user \in 1..n
        BY <1>1, <1>4 DEF RowsTyped, None, Has, UsersIn
      <3> QED BY <2>2, <2>3, <2>4, <3>1, Drafted, Zenon
    <2>17. drawn.user = j.user /\ drawn.kind = kind /\ drawn.done = FALSE
           /\ drawn.code = IF kind \in OtpKinds THEN n ELSE code
      BY <1>1, <2>5, <2>16, DrawnRow, Coded DEF RowsTyped
    <2> HIDE DEF drawn
    <2>18. Known(drawn, row) /\ Proven(n, drawn, mail', posted')
      BY <1>1, <2>4, <2>5, <2>6, <2>17 DEF Known, SameCode, Proven
    <2>8. IsJob(job) /\ job.plan = j.plan /\ job.to = j.to /\ job.user = j.user /\ job.kind = j.kind
          /\ job.rec = n /\ job.row = drawn
      BY <2>1 DEF IsJob, Fields
    <2> HIDE DEF job
    <2>9. Trusted(k, told', mail', posted') /\ (Carrying(k) => Known(k.row, row))
      <3>1. CASE j.plan = <<"issue">>
        BY <2>8, <3>1, NoJobTrusted DEF Advance
      <3>2. CASE j.plan \in {<<"issue", "deliver">>, <<"issue", "saveRow", "deliver">>}
        <4>1. Len(j.plan) # 1 /\ Tail(j.plan) \in {<<"deliver">>, <<"saveRow", "deliver">>}
          BY <3>2, Shorter
        <4>2. /\ k.plan \in {<<"deliver">>, <<"saveRow", "deliver">>}
              /\ k.to = j.to /\ k.user = j.user /\ k.rec = n /\ k.row = drawn /\ k.kind = j.kind
          <5>1. IsJob(job) /\ Len(job.plan) # 1
            BY <2>8, <4>1
          <5>2. /\ k.plan = Tail(job.plan) /\ k.kind = job.kind /\ k.user = job.user /\ k.rec = job.rec
                /\ k.row = job.row /\ k.to = job.to
            BY <5>1, Fieldwise
          <5> QED BY <2>8, <4>1, <5>2
        <4> HIDE DEF k
        <4>3. k.plan \notin Changing /\ ~Trusting(k)
          BY <4>2 DEF Loading, Changing, Trusting
        <4>5. j.plan \notin Unmade
          BY <3>2 DEF Unmade
        <4>6. k.kind = "register" => Addressed(told', k.user, k.to)
          <5>1. Trusted(j, told, mail, posted)
            BY DEF Traced
          <5>2. j.kind = "register" => Addressed(told, j.user, j.to)
            BY <4>5, <5>1, Zenon DEF Trusted
          <5> QED BY <1>1, <4>2, <5>2
        <4>7. k.kind \notin SignedIn
          BY <3>2, <4>2, NotSignedIn DEF Traced
        <4>8. k.row.user = k.user /\ k.user \in DOMAIN told' /\ Proven(k.rec, k.row, mail', posted')
          BY <1>1, <2>17, <2>6, <2>18, <4>2
        <4>9. Trusted(k, told', mail', posted')
          BY <4>3, <4>6, <4>7, <4>8, Zenon DEF Trusted
        <4> QED BY <2>18, <4>2, <4>9 DEF k
      <3> QED BY <2>1, <3>1, <3>2
    <2> HIDE DEF k
    <2>10. jobs' = [jobs EXCEPT ![w] = k]
      BY <1>4 DEF Proceed, k
    <2>11. \A r \in DOMAIN codes' : \/ r \in DOMAIN codes /\ codes'[r] = codes[r]
                                    \/ Known(codes'[r], row) /\ Proven(r, codes'[r], mail', posted')
      BY <1>4, <2>7 DEF Put
    <2>12. Grows(told, told')
      BY <1>1, GrowsNot
    <2> QED BY <1>1, <2>9, <2>10, <2>11, <2>12, TracedStep
  <1> QED BY <1>2, <1>3, <1>4

LEMMA RenewTraced ==
  ASSUME IInv, Copies, RowsTyped, Traced, NEW w \in Worker, Renew(w)
  PROVE  Traced'
  <1> DEFINE j == jobs[w]
             row == NewRow("forget")
             job == [j EXCEPT !.rec = None, !.row = row]
             k == Advance(job)
  <1>1. On(w, "renew") /\ Proceed(w, job) /\ UNCHANGED <<users, codes, mail, told, posted>>
    BY DEF Renew, ghosts
  <1>2. IsJob(j) /\ j.plan = <<"renew", "issue", "saveRow", "deliver">>
    BY <1>1, ByHead DEF IInv, JobsOK, JobOK, RowsTyped, On
  <1> HIDE DEF row
  <1>3. IsJob(job) /\ job.plan = j.plan /\ job.to = j.to /\ job.user = j.user /\ job.kind = j.kind
    BY <1>2 DEF IsJob, Fields
  <1> HIDE DEF job
  <1>4. Len(job.plan) # 1 /\ Tail(job.plan) = <<"issue", "saveRow", "deliver">>
    BY <1>2, <1>3, Shorter
  <1>5. k.plan = <<"issue", "saveRow", "deliver">> /\ k.kind = j.kind /\ k.user = j.user /\ k.to = j.to
    BY <1>3, <1>4, Fieldwise
  <1>6. jobs' = [jobs EXCEPT ![w] = k]
    BY <1>1 DEF Proceed
  <1> HIDE DEF k
  <1>7. ~Carrying(k)
    BY <1>5 DEF Carrying, Sending, Saving, Revising, Loading, Changing
  <1>8. k.kind \notin SignedIn
    BY <1>2, <1>5, NotSignedIn DEF Traced
  <1>9. k.kind = "register" => Addressed(told', k.user, k.to)
    <2>1. Trusted(j, told, mail, posted)
      BY DEF Traced
    <2>2. j.plan \notin Unmade
      BY <1>2 DEF Unmade
    <2>3. j.kind = "register" => Addressed(told, j.user, j.to)
      BY <2>1, <2>2, Zenon DEF Trusted
    <2> QED BY <1>1, <1>5, <2>3
  <1>10. Trusted(k, told', mail', posted')
    BY <1>7, <1>8, <1>9, TrustedIdle
  <1>11. Grows(told, told')
    BY <1>1, GrowsNot
  <1> QED BY <1>1, <1>6, <1>7, <1>10, <1>11, TracedStep

\* The copy of a user never verified is as he registered, or verifies him.
LEMMA LoadUserTraced ==
  ASSUME IInv, Copies, RowsTyped, Traced, NEW w \in Worker, LoadUser(w)
  PROVE  Traced'
  <1> DEFINE j == jobs[w]
             to == users[j.user].email
             old == users[j.user]
             acct == CASE j.kind \in {"verify", "link"} -> [old EXCEPT !.active = TRUE]
                       [] j.kind = "setForget"          -> [old EXCEPT !.pw = j.pw]
                       [] j.kind = "verifyEmail"        -> [old EXCEPT !.email = j.row.to]
             job == [j EXCEPT !.to = to, !.acct = acct]
             k == Advance(job)
  <1>1. On(w, "loadUser") /\ UNCHANGED <<users, codes, mail, told, posted>>
    BY DEF LoadUser, ghosts
  <1>2. Stop(w) \/ (Has(j.user) /\ Proceed(w, job))
    BY Zenon DEF LoadUser
  <1>3. CASE Stop(w)
    BY <1>1, <1>3, CalmTraced
  <1>4. CASE Has(j.user) /\ Proceed(w, job)
    <2>1. IsJob(j) /\ Carries(fresh, j) /\ j.plan \in Loading
      BY <1>1, ByHead DEF IInv, JobsOK, JobOK, RowsTyped, On
    <2>2. j.kind \in Loaders
      BY <2>1, Zenon DEF Carries
    <2>3. old \in AcctType
      BY <1>4 DEF Has, RowsTyped, UsersIn
    <2>4. ~told[j.user].active => ~old.active /\ old.email = told[j.user].email
      BY <1>4 DEF Has, Traced, Untouched
    <2> HIDE DEF old, to
    <2>5. /\ j.kind \in {"verify", "link"} => acct.email = old.email
          /\ j.kind = "setForget" => acct.email = old.email /\ acct.active = old.active
      BY <2>3 DEF AcctType
    <2> HIDE DEF acct
    <2>6. /\ IsJob(job) /\ job.plan = j.plan /\ job.kind = j.kind /\ job.user = j.user /\ job.rec = j.rec
          /\ job.row = j.row /\ job.acct = acct /\ job.code = j.code
      BY <2>1 DEF IsJob, Fields
    <2> HIDE DEF job
    <2>7. Len(j.plan) # 1 /\ Tail(j.plan) \in {<<"saveUser", "saveRow">>, <<"saveUser">>}
      <3>1. CASE j.plan = <<"loadUser", "saveUser">>
        BY <3>1
      <3>2. CASE j.plan = <<"loadUser", "saveUser", "saveRow">>
        BY <3>2
      <3> QED BY <2>1, <3>1, <3>2 DEF Loading
    <2>8. /\ k.plan = Tail(j.plan) /\ k.kind = j.kind /\ k.user = j.user /\ k.rec = j.rec
          /\ k.row = j.row /\ k.acct = acct /\ k.code = j.code
      <3>1. Len(job.plan) # 1
        BY <2>6, <2>7
      <3>2. /\ k.plan = Tail(job.plan) /\ k.kind = job.kind /\ k.user = job.user /\ k.rec = job.rec
            /\ k.row = job.row /\ k.acct = job.acct /\ k.code = job.code
        BY <2>6, <3>1, Fieldwise
      <3> QED BY <2>6, <3>2
    <2>9. k.plan \in Changing
      BY <2>7, <2>8 DEF Changing
    <2>10. jobs' = [jobs EXCEPT ![w] = k]
      BY <1>4 DEF Proceed
    <2> HIDE DEF k
    <2>11. Carrying(j) /\ Trusting(j)
      BY <2>1 DEF Carrying, Trusting
    <2>12. Trusted(j, told, mail, posted)
      BY DEF Traced
    <2>13. Known(k.row, k.row)
      BY <2>8, <2>11 DEF Known, SameCode, Records
    <2>14. ~told[k.user].active => k.acct.email = told[k.user].email /\ (k.acct.active => k.kind \in {"verify", "link"})
      <3>1. j.kind = "verifyEmail" => told[j.user].active
        BY <2>12, Zenon DEF Trusted, SignedIn
      <3> QED BY <2>2, <2>4, <2>5, <2>8, <3>1 DEF Loaders
    <2>15. Trusted(k, told, mail, posted)
      <3>1. k.row.user = k.user /\ k.user \in DOMAIN told /\ Proven(k.rec, k.row, mail, posted)
        BY <2>8, <2>11, <2>12, Zenon DEF Trusted
      <3>2. k.kind # "register"
        BY <2>2, <2>8 DEF Loaders
      <3>3. k.kind \in SignedIn => told[k.user].active
        BY <2>8, <2>12, Zenon DEF Trusted
      <3>4. k.kind \in ByCode => k.row.code = k.code /\ \E m \in mail : m.code = k.code
        BY <2>8, <2>11, <2>12, Zenon DEF Trusted
      <3>5. k.kind = "verifyEmail" => k.row.kind = "email"
        BY <2>8, <2>11, <2>12, Zenon DEF Trusted
      <3>6. k.kind = "setForget" => Answered(k.rec, k.user, mail, posted)
        BY <2>8, <2>11, <2>12, Zenon DEF Trusted
      <3>7. k.plan \in Working
        BY <2>9 DEF Working
      <3> QED BY <2>9, <2>14, <3>1, <3>2, <3>3, <3>4, <3>5, <3>6, <3>7, Zenon DEF Trusted
    <2>16. Grows(told, told')
      BY <1>1, GrowsNot
    <2>17. Trusted(k, told', mail', posted')
      BY <1>1, <2>15
    <2> QED BY <1>1, <2>10, <2>13, <2>16, <2>17, TracedStep
  <1> QED BY <1>2, <1>3, <1>4

\* What is mailed is of the record carried, and goes where its user or his
\* request says; for one never verified that is the address he registered.
LEMMA DeliverTraced ==
  ASSUME IInv, Copies, RowsTyped, Traced, NEW w \in Worker, Deliver(w)
  PROVE  Traced'
  <1> DEFINE j == jobs[w]
             row == [j.row EXCEPT !.resend = @ + 1]
             more == [j EXCEPT !.row = row]
             m == [to |-> Recipient(j), code |-> j.row.code, user |-> j.user,
                   kind |-> j.row.kind, again |-> j.kind = "resendEmail"]
  <1>1. On(w, "deliver") /\ UNCHANGED <<told, posted>>
    BY DEF Deliver, ghosts
  <1>2. \/ /\ Proceed(w, j) \/ Proceed(w, more)
           /\ UNCHANGED <<users, codes>>
           /\ \/ mail' = mail
              \/ (j.kind \notin {"register", "postEmail"} => Has(j.user)) /\ mail' = mail \cup {m}
        \/ Stop(w) /\ mail' = mail /\ (UNCHANGED <<users, codes>> \/ DeleteUser(j.user))
    BY DEF Deliver
  <1>3. CASE Stop(w) /\ mail' = mail /\ (UNCHANGED <<users, codes>> \/ DeleteUser(j.user))
    <2>1. CASE UNCHANGED <<users, codes>>
      BY <1>1, <1>3, <2>1, CalmTraced
    <2>2. CASE DeleteUser(j.user)
      BY <1>1, <1>3, <2>2, DeletionShrinks, CalmTraced
    <2> QED BY <1>3, <2>1, <2>2
  <1>4. IsJob(j) /\ Carries(fresh, j) /\ j.plan \in Sending /\ j.plan # <<>> /\ Head(j.plan) = "deliver"
    BY <1>1, ByHead DEF IInv, JobsOK, JobOK, RowsTyped, On
  <1>5. j.row.code # None /\ j.row \in Stored(fresh) /\ j.user \in 1..fresh /\ j.rec \in 1..fresh /\ j.to \in Addr
    BY <1>4, Zenon DEF Carries, RowsTyped, Holds
  <1>6. Carrying(j) /\ j.row \in Records
    BY <1>4 DEF Carrying, Records
  <1>7. Trusted(j, told, mail, posted)
    BY DEF Traced
  <1>8. j.row.user = j.user /\ j.user \in DOMAIN told
    BY <1>6, <1>7, Zenon DEF Trusted
  <1>9. ASSUME j.kind \notin {"register", "postEmail"} => Has(j.user)
        PROVE  Addressed(told, m.user, m.to) /\ m.code # None /\ m.code = j.row.code /\ Announces(m, j.row)
    <2>1. m.to = Recipient(j) /\ m.code = j.row.code /\ m.user = j.user /\ m.kind = j.row.kind
          /\ m.again = (j.kind = "resendEmail")
      OBVIOUS
    <2> HIDE DEF m
    <2>2. Addressed(told, j.user, Recipient(j))
      <3>1. CASE j.kind = "register"
        <4>1. j.plan \notin Unmade
          BY <1>4 DEF Sending, Unmade
        <4>2. Recipient(j) = j.to
          BY <3>1 DEF Recipient
        <4> QED BY <1>7, <3>1, <4>1, <4>2, Zenon DEF Trusted
      <3>2. CASE j.kind = "postEmail"
        <4>1. told[j.user].active
          BY <1>7, <3>2, Zenon DEF Trusted, SignedIn
        <4> QED BY <1>8, <4>1 DEF Addressed
      <3>3. CASE j.kind \notin {"register", "postEmail"}
        <4>1. Recipient(j) = users[j.user].email /\ j.user \in DOMAIN users
          BY <1>9, <3>3 DEF Recipient, Has
        <4>2. Untouched(told, j.user, users[j.user])
          BY <4>1 DEF Traced
        <4> QED BY <1>8, <4>1, <4>2 DEF Addressed, Untouched
      <3> QED BY <3>1, <3>2, <3>3
    <2>3. Announces(m, j.row)
      BY <1>8, <2>1 DEF Announces
    <2> QED BY <1>5, <2>1, <2>2, <2>3
  <1> HIDE DEF m
  <1>10. SameCode(row, j.row) /\ row.code = j.row.code /\ row.done = j.row.done
    <2> DEFINE old == j.row
    <2>1. old \in Stored(fresh) /\ row = [old EXCEPT !.resend = @ + 1]
      BY <1>5
    <2> HIDE DEF old, row
    <2>2. /\ [old EXCEPT !.resend = @ + 1].code = old.code /\ [old EXCEPT !.resend = @ + 1].done = old.done
          /\ SameCode([old EXCEPT !.resend = @ + 1], old)
      BY <2>1 DEF Stored, SameCode
    <2> QED BY <2>1, <2>2 DEF old
  <1>11. row \in Stored(fresh)
    <2> DEFINE old == j.row
    <2>1. old \in Stored(fresh) /\ row = [old EXCEPT !.resend = @ + 1] /\ fresh \in Nat
      BY <1>5 DEF RowsTyped
    <2> HIDE DEF old, row
    <2> QED BY <2>1, Copied
  <1> HIDE DEF row
  <1>12. IsJob(more) /\ more.plan = j.plan /\ more.to = j.to /\ more.user = j.user /\ more.rec = j.rec
         /\ more.row = row /\ more.kind = j.kind
    BY <1>4 DEF IsJob, Fields
  <1> HIDE DEF more
  <1>13. j.plan \notin Saving \cup Revising \cup Loading \cup Changing
    BY <1>4, PlansTyped
  <1>14. Trusted(more, told, mail, posted)
    <2>1. ~Trusting(more)
      BY <1>12, <1>13 DEF Trusting
    <2>2. Carrying(more) => Carrying(j)
      BY <1>6
    <2>3. j.plan \in Working => more.plan \in Working
      BY <1>12
    <2> QED BY <1>7, <1>10, <1>12, <2>1, <2>2, <2>3, TrustedNext
  <1>15. Holds(fresh, more)
    <2>1. Carries(fresh, more)
      BY <1>4, <1>5, <1>10, <1>11, <1>12, <1>13, Zenon DEF Carries
    <2> QED BY <1>5, <1>12, <2>1, Zenon DEF Holds
  <1>16. Holds(fresh, j)
    BY DEF RowsTyped
  <1>17. CASE /\ Proceed(w, j) \/ Proceed(w, more)
              /\ UNCHANGED <<users, codes>>
              /\ \/ mail' = mail
                 \/ (j.kind \notin {"register", "postEmail"} => Has(j.user)) /\ mail' = mail \cup {m}
    <2>1. PICK job \in {j, more} : Proceed(w, job)
      BY <1>17
    <2>2. IsJob(job) /\ Holds(fresh, job) /\ job.plan # <<>> /\ Head(job.plan) = "deliver"
      BY <1>4, <1>12, <1>15, <1>16, <2>1
    <2>3. Grows(told, told') /\ mail \subseteq mail' /\ posted \subseteq posted'
      BY <1>1, <1>17, GrowsNot
    <2>4. Trusted(job, told', mail', posted')
      BY <1>7, <1>14, <2>1, <2>3, TrustedStays
    <2> DEFINE k == Advance(job)
    <2>5. Trusted(k, told', mail', posted') /\ (Carrying(k) => k.row = job.row)
      BY <2>2, <2>4, TrustedOn
    <2>6. Known(job.row, j.row)
      BY <1>6, <1>10, <1>12, <2>1 DEF Known, SameCode
    <2>7. Carrying(k) => Known(k.row, j.row)
      BY <2>5, <2>6
    <2>8. jobs' = [jobs EXCEPT ![w] = k]
      BY <2>1 DEF Proceed
    <2> HIDE DEF k
    <2>9. \A l \in mail' \ mail : /\ Addressed(told', l.user, l.to)
                                  /\ l.code # None /\ \E y \in Records : l.code = y.code /\ Announces(l, y)
      BY <1>1, <1>6, <1>9, <1>17
    <2> QED BY <1>1, <1>17, <2>3, <2>5, <2>7, <2>8, <2>9, TracedStep
  <1> QED BY <1>2, <1>3, <1>17

LEMMA RowStepTraced ==
  ASSUME IInv, Copies, RowsTyped, Traced, NEW w \in Worker, RowStep(w)
  PROVE  Traced'
  BY ClearTraced, CreateTraced, IssueTraced, LoadUserTraced, SaveUserTraced, SaveRowTraced, DeliverTraced, AbandonTraced
     DEF RowStep

-----------------------------------------------------------------------------
\* Who is active was told so.
LEMMA ActiveTold ==
  ASSUME Traced, NEW u, Active(u)
  PROVE  told[u].active
  BY DEF Traced, Active, Has, Untouched

\* A request that carries no record begins.
LEMMA IdleBegins ==
  ASSUME IInv, Copies, RowsTyped, Traced, NEW w \in Worker, NEW kind, NEW job, IsJob(job), ~Carrying(job),
         Begin(w, kind, job), kind \notin SignedIn, kind = "register" => job.plan \in Unmade,
         UNCHANGED <<users, codes, mail, told, posted>>
  PROVE  Traced'
  <1> DEFINE k == [job EXCEPT !.kind = kind]
  <1>1. k.plan = job.plan /\ k.kind = kind /\ jobs' = [jobs EXCEPT ![w] = k]
    BY DEF IsJob, Fields, Begin
  <1> HIDE DEF k
  <1>2. ~Carrying(k)
    BY <1>1 DEF Carrying
  <1>3. Trusted(k, told', mail', posted')
    BY <1>1, <1>2, TrustedIdle
  <1> QED BY <1>1, <1>2, <1>3, GrowsNot, TracedStep

\* A request begins that holds a record of its user.
LEMMA HoldingTraced ==
  ASSUME IInv, Copies, RowsTyped, Traced, NEW w \in Worker, NEW kind, NEW r \in DOMAIN codes, NEW row, NEW job,
         IsJob(job), job.rec = r, job.user = codes[r].user, job.row = row, Begin(w, kind, job),
         row.user = codes[r].user,
         row.code \in {None, fresh + 1} \/ (row.code = codes[r].code /\ SameCode(row, codes[r])),
         Proven(r, row, mail, posted'),
         kind # "register",
         kind \in SignedIn => /\ told[codes[r].user].active
                              /\ job.plan \in Working,
         Trusting(job) /\ kind \in ByCode => row.code = job.code /\ \E m \in mail : m.code = job.code,
         Trusting(job) /\ kind = "verifyEmail" => row.kind = "email",
         Trusting(job) /\ kind = "setForget" => Answered(r, codes[r].user, mail, posted'),
         job.plan \in Changing => told[codes[r].user].active,
         posted \subseteq posted', UNCHANGED <<users, codes, mail, told>>
  PROVE  Traced'
  <1> DEFINE k == [job EXCEPT !.kind = kind]
             u == codes[r].user
  <1>1. /\ k.plan = job.plan /\ k.kind = kind /\ k.rec = r /\ k.row = row /\ k.user = u /\ k.code = job.code
        /\ k.to = job.to /\ jobs' = [jobs EXCEPT ![w] = k]
    BY DEF IsJob, Fields, Begin
  <1>2. u \in DOMAIN told
    BY DEF Traced, OneRecord, Records
  <1> HIDE DEF k
  <1>3. Trusting(k) <=> Trusting(job)
    BY <1>1 DEF Trusting
  <1>4. Known(row, row)
    BY <1>2 DEF Known, SameCode, Records
  <1>5. Trusted(k, told, mail, posted')
    <2>1. k.row.user = k.user /\ k.user \in DOMAIN told /\ Proven(k.rec, k.row, mail, posted')
      BY <1>1, <1>2
    <2>3. k.kind \in SignedIn => told[k.user].active /\ k.plan \in Working
      BY <1>1
    <2>4. Trusting(k) /\ k.kind \in ByCode => k.row.code = k.code /\ \E m \in mail : m.code = k.code
      BY <1>1, <1>3
    <2>5. Trusting(k) /\ k.kind = "verifyEmail" => k.row.kind = "email"
      BY <1>1, <1>3
    <2>6. Trusting(k) /\ k.kind = "setForget" => Answered(k.rec, k.user, mail, posted')
      BY <1>1, <1>3
    <2>7. k.plan \in Changing => told[k.user].active
      BY <1>1
    <2>8. k.kind # "register"
      BY <1>1
    <2> QED BY <2>1, <2>3, <2>4, <2>5, <2>6, <2>7, <2>8, Zenon DEF Trusted
  <1>6. Trusted(k, told', mail', posted')
    BY <1>5
  <1> HIDE DEF u
  <1> QED BY <1>1, <1>4, <1>6, GrowsNot, TracedStep

LEMMA Held ==
  \A r, row, plan :
    LET h == Holding(r, row, plan) IN
    IsJob(h) /\ h.plan = plan /\ h.rec = r /\ h.user = codes[r].user /\ h.row = row
  <1> SUFFICES ASSUME NEW r, NEW row, NEW plan
               PROVE  LET h == Holding(r, row, plan) IN
                      IsJob(h) /\ h.plan = plan /\ h.rec = r /\ h.user = codes[r].user /\ h.row = row
    OBVIOUS
  <1> DEFINE h == Holding(r, row, plan)
             user == codes[r].user
  <1>1. h = [NoJob EXCEPT !.plan = plan, !.user = user, !.rec = r, !.row = row]
    BY DEF Holding
  <1>2. IsJob(NoJob)
    BY NoJobOK
  <1> HIDE DEF h, user
  <1>3. IsJob(h) /\ h.plan = plan /\ h.rec = r /\ h.user = user /\ h.row = row
    BY <1>1, <1>2 DEF IsJob, Fields
  <1> QED BY <1>3 DEF h, user

LEMMA HeldWith ==
  ASSUME NEW h, IsJob(h), NEW c, NEW a, NEW p
  PROVE  /\ IsJob(WithCode(h, c)) /\ WithCode(h, c).plan = h.plan /\ WithCode(h, c).rec = h.rec
         /\ WithCode(h, c).user = h.user /\ WithCode(h, c).row = h.row /\ WithCode(h, c).code = c
         /\ IsJob(SentTo(h, a)) /\ SentTo(h, a).plan = h.plan /\ SentTo(h, a).rec = h.rec
         /\ SentTo(h, a).user = h.user /\ SentTo(h, a).row = h.row /\ SentTo(h, a).to = a
         /\ IsJob(WithPassword(h, p, c)) /\ WithPassword(h, p, c).plan = h.plan /\ WithPassword(h, p, c).rec = h.rec
         /\ WithPassword(h, p, c).user = h.user /\ WithPassword(h, p, c).row = h.row
  BY DEF IsJob, Fields, WithCode, SentTo, WithPassword

\* A copy of a record that is of the same user and kind, with its code or none.
Kept(x, row) == SameCode(x, row) /\ x.code = row.code /\ x.done = row.done
Spent(x, row) == SameCode(x, row) /\ x.code = None /\ x.done = row.done

LEMMA Changed ==
  ASSUME NEW n \in Nat, NEW row \in Stored(n)
  PROVE  /\ Kept(Block(row), row) /\ Kept(Dead(row), row) /\ Kept(Miss(row), row)
         /\ Spent([row EXCEPT !.code = None], row)
         /\ Kept([row EXCEPT !.age = "old"], row)
         /\ Kept([row EXCEPT !.resend = 0], row)
         /\ Kept([row EXCEPT !.resend = @ + 1], row)
         /\ Kept([row EXCEPT !.blocked = FALSE], row)
         /\ Kept([row EXCEPT !.age = IF @ = "new" THEN "recent" ELSE "old"], row)
         /\ \A w \in {"live", "lapsed", "dead"} :
              /\ Kept([row EXCEPT !.window = w], row)
              /\ Kept([row EXCEPT !.attapts = @ + 1, !.window = w], row)
              /\ SameCode([row EXCEPT !.done = TRUE, !.window = w], row)
              /\ [row EXCEPT !.done = TRUE, !.window = w].code = row.code
         /\ \A b \in BOOLEAN : /\ SameCode([row EXCEPT !.done = b], row) /\ [row EXCEPT !.done = b].code = row.code
                               /\ [row EXCEPT !.done = b].done = b
  <1>1. Kept(Block(row), row) /\ Kept(Dead(row), row) /\ Kept(Miss(row), row)
    BY DEF Stored, Kept, SameCode, Block, Dead, Miss
  <1>2. Spent([row EXCEPT !.code = None], row) /\ Kept([row EXCEPT !.age = "old"], row)
        /\ Kept([row EXCEPT !.resend = 0], row) /\ Kept([row EXCEPT !.resend = @ + 1], row)
        /\ Kept([row EXCEPT !.blocked = FALSE], row)
    BY DEF Stored, Kept, Spent, SameCode
  <1>3. Kept([row EXCEPT !.age = IF @ = "new" THEN "recent" ELSE "old"], row)
    BY DEF Stored, Kept, SameCode
  <1>4. ASSUME NEW w \in {"live", "lapsed", "dead"}
        PROVE  /\ Kept([row EXCEPT !.window = w], row)
               /\ Kept([row EXCEPT !.attapts = @ + 1, !.window = w], row)
               /\ SameCode([row EXCEPT !.done = TRUE, !.window = w], row)
               /\ [row EXCEPT !.done = TRUE, !.window = w].code = row.code
    BY DEF Stored, Kept, SameCode
  <1>5. ASSUME NEW b \in BOOLEAN
        PROVE  /\ SameCode([row EXCEPT !.done = b], row) /\ [row EXCEPT !.done = b].code = row.code
               /\ [row EXCEPT !.done = b].done = b
    BY DEF Stored, SameCode
  <1> QED BY <1>1, <1>2, <1>3, <1>4, <1>5

\* Changes one after the other.
LEMMA KeptTwice ==
  ASSUME NEW x, NEW y, NEW z, Kept(y, z)
  PROVE  (Kept(x, y) => Kept(x, z)) /\ (Spent(x, y) => Spent(x, z))
  BY DEF Kept, Spent, SameCode

\* Such a copy is as proven as the record.
LEMMA KeptProven ==
  ASSUME Traced, NEW r \in DOMAIN codes, NEW x, Kept(x, codes[r]) \/ Spent(x, codes[r]), posted \subseteq posted'
  PROVE  Proven(r, x, mail, posted')
  <1>1. Proven(r, codes[r], mail, posted)
    BY DEF Traced
  <1>2. Proven(r, x, mail, posted)
    BY <1>1 DEF Proven, Kept, Spent, SameCode
  <1> QED BY <1>2, ProvenStays

\* A request that will only save a record begins.
LEMMA SavingTraced ==
  ASSUME IInv, Copies, RowsTyped, Traced, NEW w \in Worker, NEW kind, NEW r \in DOMAIN codes, NEW row, NEW plan,
         Begin(w, kind, Holding(r, row, plan)), plan \in Saving \cup Revising, plan = <<"saveRow">> \/ kind \notin SignedIn,
         kind # "register", kind \in SignedIn => told[codes[r].user].active,
         Kept(row, codes[r]) \/ Spent(row, codes[r]),
         posted \subseteq posted', UNCHANGED <<users, codes, mail, told>>
  PROVE  Traced'
  <1> DEFINE h == Holding(r, row, plan)
  <1>1. IsJob(h) /\ h.plan = plan /\ h.rec = r /\ h.user = codes[r].user /\ h.row = row
    BY Held
  <1> HIDE DEF h
  <1>2. /\ row.user = codes[r].user
        /\ row.code \in {None, fresh + 1} \/ (row.code = codes[r].code /\ SameCode(row, codes[r]))
    BY DEF Kept, Spent, SameCode
  <1>3. Proven(r, row, mail, posted')
    BY KeptProven
  <1>4. ~Trusting(h) /\ h.plan \notin Changing
    BY <1>1, PlansTyped DEF Trusting
  <1>5. Begin(w, kind, h)
    BY DEF h
  <1>6. <<"saveRow">> \in Working
    BY DEF Working
  <1> QED BY <1>1, <1>2, <1>3, <1>4, <1>5, <1>6, HoldingTraced

\* A wrong code is counted or blocks the record.
LEMMA MissedKept ==
  ASSUME NEW n \in Nat, NEW row \in Stored(n)
  PROVE  LET x == TooMany(Miss(row), [Dead(Block(Miss(row))) EXCEPT !.code = None]) IN Kept(x, row) \/ Spent(x, row)
  <1> DEFINE missed == Miss(row)
             block == Block(missed)
             dead == Dead(block)
             none == [dead EXCEPT !.code = None]
  <1>1. missed \in Stored(n) /\ Kept(missed, row)
    BY Copied, Changed
  <1> HIDE DEF missed
  <1>2. block \in Stored(n) /\ Kept(block, missed)
    BY <1>1, Copied, Changed
  <1> HIDE DEF block
  <1>3. dead \in Stored(n) /\ Kept(dead, block)
    BY <1>2, Copied, Changed
  <1> HIDE DEF dead
  <1>4. Spent(none, dead)
    BY <1>3, Changed
  <1> HIDE DEF none
  <1>5. Spent(none, row)
    BY <1>1, <1>2, <1>3, <1>4, KeptTwice
  <1> QED BY <1>1, <1>5 DEF TooMany, missed, block, dead, none

LEMMA ResendBlockTraced ==
  ASSUME IInv, Copies, RowsTyped, Traced, NEW w \in Worker, NEW kind, NEW r \in DOMAIN codes, ResendBlock(w, kind, r),
         kind \notin SignedIn, kind # "register", UNCHANGED <<users, codes, mail, told>>
  PROVE  Traced'
  <1> DEFINE old == codes[r]
             block == Block(old)
             row == [block EXCEPT !.resend = 0]
             plan == <<"saveRow">>
  <1>1. posted' = posted /\ Begin(w, kind, Holding(r, row, plan))
    BY DEF ResendBlock
  <1>2. old \in Stored(fresh) /\ fresh \in Nat
    BY DEF RowsTyped, CodesIn
  <1> HIDE DEF old
  <1>3. block \in Stored(fresh) /\ Kept(block, old)
    BY <1>2, Copied, Changed
  <1> HIDE DEF block
  <1>4. Kept(row, block)
    BY <1>2, <1>3, Changed
  <1> HIDE DEF row
  <1>5. Kept(row, codes[r])
    BY <1>3, <1>4, KeptTwice DEF old
  <1>6. plan \in Saving
    BY PlansTyped
  <1> HIDE DEF plan
  <1> QED BY <1>1, <1>5, <1>6, SavingTraced

LEMMA RegisterTraced ==
  ASSUME IInv, Copies, RowsTyped, Traced, NEW w \in Worker, NEW a, NEW type \in {"register", "link"}, NEW p,
         Register(w, a, type, p)
  PROVE  Traced'
  <1> DEFINE plan == (IF At(a) = {} THEN <<>> ELSE <<"clear">>) \o Making(type)
             user == IF At(a) = {} THEN None ELSE CHOOSE u \in At(a) : TRUE
             acct == IF At(a) = {} THEN NoAcct ELSE users[CHOOSE u \in At(a) : TRUE]
             row == NewRow(type)
             job == [NoJob EXCEPT !.plan = plan, !.user = user, !.acct = acct, !.row = row, !.to = a, !.pw = p]
  <1>1. Begin(w, "register", job)
    BY Zenon DEF Register
  <1>2. UNCHANGED <<users, codes, mail, told, posted>>
    BY Zenon DEF Register, auth, ghosts
  <1>3. plan \in Unmade
    <2>1. plan \in (IF type = "link" THEN Linking ELSE Coding) \ {<<"issue", "deliver">>, <<"issue", "saveRow", "deliver">>}
      BY RegisterPlans, Zenon
    <2> HIDE DEF plan
    <2> QED BY <2>1 DEF Unmade, Linking, Coding
  <1> HIDE DEF plan, user, acct, row
  <1>4. IsJob(job) /\ job.plan = plan
    BY NoJobOK DEF IsJob, Fields
  <1> HIDE DEF job
  <1>5. plan \notin Sending \cup Saving \cup Revising \cup Loading \cup Changing
    BY <1>3 DEF Unmade, Sending, Saving, Revising, Loading, Changing
  <1>6. ~Carrying(job) /\ job.plan \in Unmade
    BY <1>3, <1>4, <1>5 DEF Carrying
  <1>7. "register" \notin SignedIn
    BY DEF SignedIn
  <1> QED BY <1>1, <1>2, <1>4, <1>6, <1>7, IdleBegins

\* The code typed was mailed.
LEMMA CodeMailed ==
  ASSUME RowsTyped, NEW r \in DOMAIN codes, NEW c \in Typed, c = codes[r].code
  PROVE  \E m \in mail : m.code = c
  <1>1. c \in 0..fresh
    BY DEF RowsTyped, CodesIn, Stored
  <1>2. c # Wrong
    BY <1>1 DEF Wrong
  <1> QED BY <1>2 DEF Typed

LEMMA Loads ==
  /\ <<"loadUser", "saveUser", "saveRow">> \in Loading \ (Sending \cup Changing)
  /\ <<"loadUser", "saveUser">> \in Loading \ (Sending \cup Changing)
  BY PlansTyped DEF Loading

\* A code is entered that activates an account or changes its address.
LEMMA EnteredTraced ==
  ASSUME IInv, Copies, RowsTyped, Traced, NEW w \in Worker, NEW kind \in ByCode, NEW r \in DOMAIN codes, NEW row, NEW plan,
         NEW c \in Typed, Begin(w, kind, WithCode(Holding(r, row, plan), c)), c = codes[r].code,
         plan \in Loading, SameCode(row, codes[r]), row.code = codes[r].code, Proven(r, row, mail, posted'),
         kind = "verifyEmail" => row.kind = "email" /\ told[codes[r].user].active,
         posted \subseteq posted', UNCHANGED <<users, codes, mail, told>>
  PROVE  Traced'
  <1> DEFINE h == Holding(r, row, plan)
             job == WithCode(h, c)
  <1>1. IsJob(h) /\ h.plan = plan /\ h.rec = r /\ h.user = codes[r].user /\ h.row = row
    BY Held
  <1> HIDE DEF h
  <1>2. IsJob(job) /\ job.plan = plan /\ job.rec = r /\ job.user = codes[r].user /\ job.row = row /\ job.code = c
    BY <1>1, HeldWith
  <1>3. Begin(w, kind, job)
    BY DEF h
  <1> HIDE DEF job
  <1>4. plan \notin Changing /\ plan \in Working
    BY PlansTyped DEF Working
  <1>5. \E m \in mail : m.code = job.code
    BY <1>2, CodeMailed
  <1>6. row.user = codes[r].user
    BY DEF SameCode
  <1>7. kind # "register" /\ kind # "setForget" /\ (kind \in SignedIn => kind = "verifyEmail")
    BY DEF ByCode, SignedIn
  <1> QED BY <1>2, <1>3, <1>4, <1>5, <1>6, <1>7, HoldingTraced

LEMMA VerifyTraced ==
  ASSUME IInv, Copies, RowsTyped, Traced, NEW w \in Worker, NEW a, NEW c \in Typed, Verify(w, a, c)
  PROVE  Traced'
  <1>1. UNCHANGED <<users, codes, mail, told>>
    BY DEF Verify
  <1>2. PICK r \in DOMAIN codes :
          \/ /\ Begin(w, "verify", Holding(r, TooMany(Miss(codes[r]), [Dead(Block(Miss(codes[r]))) EXCEPT !.code = None]),
                                           <<"saveRow">>))
             /\ posted' = posted
          \/ /\ Begin(w, "verify", [Holding(r, Dead(codes[r]), <<"loadUser", "saveUser", "saveRow">>) EXCEPT !.code = c])
             /\ posted' = posted \cup {<<r, c>>} /\ c = codes[r].code
    BY DEF Verify, RowsOf
  <1> DEFINE missed == TooMany(Miss(codes[r]), [Dead(Block(Miss(codes[r]))) EXCEPT !.code = None])
             dead == Dead(codes[r])
             loading == <<"loadUser", "saveUser", "saveRow">>
             saves == <<"saveRow">>
  <1>3. codes[r] \in Stored(fresh) /\ fresh \in Nat
    BY DEF RowsTyped, CodesIn
  <1>4. (Kept(missed, codes[r]) \/ Spent(missed, codes[r])) /\ Kept(dead, codes[r])
    BY <1>3, MissedKept, Changed
  <1> HIDE DEF missed, dead
  <1>5. saves \in Saving /\ loading \in Loading /\ "verify" \notin SignedIn /\ "verify" \in ByCode
    BY PlansTyped, Loads DEF SignedIn, ByCode
  <1> HIDE DEF loading
  <1>6. CASE Begin(w, "verify", Holding(r, missed, saves)) /\ posted' = posted
    <2> HIDE DEF saves
    <2> QED BY <1>1, <1>4, <1>5, <1>6, SavingTraced
  <1>7. CASE Begin(w, "verify", [Holding(r, dead, loading) EXCEPT !.code = c])
             /\ posted' = posted \cup {<<r, c>>} /\ c = codes[r].code
    <2>1. Begin(w, "verify", WithCode(Holding(r, dead, loading), c))
      BY <1>7, Zenon DEF WithCode
    <2>2. posted \subseteq posted'
      BY <1>7
    <2>3. SameCode(dead, codes[r]) /\ dead.code = codes[r].code /\ Proven(r, dead, mail, posted')
      BY <1>4, <2>2, KeptProven DEF Kept
    <2> QED BY <1>1, <1>5, <1>7, <2>1, <2>2, <2>3, EnteredTraced
  <1> QED BY <1>2, <1>6, <1>7 DEF missed, dead, loading

LEMMA VerifyLinkTraced ==
  ASSUME IInv, Copies, RowsTyped, Traced, NEW w \in Worker, NEW c \in Typed, VerifyLink(w, c)
  PROVE  Traced'
  <1> DEFINE loading == <<"loadUser", "saveUser">>
  <1>1. UNCHANGED <<users, codes, mail, told>>
    BY DEF VerifyLink
  <1>2. PICK r \in DOMAIN codes : /\ Begin(w, "link", [Holding(r, codes[r], loading) EXCEPT !.code = c])
                                  /\ posted' = posted \cup {<<r, c>>} /\ c = codes[r].code
    BY DEF VerifyLink
  <1>3. loading \in Loading /\ "link" \in ByCode
    BY Loads DEF ByCode
  <1> HIDE DEF loading
  <1>4. Begin(w, "link", WithCode(Holding(r, codes[r], loading), c))
    BY <1>2, Zenon DEF WithCode
  <1>5. posted \subseteq posted'
    BY <1>2
  <1>6. SameCode(codes[r], codes[r]) /\ Proven(r, codes[r], mail, posted')
    BY <1>5, ProvenStays DEF SameCode, Traced
  <1> QED BY <1>1, <1>2, <1>3, <1>4, <1>5, <1>6, EnteredTraced

\* A record with a new code, with the posted address, or with a resend counted.
LEMMA NewCoded ==
  ASSUME NEW n, NEW row \in Stored(n), NEW c, NEW a
  PROVE  /\ SameCode(NewCode(row, c), row) /\ NewCode(row, c).code = c /\ NewCode(row, c).done = row.done
         /\ Kept(ResentRow(row), row) /\ Kept(PostedRow(row, a), row)
  <1>1. SameCode(NewCode(row, c), row) /\ NewCode(row, c).code = c /\ NewCode(row, c).done = row.done
    BY DEF Stored, NewCode, SameCode
  <1>2. Kept(ResentRow(row), row)
    BY DEF Stored, ResentRow, Kept, SameCode
  <1>3. Kept(PostedRow(row, a), row)
    BY DEF Stored, PostedRow, Kept, SameCode
  <1> QED BY <1>1, <1>2, <1>3

\* A request begins that will mail a new code.
LEMMA SendingTraced ==
  ASSUME IInv, Copies, RowsTyped, Traced, NEW w \in Worker, NEW kind, kind \notin SignedIn, NEW r \in DOMAIN codes, NEW row, NEW plan,
         Begin(w, kind, Holding(r, row, plan)), plan \in Sending, kind # "register",
         row.user = codes[r].user, row.kind = codes[r].kind, row.done = codes[r].done, row.code = fresh + 1,
         posted' = posted, UNCHANGED <<users, codes, mail, told>>
  PROVE  Traced'
  <1> DEFINE h == Holding(r, row, plan)
  <1>1. IsJob(h) /\ h.plan = plan /\ h.rec = r /\ h.user = codes[r].user /\ h.row = row
    BY Held
  <1> HIDE DEF h
  <1>2. Begin(w, kind, h)
    BY DEF h
  <1>3. Proven(r, row, mail, posted')
    <2>1. Proven(r, codes[r], mail, posted)
      BY DEF Traced
    <2> QED BY <2>1 DEF Proven
  <1>4. ~Trusting(h) /\ h.plan \notin Changing
    BY <1>1, PlansTyped DEF Trusting
  <1> QED BY <1>1, <1>2, <1>3, <1>4, HoldingTraced

LEMMA ResendTraced ==
  ASSUME IInv, Copies, RowsTyped, Traced, NEW w \in Worker, NEW a, Resend(w, a)
  PROVE  Traced'
  <1> DEFINE plan == <<"saveRow", "deliver", "saveRow">>
  <1>1. UNCHANGED <<users, codes, mail, told>>
    BY DEF Resend
  <1>2. PICK r \in DOMAIN codes :
          \/ ResendBlock(w, "resend", r)
          \/ /\ codes[r].kind \in OtpKinds
             /\ fresh' = fresh + 1 /\ Begin(w, "resend", Holding(r, NewCode(codes[r], fresh'), plan)) /\ posted' = posted
    BY DEF Resend, RowsOf
  <1>3. "resend" \notin SignedIn
    BY DEF SignedIn
  <1>4. CASE ResendBlock(w, "resend", r)
    BY <1>1, <1>3, <1>4, ResendBlockTraced
  <1>5. CASE /\ codes[r].kind \in OtpKinds
             /\ fresh' = fresh + 1 /\ Begin(w, "resend", Holding(r, NewCode(codes[r], fresh'), plan)) /\ posted' = posted
    <2> DEFINE old == codes[r]
               row == NewCode(old, fresh')
    <2>1. old \in Stored(fresh)
      BY DEF RowsTyped, CodesIn
    <2>2. SameCode(row, old) /\ row.code = fresh' /\ row.done = old.done
      BY <2>1, NewCoded
    <2>4. plan \in Sending
      BY PlansTyped
    <2> HIDE DEF row, plan
    <2>5. row.user = codes[r].user /\ row.kind = codes[r].kind /\ row.done = codes[r].done /\ row.code = fresh + 1
      BY <1>5, <2>2 DEF SameCode
    <2>6. Begin(w, "resend", Holding(r, row, plan))
      BY <1>5 DEF row
    <2> QED BY <1>1, <1>3, <1>5, <2>4, <2>5, <2>6, SendingTraced
  <1> QED BY <1>2, <1>4, <1>5

LEMMA ForgetPasswordTraced ==
  ASSUME IInv, Copies, RowsTyped, Traced, NEW w \in Worker, NEW a, ForgetPassword(w, a)
  PROVE  Traced'
  <1> DEFINE plan == <<"saveRow", "renew", "issue", "saveRow", "deliver">>
             Row(r) == [codes[r] EXCEPT !.resend = @ + 1]
  <1>1. UNCHANGED <<users, codes, mail, told>>
    BY DEF ForgetPassword
  <1>2. PICK r \in DOMAIN codes :
          \/ ResendBlock(w, "forget", r)
          \/ posted' = posted /\ Begin(w, "forget", Holding(r, Row(r), plan))
    BY DEF ForgetPassword, RowsOf
  <1>3. "forget" \notin SignedIn
    BY DEF SignedIn
  <1>4. CASE ResendBlock(w, "forget", r)
    BY <1>1, <1>3, <1>4, ResendBlockTraced
  <1>5. CASE posted' = posted /\ Begin(w, "forget", Holding(r, Row(r), plan))
    <2>1. codes[r] \in Stored(fresh) /\ fresh \in Nat
      BY DEF RowsTyped, CodesIn
    <2>2. Kept(Row(r), codes[r])
      BY <2>1, Changed
    <2>3. plan \in Saving
      BY PlansTyped
    <2> HIDE DEF plan, Row
    <2> QED BY <1>1, <1>3, <1>5, <2>2, <2>3, SavingTraced
  <1> QED BY <1>2, <1>4, <1>5

\* The right code of a forgotten password is posted: the record is proven.
LEMMA VerifyForgetTraced ==
  ASSUME IInv, Copies, RowsTyped, Traced, NEW w \in Worker, NEW a, NEW c \in Typed, VerifyForget(w, a, c)
  PROVE  Traced'
  <1> DEFINE plan == <<"saveRow">>
             Row(r) == [codes[r] EXCEPT !.done = TRUE, !.window = "live"]
  <1>1. UNCHANGED <<users, codes, mail, told>>
    BY DEF VerifyForget
  <1>2. PICK r \in DOMAIN codes :
          \/ ResendBlock(w, "forgetVerify", r)
          \/ /\ codes[r].kind = "forget" /\ c = codes[r].code /\ posted' = posted \cup {<<r, c>>}
             /\ Begin(w, "forgetVerify", Holding(r, Row(r), plan))
    BY DEF VerifyForget, RowsOf
  <1>3. "forgetVerify" \notin SignedIn
    BY DEF SignedIn
  <1>4. CASE ResendBlock(w, "forgetVerify", r)
    BY <1>1, <1>3, <1>4, ResendBlockTraced
  <1>5. CASE /\ codes[r].kind = "forget" /\ c = codes[r].code /\ posted' = posted \cup {<<r, c>>}
             /\ Begin(w, "forgetVerify", Holding(r, Row(r), plan))
    <2> DEFINE old == codes[r]
               row == Row(r)
               h == Holding(r, row, plan)
    <2>1. old \in Stored(fresh) /\ fresh \in Nat
      BY DEF RowsTyped, CodesIn
    <2>2. SameCode(row, old) /\ row.code = old.code
      BY <2>1, Changed
    <2>3. PICK m \in mail : m.code = c
      BY <1>5, CodeMailed
    <2>4. Announces(m, old)
      BY <1>5, <2>3 DEF Traced, OneRecord, Records
    <2> HIDE DEF row
    <2>5. Answered(r, row.user, mail, posted')
      <3>1. m.user = row.user /\ m.kind = "forget" /\ <<r, m.code>> \in posted'
        BY <1>5, <2>2, <2>3, <2>4 DEF Announces, SameCode
      <3> QED BY <3>1 DEF Answered
    <2>6. Proven(r, row, mail, posted')
      BY <2>5 DEF Proven
    <2>7. IsJob(h) /\ h.plan = plan /\ h.rec = r /\ h.user = codes[r].user /\ h.row = row
      BY Held
    <2>8. Begin(w, "forgetVerify", h)
      BY <1>5 DEF row
    <2> HIDE DEF h
    <2>9. plan \in Saving
      BY PlansTyped
    <2>10. ~Trusting(h) /\ h.plan \notin Changing
      BY <2>7, <2>9, PlansTyped DEF Trusting
    <2>11. row.user = codes[r].user /\ posted \subseteq posted'
      BY <1>5, <2>2 DEF SameCode
    <2> QED BY <1>1, <1>3, <2>2, <2>6, <2>7, <2>8, <2>10, <2>11, HoldingTraced
  <1> QED BY <1>2, <1>4, <1>5

\* Only a record that is proven lets a password be set.
LEMMA SetForgottenTraced ==
  ASSUME IInv, Copies, RowsTyped, Traced, NEW w \in Worker, NEW a, NEW p, SetForgotten(w, a, p)
  PROVE  Traced'
  <1> DEFINE plan == <<"loadUser", "saveUser", "saveRow">>
             Row(r) == [Dead(codes[r]) EXCEPT !.done = FALSE]
  <1>1. UNCHANGED <<users, codes, mail, told>>
    BY DEF SetForgotten
  <1>2. PICK r \in DOMAIN codes :
          \/ ResendBlock(w, "setForget", r)
          \/ /\ codes[r].kind = "forget" /\ codes[r].done /\ posted' = posted
             /\ Begin(w, "setForget", [Holding(r, Row(r), plan) EXCEPT !.pw = p, !.code = codes[r].code])
    BY DEF SetForgotten, RowsOf
  <1>3. "setForget" \notin SignedIn /\ "setForget" \notin ByCode
    BY DEF SignedIn, ByCode
  <1>4. CASE ResendBlock(w, "setForget", r)
    BY <1>1, <1>3, <1>4, ResendBlockTraced
  <1>5. CASE /\ codes[r].kind = "forget" /\ codes[r].done /\ posted' = posted
             /\ Begin(w, "setForget", [Holding(r, Row(r), plan) EXCEPT !.pw = p, !.code = codes[r].code])
    <2> DEFINE old == codes[r]
               dead == Dead(old)
               row == Row(r)
               h == Holding(r, row, plan)
               job == WithPassword(h, p, codes[r].code)
    <2>1. old \in Stored(fresh) /\ fresh \in Nat
      BY DEF RowsTyped, CodesIn
    <2>2. dead \in Stored(fresh) /\ Kept(dead, old)
      BY <2>1, Copied, Changed
    <2>3. SameCode(row, old) /\ row.code = old.code /\ ~row.done
      <3> HIDE DEF dead
      <3>1. SameCode([dead EXCEPT !.done = FALSE], dead) /\ [dead EXCEPT !.done = FALSE].code = dead.code
            /\ [dead EXCEPT !.done = FALSE].done = FALSE
        BY <2>1, <2>2, Changed
      <3>2. row = [dead EXCEPT !.done = FALSE]
        BY DEF dead
      <3> HIDE DEF row
      <3> QED BY <2>2, <3>1, <3>2 DEF Kept, SameCode
    <2> HIDE DEF Row
    <2>4. Begin(w, "setForget", job)
      BY <1>5, Zenon DEF WithPassword
    <2> HIDE DEF row
    <2>5. IsJob(h) /\ h.plan = plan /\ h.rec = r /\ h.user = codes[r].user /\ h.row = row
      BY Held
    <2> HIDE DEF h
    <2>6. IsJob(job) /\ job.plan = plan /\ job.rec = r /\ job.user = codes[r].user /\ job.row = row
      BY <2>5, HeldWith
    <2> HIDE DEF job
    <2>7. plan \notin Sending \cup Changing
      BY Loads
    <2>8. Answered(r, old.user, mail, posted')
      BY <1>5 DEF Traced, Proven
    <2>9. row.user = old.user /\ Proven(r, row, mail, posted')
      BY <2>3 DEF SameCode, Proven
    <2> HIDE DEF plan
    <2> QED BY <1>1, <1>3, <1>5, <2>3, <2>4, <2>6, <2>7, <2>8, <2>9, HoldingTraced
  <1> QED BY <1>2, <1>4, <1>5

LEMMA RegistrationTraced ==
  ASSUME IInv, Copies, RowsTyped, Traced, NEW w \in Worker, RegistrationStep(w)
  PROVE  Traced'
  BY RegisterTraced, VerifyTraced, VerifyForgetTraced, ResendTraced, ForgetPasswordTraced, SetForgottenTraced,
     VerifyLinkTraced, RenewTraced DEF RegistrationStep

-----------------------------------------------------------------------------
LEMMA OpenWindowTraced ==
  ASSUME IInv, Copies, RowsTyped, Traced, NEW w \in Worker, NEW u, NEW kind \in LogKinds, OpenWindow(w, u, kind)
  PROVE  Traced'
  <1> DEFINE mine == RowsOf({u}, {kind})
             r == Max(mine)
             row == codes[r]
             blank == NewRow(kind)
             new == [NoJob EXCEPT !.plan = <<"issue">>, !.user = u, !.row = blank]
             old == Block(row)
             closed == [old EXCEPT !.age = "old"]
             opened == [row EXCEPT !.attapts = @ + 1, !.window = "live"]
             plan == <<"saveRow">>
             name == OpenKind[kind]
  <1>1. UNCHANGED <<users, codes, mail, told, posted>>
    BY DEF OpenWindow, auth, ghosts
  <1>2. \/ Begin(w, name, new)
        \/ mine # {} /\ Begin(w, name, Holding(r, closed, plan))
        \/ mine # {} /\ Begin(w, name, Holding(r, opened, plan))
    BY DEF OpenWindow
  <1>3. name \notin SignedIn /\ name # "register"
    BY DEF LogKinds, OpenKind, SignedIn
  <1>4. CASE Begin(w, name, new)
    <2> HIDE DEF blank, name
    <2>1. IsJob(new) /\ new.plan = <<"issue">>
      BY NoJobOK DEF IsJob, Fields
    <2> HIDE DEF new
    <2>2. ~Carrying(new)
      BY <2>1 DEF Carrying, Sending, Saving, Revising, Loading, Changing
    <2> QED BY <1>1, <1>3, <1>4, <2>1, <2>2, IdleBegins
  <1>5. ASSUME mine # {} PROVE r \in DOMAIN codes /\ Kept(closed, row) /\ Kept(opened, row)
    <2>1. mine \in SUBSET (1..fresh) /\ fresh \in Nat
      BY DEF RowsOf, RowsTyped, CodesIn
    <2>2. r \in mine
      <3> HIDE DEF mine
      <3> QED BY <1>5, <2>1, MaxIsIn
    <2>3. r \in DOMAIN codes
      BY <2>2 DEF RowsOf
    <2> HIDE DEF r
    <2>4. row \in Stored(fresh)
      BY <2>3 DEF RowsTyped, CodesIn
    <2> HIDE DEF row
    <2>5. old \in Stored(fresh) /\ Kept(old, row) /\ Kept(opened, row)
      BY <2>1, <2>4, Copied, Changed
    <2> HIDE DEF old
    <2>6. Kept(closed, old)
      BY <2>1, <2>5, Changed
    <2> HIDE DEF closed, opened
    <2> QED BY <2>3, <2>5, <2>6, KeptTwice
  <1>6. plan \in Saving
    BY PlansTyped
  <1> HIDE DEF mine, r, closed, opened, plan, name
  <1>7. CASE mine # {} /\ Begin(w, name, Holding(r, closed, plan))
    BY <1>1, <1>3, <1>5, <1>6, <1>7, SavingTraced
  <1>8. CASE mine # {} /\ Begin(w, name, Holding(r, opened, plan))
    BY <1>1, <1>3, <1>5, <1>6, <1>8, SavingTraced
  <1> QED BY <1>2, <1>4, <1>7, <1>8

LEMMA ChangePasswordTraced ==
  ASSUME IInv, Copies, RowsTyped, Traced, NEW w \in Worker, NEW u, NEW old, NEW new, ChangePassword(w, u, old, new)
  PROVE  Traced'
  <1> DEFINE Saves == <<"saveRow">>
             plan == <<"saveUser", "saveRow">>
             Blocked(r) == [Block(codes[r]) EXCEPT !.window = "lapsed"]
             Done(r) == [codes[r] EXCEPT !.done = TRUE, !.window = "lapsed"]
             acct == [users[u] EXCEPT !.pw = new]
             name == "changePassword"
  <1>1. UNCHANGED <<users, codes, mail, told, posted>> /\ Active(u)
    BY Zenon DEF ChangePassword, auth, ghosts
  <1>2. PICK r \in DOMAIN codes :
          /\ codes[r].user = u /\ codes[r].kind = "password"
          /\ \/ Begin(w, name, Holding(r, Blocked(r), Saves))
             \/ Begin(w, name, Holding(r, Miss(codes[r]), Saves))
             \/ Begin(w, name, [Holding(r, Done(r), plan) EXCEPT !.acct = acct, !.pw = new])
    BY DEF ChangePassword, Pending, RowsOf
  <1> DEFINE row == codes[r]
             blocked == Block(row)
             done == Done(r)
             missed == Miss(row)
  <1>3. row \in Stored(fresh) /\ fresh \in Nat
    BY DEF RowsTyped, CodesIn
  <1>4. SameCode(done, row) /\ done.code = row.code
    <2> HIDE DEF row
    <2> DEFINE new2 == [row EXCEPT !.done = TRUE, !.window = "lapsed"]
    <2>1. SameCode(new2, row) /\ new2.code = row.code
      BY <1>3, Changed
    <2> QED BY <2>1 DEF row
  <1>5. Kept(missed, row) /\ blocked \in Stored(fresh) /\ Kept(blocked, row)
    <2> HIDE DEF row
    <2> QED BY <1>3, Copied, Changed
  <1>6. Kept(Blocked(r), row)
    <2> HIDE DEF blocked
    <2> DEFINE x == [blocked EXCEPT !.window = "lapsed"]
    <2>1. Kept(x, blocked)
      BY <1>3, <1>5, Changed
    <2>2. x = Blocked(r)
      BY DEF blocked
    <2> HIDE DEF x, Blocked, row
    <2> QED BY <1>5, <2>1, <2>2, KeptTwice
  <1>7. Saves \in Saving /\ told[codes[r].user].active /\ name # "register"
    BY <1>1, <1>2, PlansTyped, ActiveTold
  <1>8. CASE \/ Begin(w, name, Holding(r, Blocked(r), Saves))
             \/ Begin(w, name, Holding(r, missed, Saves))
    <2>1. Saves = <<"saveRow">>
      OBVIOUS
    <2> HIDE DEF Saves, Blocked, missed, name
    <2> QED BY <1>1, <1>5, <1>6, <1>7, <1>8, <2>1, SavingTraced
  <1>9. CASE Begin(w, name, [Holding(r, Done(r), plan) EXCEPT !.acct = acct, !.pw = new])
    <2> DEFINE h == Holding(r, done, plan)
               job == [h EXCEPT !.acct = acct, !.pw = new]
               user == codes[r].user
    <2>1. Begin(w, name, job)
      BY <1>9, Zenon
    <2> HIDE DEF done, acct, plan, user
    <2>2. IsJob(h) /\ h.plan = plan /\ h.rec = r /\ h.user = user /\ h.row = done
      BY Held DEF user
    <2> HIDE DEF h
    <2>3. IsJob(job) /\ job.plan = plan /\ job.rec = r /\ job.user = user /\ job.row = done
      BY <2>2 DEF IsJob, Fields
    <2> HIDE DEF job
    <2>4. plan \in Changing /\ plan \in Working
      BY DEF plan, Changing, Working
    <2>5. done.user = codes[r].user /\ done.kind = "password"
      BY <1>2, <1>4 DEF SameCode
    <2>6. Proven(r, done, mail, posted')
      BY <2>5 DEF Proven
    <2>7. name \notin ByCode /\ name # "verifyEmail" /\ name # "setForget"
      BY DEF ByCode
    <2>8. job.user = codes[r].user
      BY <2>3 DEF user
    <2> HIDE DEF name
    <2> QED BY <1>1, <1>4, <1>7, <2>1, <2>3, <2>4, <2>5, <2>6, <2>7, <2>8, HoldingTraced
  <1> QED BY <1>2, <1>8, <1>9

LEMMA PostEmailTraced ==
  ASSUME IInv, Copies, RowsTyped, Traced, NEW w \in Worker, NEW u, NEW a, PostEmail(w, u, a)
  PROVE  Traced'
  <1> DEFINE plan == <<"saveRow", "revise", "saveRow", "deliver">>
             Row(r) == NewCode(codes[r], fresh')
             name == "postEmail"
  <1>1. fresh' = fresh + 1 /\ UNCHANGED <<users, codes, mail, told, posted>> /\ Active(u)
    BY DEF PostEmail, ghosts
  <1>2. PICK r \in DOMAIN codes : /\ codes[r].user = u /\ codes[r].kind = "email"
                                  /\ Begin(w, name, [Holding(r, Row(r), plan) EXCEPT !.to = a])
    BY DEF PostEmail, RowsOf
  <1> DEFINE row == Row(r)
             h == Holding(r, row, plan)
             job == SentTo(h, a)
  <1>3. codes[r] \in Stored(fresh)
    BY DEF RowsTyped, CodesIn
  <1>4. row.user = codes[r].user /\ row.kind = "email" /\ row.code = fresh + 1
    BY <1>1, <1>2, <1>3, NewCoded DEF SameCode
  <1>5. plan \in Revising /\ plan \notin Loading \cup Changing /\ plan \in Working
    BY PlansTyped DEF Working
  <1> HIDE DEF plan, Row
  <1>6. Begin(w, name, job)
    BY <1>2, Zenon DEF SentTo
  <1> HIDE DEF row
  <1>7. IsJob(h) /\ h.plan = plan /\ h.rec = r /\ h.user = codes[r].user /\ h.row = row
    BY Held
  <1> HIDE DEF h
  <1>8. IsJob(job) /\ job.plan = plan /\ job.rec = r /\ job.user = codes[r].user /\ job.row = row
    BY <1>7, HeldWith
  <1> HIDE DEF job
  <1>9. ~Trusting(job)
    BY <1>5, <1>8 DEF Trusting
  <1>10. Proven(r, row, mail, posted')
    BY <1>4 DEF Proven
  <1>11. told[codes[r].user].active
    BY <1>1, <1>2, ActiveTold
  <1> QED BY <1>1, <1>4, <1>5, <1>6, <1>8, <1>9, <1>10, <1>11, HoldingTraced

LEMMA VerifyEmailTraced ==
  ASSUME IInv, Copies, RowsTyped, Traced, NEW w \in Worker, NEW u, NEW c \in Typed, VerifyEmail(w, u, c)
  PROVE  Traced'
  <1> DEFINE loading == <<"loadUser", "saveUser", "saveRow">>
             saves == <<"saveRow">>
             Missed(r) == TooMany(Miss(codes[r]), [Dead(Block(Miss(codes[r]))) EXCEPT !.code = None])
             Done(r) == [Dead(codes[r]) EXCEPT !.done = TRUE]
             name == "verifyEmail"
  <1>1. UNCHANGED <<users, codes, mail, told>> /\ Active(u)
    BY DEF VerifyEmail
  <1>2. PICK r \in DOMAIN codes :
          /\ codes[r].user = u /\ codes[r].kind = "email"
          /\ \/ Begin(w, name, Holding(r, Missed(r), saves)) /\ posted' = posted
             \/ /\ Begin(w, name, [Holding(r, Done(r), loading) EXCEPT !.code = c])
                /\ posted' = posted \cup {<<r, c>>} /\ c = codes[r].code
    BY DEF VerifyEmail, Pending, RowsOf
  <1>3. codes[r] \in Stored(fresh) /\ fresh \in Nat
    BY DEF RowsTyped, CodesIn
  <1>4. Kept(Missed(r), codes[r]) \/ Spent(Missed(r), codes[r])
    BY <1>3, MissedKept
  <1> DEFINE dead == Dead(codes[r])
             done == Done(r)
  <1>5. dead \in Stored(fresh) /\ Kept(dead, codes[r])
    BY <1>3, Copied, Changed
  <1>6. SameCode(done, codes[r]) /\ done.code = codes[r].code
    <2> HIDE DEF dead
    <2> DEFINE x == [dead EXCEPT !.done = TRUE]
    <2>1. SameCode(x, dead) /\ x.code = dead.code
      BY <1>3, <1>5, Changed
    <2>2. x = done
      BY DEF dead
    <2> HIDE DEF x, done
    <2> QED BY <1>5, <2>1, <2>2 DEF Kept, SameCode
  <1>7. saves \in Saving /\ loading \in Loading /\ name # "register" /\ name \in ByCode
    BY PlansTyped, Loads DEF ByCode
  <1>8. told[codes[r].user].active
    BY <1>1, <1>2, ActiveTold
  <1> HIDE DEF Missed, Done, loading
  <1>9. CASE Begin(w, name, Holding(r, Missed(r), saves)) /\ posted' = posted
    <2>1. saves = <<"saveRow">>
      OBVIOUS
    <2> HIDE DEF saves, name
    <2> QED BY <1>1, <1>4, <1>7, <1>8, <1>9, <2>1, SavingTraced
  <1>10. CASE /\ Begin(w, name, [Holding(r, Done(r), loading) EXCEPT !.code = c])
              /\ posted' = posted \cup {<<r, c>>} /\ c = codes[r].code
    <2> HIDE DEF done
    <2>1. Begin(w, name, WithCode(Holding(r, done, loading), c))
      BY <1>10, Zenon DEF WithCode, done
    <2>2. done.kind = "email" /\ Proven(r, done, mail, posted') /\ posted \subseteq posted'
      BY <1>2, <1>6, <1>10 DEF SameCode, Proven
    <2> HIDE DEF name
    <2> QED BY <1>1, <1>6, <1>7, <1>8, <1>10, <2>1, <2>2, EnteredTraced
  <1> QED BY <1>2, <1>9, <1>10

LEMMA ResendEmailTraced ==
  ASSUME IInv, Copies, RowsTyped, Traced, NEW w \in Worker, NEW u, ResendEmail(w, u)
  PROVE  Traced'
  <1> DEFINE plan == <<"saveRow", "revise", "saveRow", "deliver">>
             saves == <<"saveRow">>
             Last(r) == [Dead(Block(codes[r])) EXCEPT !.code = None]
             Row(r) == ResentRow(codes[r])
             name == "resendEmail"
  <1>1. UNCHANGED <<users, codes, mail, told, posted>>
    BY DEF ResendEmail, ghosts
  <1>2. PICK r \in DOMAIN codes :
          \/ Begin(w, name, Holding(r, Last(r), saves))
          \/ Begin(w, name, Holding(r, Row(r), plan))
    BY DEF ResendEmail, Pending, RowsOf, ResentRow
  <1>3. codes[r] \in Stored(fresh) /\ fresh \in Nat
    BY DEF RowsTyped, CodesIn
  <1>4. name \notin SignedIn /\ name # "register"
    BY DEF SignedIn
  <1>5. CASE Begin(w, name, Holding(r, Last(r), saves))
    <2> DEFINE old == Block(codes[r])
               dead == Dead(old)
               none == [dead EXCEPT !.code = None]
    <2>1. old \in Stored(fresh) /\ Kept(old, codes[r])
      BY <1>3, Copied, Changed
    <2> HIDE DEF old
    <2>2. dead \in Stored(fresh) /\ Kept(dead, old)
      BY <1>3, <2>1, Copied, Changed
    <2> HIDE DEF dead
    <2>3. Spent(none, dead)
      BY <1>3, <2>2, Changed
    <2>4. none = Last(r)
      BY DEF dead, old
    <2> HIDE DEF none, Last
    <2>5. Spent(Last(r), codes[r])
      BY <2>1, <2>2, <2>3, <2>4, KeptTwice
    <2>6. saves \in Saving
      BY PlansTyped
    <2> HIDE DEF saves, name
    <2> QED BY <1>1, <1>4, <1>5, <2>5, <2>6, SavingTraced
  <1>6. CASE Begin(w, name, Holding(r, Row(r), plan))
    <2>1. Kept(Row(r), codes[r])
      BY <1>3, NewCoded
    <2>2. plan \in Revising
      BY PlansTyped
    <2> HIDE DEF Row, plan, name
    <2> QED BY <1>1, <1>4, <1>6, <2>1, <2>2, SavingTraced
  <1> QED BY <1>2, <1>5, <1>6

\* Between its two saves a request gives its copy an address, or a code never
\* drawn before.
LEMMA ReviseTraced ==
  ASSUME IInv, Copies, RowsTyped, Traced, NEW w \in Worker, Revise(w)
  PROVE  Traced'
  <1> DEFINE j == jobs[w]
             aimed == PostedRow(j.row, j.to)
             recoded == NewCode(j.row, fresh')
  <1>1. On(w, "revise") /\ UNCHANGED <<users, codes, mail, told, posted>>
    BY DEF Revise, ghosts
  <1>2. \/ Proceed(w, [j EXCEPT !.row = aimed])
        \/ fresh' = fresh + 1 /\ Proceed(w, [j EXCEPT !.row = recoded])
    BY DEF Revise, PostedRow
  <1>3. IsJob(j) /\ Carries(fresh, j) /\ j.plan = <<"revise", "saveRow", "deliver">>
    BY <1>1, ByHead DEF IInv, JobsOK, JobOK, RowsTyped, On
  <1>4. Trusted(j, told, mail, posted)
    BY DEF Traced
  <1>5. Carrying(j) /\ j.row \in Records /\ j.row \in Stored(fresh)
    <2>1. Carrying(j)
      BY <1>3 DEF Carrying, Revising
    <2> QED BY <1>3, <2>1, Zenon DEF Carries, Records
  <1>6. j.row.user \in DOMAIN told
    BY <1>4, <1>5, Zenon DEF Trusted
  <1>7. /\ Kept(aimed, j.row) /\ SameCode(recoded, j.row) /\ recoded.code = fresh' /\ recoded.done = j.row.done
    BY <1>5, NewCoded
  <1>8. PICK row : /\ Proceed(w, [j EXCEPT !.row = row]) /\ SameCode(row, j.row) /\ row.done = j.row.done
                   /\ row.code = j.row.code \/ row.code = fresh + 1
    <2> HIDE DEF aimed, recoded
    <2> QED BY <1>2, <1>7 DEF Kept
  <1>9. Known(row, row)
    BY <1>5, <1>6, <1>8 DEF Known, SameCode
  <1> DEFINE job == [j EXCEPT !.row = row]
             k == Advance(job)
  <1>10. IsJob(job) /\ job.plan = j.plan /\ job.to = j.to /\ job.user = j.user /\ job.rec = j.rec /\ job.row = row
         /\ job.kind = j.kind
    BY <1>3 DEF IsJob, Fields
  <1>11. Proceed(w, job)
    BY <1>8
  <1> HIDE DEF job
  <1>12. Len(j.plan) # 1 /\ Tail(j.plan) = <<"saveRow", "deliver">>
    BY <1>3
  <1>13. /\ k.plan = <<"saveRow", "deliver">> /\ k.to = j.to /\ k.user = j.user /\ k.rec = j.rec /\ k.row = row
         /\ k.kind = j.kind
    <2>1. IsJob(job) /\ Len(job.plan) # 1
      BY <1>10, <1>12
    <2>2. /\ k.plan = Tail(job.plan) /\ k.kind = job.kind /\ k.user = job.user /\ k.rec = job.rec
          /\ k.row = job.row /\ k.to = job.to
      BY <2>1, Fieldwise
    <2> QED BY <1>10, <1>12, <2>2
  <1>14. jobs' = [jobs EXCEPT ![w] = k]
    BY <1>11 DEF Proceed
  <1> HIDE DEF k
  <1>15. ~Trusting(k) /\ k.plan \in Working /\ j.plan \notin Unmade
    BY <1>3, <1>13 DEF Trusting, Loading, Changing, Working, Sending, Unmade
  <1>16. Trusted(k, told, mail, posted)
    BY <1>4, <1>5, <1>8, <1>13, <1>15, TrustedNext
  <1>17. Trusted(k, told', mail', posted') /\ Grows(told, told')
    BY <1>1, <1>16, GrowsNot
  <1> QED BY <1>1, <1>9, <1>13, <1>14, <1>17, TracedStep

LEMMA ChangeTraced ==
  ASSUME IInv, Copies, RowsTyped, Traced, NEW w \in Worker, ChangeStep(w)
  PROVE  Traced'
  BY OpenWindowTraced, ChangePasswordTraced, PostEmailTraced, VerifyEmailTraced, ResendEmailTraced, ReviseTraced
     DEF ChangeStep

LEMMA MintTraced ==
  ASSUME IInv, Copies, RowsTyped, Traced, NEW w \in Worker, Mint(w)
  PROVE  Traced'
  <1> DEFINE j == jobs[w]
             job == [j EXCEPT !.rec = fresh']
             k == Advance(job)
  <1>1. On(w, "mint") /\ Proceed(w, job) /\ UNCHANGED <<users, codes, mail, told, posted>>
    BY DEF Mint, ghosts
  <1>2. j.plan = <<"mint", "record">> /\ IsJob(j)
    BY <1>1, ByHead DEF On, RowsTyped, IInv, JobsOK, JobOK
  <1>3. IsJob(job) /\ job.plan = j.plan /\ job.to = j.to /\ job.user = j.user /\ job.kind = j.kind
    BY <1>2 DEF IsJob, Fields
  <1> HIDE DEF job
  <1>4. Len(job.plan) # 1 /\ Tail(job.plan) = <<"record">>
    <2>1. job.plan = <<"mint", "record">>
      BY <1>2, <1>3
    <2> QED BY <2>1
  <1>5. k.plan = <<"record">> /\ k.kind = j.kind /\ k.user = j.user /\ k.to = j.to
    BY <1>3, <1>4, Fieldwise
  <1> HIDE DEF k
  <1>6. ~Carrying(k)
    BY <1>5 DEF Carrying, Sending, Saving, Revising, Loading, Changing
  <1>7. Trusted(j, told, mail, posted)
    BY DEF Traced
  <1>8. j.plan \notin Working /\ j.plan \notin Unmade
    BY <1>2 DEF Working, Sending, Revising, Loading, Changing, Unmade
  <1>9. k.kind \notin SignedIn
    BY <1>5, <1>7, <1>8, Zenon DEF Trusted
  <1>10. k.kind = "register" => Addressed(told, k.user, k.to)
    BY <1>5, <1>7, <1>8, Zenon DEF Trusted
  <1>11. Trusted(k, told', mail', posted')
    BY <1>1, <1>6, <1>9, <1>10, TrustedIdle
  <1>12. jobs' = [jobs EXCEPT ![w] = k]
    BY <1>1 DEF Proceed, k
  <1> QED BY <1>1, <1>6, <1>11, <1>12, GrowsNot, TracedStep

LEMMA SessionTraced ==
  ASSUME IInv, Copies, RowsTyped, Traced, NEW w \in Worker, SessionStep(w)
  PROVE  Traced'
  <1>1. ASSUME NEW kind \in {"login", "refresh", "logout"}, NEW user, NEW rec,
               NEW plan \in {<<"mint", "record">>, <<"rotate">>, <<"blacklist", "close">>}, NEW job,
               job = [NoJob EXCEPT !.plan = plan, !.user = user] \/ job = [NoJob EXCEPT !.plan = plan, !.user = user, !.rec = rec],
               Begin(w, kind, job), UNCHANGED <<users, codes, mail, told, posted>>
        PROVE  Traced'
    <2>1. IsJob(job) /\ job.plan = plan
      BY <1>1, NoJobOK DEF IsJob, Fields
    <2>2. ~Carrying(job)
      BY <1>1, <2>1 DEF Carrying, Sending, Saving, Revising, Loading, Changing
    <2>3. kind \notin SignedIn /\ kind # "register"
      BY <1>1 DEF SignedIn
    <2> QED BY <1>1, <2>1, <2>2, <2>3, IdleBegins
  <1>2. ASSUME NEW u, NEW p, Login(w, u, p) PROVE Traced'
    <2>1. Begin(w, "login", [NoJob EXCEPT !.plan = <<"mint", "record">>, !.user = u])
      BY <1>2, Zenon DEF Login
    <2>2. UNCHANGED <<users, codes, mail, told, posted>>
      BY <1>2 DEF Login, ghosts
    <2> QED BY <1>1, <2>1, <2>2
  <1>3. ASSUME NEW t, Refresh(w, t) PROVE Traced'
    <2> DEFINE user == tokens[t].user
    <2>1. Begin(w, "refresh", [NoJob EXCEPT !.plan = <<"rotate">>, !.user = user, !.rec = t])
      BY <1>3, Zenon DEF Refresh
    <2>2. UNCHANGED <<users, codes, mail, told, posted>>
      BY <1>3 DEF Refresh, ghosts
    <2> HIDE DEF user
    <2> QED BY <1>1, <2>1, <2>2
  <1>4. ASSUME NEW t, Logout(w, t) PROVE Traced'
    <2> DEFINE user == tokens[t].user
    <2>1. Begin(w, "logout", [NoJob EXCEPT !.plan = <<"blacklist", "close">>, !.user = user, !.rec = t])
      BY <1>4, Zenon DEF Logout
    <2>2. UNCHANGED <<users, codes, mail, told, posted>>
      BY <1>4 DEF Logout, ghosts
    <2> HIDE DEF user
    <2> QED BY <1>1, <2>1, <2>2
  <1>5. ASSUME NEW u, LogoutAll(w, u) PROVE Traced'
    <2>1. UNCHANGED <<users, codes, mail, jobs, told, posted>>
      BY <1>5 DEF LogoutAll, ghosts
    <2> QED BY <2>1, GrowsNot, TracedFrame
  <1>6. CASE Record(w) \/ Rotate(w) \/ Blacklist(w) \/ CloseSession(w)
    <2>1. PICK step \in {"record", "rotate", "blacklist", "close"} : On(w, step) /\ Proceed(w, jobs[w])
      BY <1>6 DEF Record, Rotate, Blacklist, CloseSession
    <2>2. UNCHANGED <<users, codes, mail, told, posted>>
      BY <1>6 DEF Record, Rotate, Blacklist, CloseSession, ghosts
    <2> QED BY <2>1, <2>2, CalmTraced
  <1> QED BY <1>2, <1>3, <1>4, <1>5, <1>6, MintTraced DEF SessionStep

\* Time changes nothing of a record that anything relies on.
LEMMA TimeTraced ==
  ASSUME Copies, RowsTyped, Traced, Time
  PROVE  Traced'
  <1>1. PICK r, row :
          /\ r \in DOMAIN codes
          /\ Pass(r, row)
          /\ \/ row = Dead(codes[r])
             \/ row = [codes[r] EXCEPT !.window = "lapsed"]
             \/ row = [codes[r] EXCEPT !.blocked = FALSE]
             \/ row = [codes[r] EXCEPT !.age = IF @ = "new" THEN "recent" ELSE "old"]
    BY DEF Time, Lapse, Die, Unblock, Age
  <1> DEFINE was == codes[r]
  <1>2. was \in Stored(fresh) /\ fresh \in Nat
    BY <1>1 DEF RowsTyped, CodesIn
  <1> HIDE DEF was
  <1>3. /\ Kept(Dead(was), was) /\ Kept([was EXCEPT !.window = "lapsed"], was)
        /\ Kept([was EXCEPT !.blocked = FALSE], was)
        /\ Kept([was EXCEPT !.age = IF @ = "new" THEN "recent" ELSE "old"], was)
    BY <1>2, Changed
  <1>4. Kept(row, codes[r])
    BY <1>1, <1>3 DEF was
  <1>5. codes' = [codes EXCEPT ![r] = row] /\ UNCHANGED <<users, mail, jobs, told, posted>>
    BY <1>1 DEF Pass, ghosts
  <1>6. Proven(r, row, mail, posted')
    BY <1>1, <1>4, <1>5, KeptProven
  <1>7. Known(row, row)
    <2>1. codes[r] \in Records
      BY <1>1 DEF Records
    <2> QED BY <1>4, <2>1 DEF Known, Kept
  <1>8. \A q \in DOMAIN codes' : \/ q \in DOMAIN codes /\ codes'[q] = codes[q]
                                 \/ Known(codes'[q], row) /\ Proven(q, codes'[q], mail', posted')
    BY <1>1, <1>5, <1>6, <1>7
  <1> QED BY <1>5, <1>8, GrowsNot, TracedFrame

LEMMA NextTraced == IInv /\ Copies /\ RowsTyped /\ Traced /\ [Next]_vars => Traced'
  <1> SUFFICES ASSUME IInv, Copies, RowsTyped, Traced, [Next]_vars PROVE Traced'
    OBVIOUS
  <1>1. CASE UNCHANGED vars
    <2>1. UNCHANGED <<users, codes, mail, jobs, told, posted>>
      BY <1>1 DEF vars
    <2> QED BY <2>1, GrowsNot, TracedFrame
  <1>2. CASE Next
    BY <1>2, RowStepTraced, RegistrationTraced, ChangeTraced, SessionTraced, TimeTraced DEF Next
  <1> QED BY <1>1, <1>2

LEMMA InitTraced == Init => Traced
  <1> SUFFICES ASSUME Init PROVE Traced
    OBVIOUS
  <1> DEFINE n == Len(flow.members)
             Old(i) == [NewRow("register") EXCEPT !.user = i, !.code = n + i, !.window = "dead"]
             Letter(i) == [to |-> flow.members[i], code |-> n + i, user |-> i, kind |-> "register", again |-> FALSE]
  <1>1. flow \in Flows /\ told = users /\ jobs = [w \in Worker |-> NoJob]
    BY Zenon DEF Init
  <1>2. PICK p \in Password : users = [i \in 1..n |-> [email |-> flow.members[i], active |-> TRUE, pw |-> p]]
    BY Zenon DEF Init
  <1>3. codes = [r \in n + 1..2 * n |-> Old(r - n)]
    BY Zenon DEF Init
  <1>4. mail = {Letter(i) : i \in 1..n}
    BY Zenon DEF Init
  <1>5. n \in Nat
    <2>1. flow.members \in Seq(Address)
      BY <1>1, FlowsAssumption
    <2> QED BY <2>1
  <1>6. \A i \in 1..n : Old(i).user = i /\ Old(i).code = n + i /\ Old(i).kind = "register" /\ Old(i).done = FALSE
    BY DEF NewRow
  <1>7. \A i \in 1..n : Letter(i).user = i /\ Letter(i).code = n + i /\ Letter(i).kind = "register"
    OBVIOUS
  <1> HIDE DEF Old, Letter, n
  <1>8. \A w \in Worker : Trusted(jobs[w], told, mail, posted) /\ ~Carrying(jobs[w])
    BY <1>1, NoJobTrusted
  <1>9. /\ DOMAIN told = 1..n /\ \A u \in DOMAIN told : told[u].active = TRUE /\ Account(told[u])
    BY <1>1, <1>2 DEF Account
  <1>10. \A x \in Records : \E i \in 1..n : x.user = i /\ x.code = n + i /\ x.kind = "register" /\ x.done = FALSE
                                            /\ x.to = Old(i).to
    <2>1. \A x \in Records : \E r \in n + 1..2 * n : x = Old(r - n)
      BY <1>3, <1>8 DEF Records
    <2>2. \A r \in n + 1..2 * n : r - n \in 1..n
      BY <1>5
    <2> QED BY <1>6, <2>1, <2>2
  <1>11. OneRecord
    <2>1. \A x, y \in Records : x.code = y.code => SameCode(x, y)
      BY <1>5, <1>10 DEF SameCode
    <2>2. \A x \in Records, m \in mail : m.code = x.code => Announces(m, x)
      BY <1>4, <1>5, <1>7, <1>10 DEF Announces
    <2>3. \A x \in Records : x.user \in DOMAIN told
      BY <1>9, <1>10
    <2> QED BY <2>1, <2>2, <2>3 DEF OneRecord
  <1>12. \A u \in DOMAIN users : Untouched(told, u, users[u])
    BY <1>1, <1>9 DEF Untouched
  <1>13. \A m \in mail : Addressed(told, m.user, m.to)
    BY <1>4, <1>7, <1>9 DEF Addressed
  <1>14. \A r \in DOMAIN codes : Proven(r, codes[r], mail, posted)
    <2>1. \A r \in DOMAIN codes : codes[r].done = FALSE
      BY <1>10 DEF Records
    <2> QED BY <2>1 DEF Proven
  <1> QED BY <1>8, <1>9, <1>11, <1>12, <1>13, <1>14 DEF Traced

-----------------------------------------------------------------------------
\* What is known of a request about to save a User row.
LEMMA AboutToSave ==
  ASSUME Copies, RowsTyped, Traced, NEW w \in Worker, On(w, "saveUser")
  PROVE  /\ Trusted(jobs[w], told, mail, posted) /\ Carrying(jobs[w]) /\ Trusting(jobs[w]) /\ jobs[w].plan \in Changing
         /\ jobs[w].row.user = jobs[w].user /\ jobs[w].user \in DOMAIN told /\ jobs[w].kind \in Savers
         /\ jobs[w].user \notin clash => jobs[w].acct = Change(jobs[w], told[jobs[w].user])
  <1> DEFINE j == jobs[w]
  <1>1. j.plan \in Changing
    BY ByHead DEF RowsTyped, On
  <1>2. Trusted(j, told, mail, posted) /\ Carrying(j) /\ Trusting(j)
    BY <1>1 DEF Traced, Carrying, Trusting
  <1>3. j.row.user = j.user
    BY <1>2, Zenon DEF Trusted
  <1>4. j.plan \notin Seq(Harmless) /\ j.plan \notin Loading
    <2>1. \A p \in Changing : Head(p) = "saveUser" /\ p # <<>>
      BY DEF Changing
    <2>2. \A p \in Seq(Harmless) : p # <<>> => Head(p) # "saveUser"
      BY DEF Harmless
    <2>3. j.plan \notin Loading
      BY <1>1, PlansTyped
    <2> QED BY <1>1, <2>1, <2>2, <2>3
  <1>5. CopyOK(j, told, clash)
    BY DEF Copies
  <1>6. /\ j.user \in DOMAIN told /\ j.kind \in Savers
        /\ j.user \notin clash => j.acct = Change(j, told[j.user])
    BY <1>4, <1>5 DEF CopyOK, Loading
  <1> QED BY <1>1, <1>2, <1>3, <1>6

\* A user's row that is not as it was: made by a registration, or saved by a
\* request.
LEMMA UserChanged ==
  ASSUME RowsTyped, [Next]_vars, NEW u \in DOMAIN users', ~(u \in DOMAIN users /\ users'[u] = users[u])
  PROVE  \/ u \notin DOMAIN users /\ users'[u].active = FALSE
         \/ \E w \in Worker : /\ On(w, "saveUser") /\ jobs[w].user = u /\ users'[u] = jobs[w].acct
                              /\ clash \subseteq clash'
  <1>1. users' # users
    OBVIOUS
  <1>2. PICK w \in Worker : Clear(w) \/ Create(w) \/ SaveUser(w) \/ Deliver(w)
    BY <1>1, UsersStatement
  <1>3. CASE Clear(w) \/ Deliver(w)
    <2>1. \E v : DeleteUser(v)
      BY <1>1, <1>3 DEF Clear, Deliver
    <2> QED BY <2>1, DeletionShrinks
  <1>4. CASE Create(w)
    <2> DEFINE new == [email |-> jobs[w].to, active |-> FALSE, pw |-> jobs[w].pw]
    <2>1. users' = Put(users, fresh', new) /\ fresh' = fresh + 1
      BY <1>1, <1>4 DEF Create
    <2>2. new.active = FALSE
      OBVIOUS
    <2> HIDE DEF new
    <2>3. u = fresh' /\ users'[u] = new
      BY <2>1 DEF Put
    <2>4. fresh' \notin DOMAIN users
      BY <2>1 DEF RowsTyped, UsersIn
    <2> QED BY <2>2, <2>3, <2>4
  <1>5. CASE SaveUser(w)
    <2>1. /\ On(w, "saveUser") /\ users' = Put(users, jobs[w].user, jobs[w].acct)
          /\ clash \subseteq clash'
      BY <1>1, <1>5 DEF SaveUser
    <2> QED BY <2>1 DEF Put
  <1> QED BY <1>2, <1>3, <1>4, <1>5

\* The code a request was given, in the record it holds, was mailed for it.
LEMMA MailedFor ==
  ASSUME Traced, NEW w \in Worker, Trusting(jobs[w]), jobs[w].kind \in ByCode
  PROVE  \E m \in mail : m.code = jobs[w].code /\ Announces(m, jobs[w].row)
  <1> DEFINE j == jobs[w]
  <1>1. Trusted(j, told, mail, posted)
    BY DEF Traced
  <1>2. j.row.code = j.code /\ \E m \in mail : m.code = j.code
    BY <1>1, Zenon DEF Trusted
  <1>3. j.row \in Records
    BY DEF Records, Carrying, Trusting
  <1> QED BY <1>2, <1>3 DEF Traced, OneRecord

\* However the requests of eight views overlap, an account never verified
\* before becomes active only by a code or a link that was mailed to its
\* address for this very row (verifications_views.py:13-59, :64-77), never
\* by one of an earlier registration of the address.
THEOREM ActivatedByMailedCodeHolds == Spec => ActivatedByMailedCode
  <1> DEFINE Mailed == \A u \in DOMAIN users' : users'[u].active /\ ~told[u].active =>
                         \E w \in Worker, m \in mail :
                           /\ jobs[w].user = u /\ On(w, "saveUser")
                           /\ m.code = jobs[w].code /\ m.user = u /\ m.to = users'[u].email
  <1>1. Copies /\ RowsTyped /\ Traced /\ [Next]_vars => Mailed
    <2> SUFFICES ASSUME Copies, RowsTyped, Traced, [Next]_vars, NEW u \in DOMAIN users', users'[u].active, ~told[u].active
                 PROVE  \E w \in Worker, m \in mail :
                          /\ jobs[w].user = u /\ On(w, "saveUser")
                          /\ m.code = jobs[w].code /\ m.user = u /\ m.to = users'[u].email
      OBVIOUS
    <2>1. ~(u \in DOMAIN users /\ users'[u] = users[u])
      BY DEF Traced, Untouched
    <2>2. PICK w \in Worker : On(w, "saveUser") /\ jobs[w].user = u /\ users'[u] = jobs[w].acct
      BY <2>1, UserChanged
    <2> DEFINE j == jobs[w]
    <2>3. Trusted(j, told, mail, posted) /\ Trusting(j) /\ j.plan \in Changing /\ j.row.user = j.user
      BY <2>2, AboutToSave
    <2>4. j.acct.email = told[u].email /\ j.kind \in {"verify", "link"}
      BY <2>2, <2>3, Zenon DEF Trusted
    <2>5. PICK m \in mail : m.code = j.code /\ Announces(m, j.row)
      BY <2>3, <2>4, MailedFor DEF ByCode
    <2>6. m.user = u
      BY <2>2, <2>3, <2>5 DEF Announces
    <2>7. m.to = told[u].email
      BY <2>6 DEF Traced, Addressed
    <2> QED BY <2>2, <2>4, <2>5, <2>6, <2>7
  <1>2. IInv /\ Copies /\ RowsTyped /\ Traced /\ [Next]_vars => [Mailed]_vars
    BY <1>1
  <1> QED BY <1>2, InitInv, NextInv, InitCopies, NextCopies, InitTyped, NextTyped, InitTraced, NextTraced, PTL
       DEF Spec, ActivatedByMailedCode

\* A user's address changes only by a request that holds a code mailed to this
\* user for a change of his address, or by the save of a copy that another
\* request's save had overtaken (change_email_views.py:93-112,
\* verifications_views.py:130-175). Which address that mail went to is the rest
\* of EmailByMailedCode.
THEOREM EmailByOwnCode ==
  Spec => [][\A u \in DOMAIN users \cap DOMAIN users' :
               users'[u].email # users[u].email =>
                 \/ u \in clash'
                 \/ \E w \in Worker, m \in mail :
                      /\ jobs[w].user = u /\ On(w, "saveUser")
                      /\ m.code = jobs[w].code /\ m.user = u /\ m.kind = "email"]_vars
  <1> DEFINE Mailed == \A u \in DOMAIN users \cap DOMAIN users' :
                         users'[u].email # users[u].email =>
                           \/ u \in clash'
                           \/ \E w \in Worker, m \in mail :
                                /\ jobs[w].user = u /\ On(w, "saveUser")
                                /\ m.code = jobs[w].code /\ m.user = u /\ m.kind = "email"
  <1>1. Copies /\ RowsTyped /\ Traced /\ [Next]_vars => Mailed
    <2> SUFFICES ASSUME Copies, RowsTyped, Traced, [Next]_vars, NEW u \in DOMAIN users \cap DOMAIN users',
                        users'[u].email # users[u].email, u \notin clash'
                 PROVE  \E w \in Worker, m \in mail :
                          /\ jobs[w].user = u /\ On(w, "saveUser")
                          /\ m.code = jobs[w].code /\ m.user = u /\ m.kind = "email"
      OBVIOUS
    <2>1. PICK w \in Worker : /\ On(w, "saveUser") /\ jobs[w].user = u /\ users'[u] = jobs[w].acct
                              /\ clash \subseteq clash'
      BY UserChanged
    <2> DEFINE j == jobs[w]
               old == told[u]
    <2>2. Trusted(j, told, mail, posted) /\ Trusting(j) /\ j.row.user = j.user /\ j.kind \in Savers /\ j.acct = Change(j, old)
      BY <2>1, AboutToSave
    <2>3. users[u] = old /\ Account(old)
      BY <2>1 DEF Copies, AcknowledgedKept, ToldOK, Traced
    <2> HIDE DEF old
    <2>4. j.acct.email # old.email
      BY <2>1, <2>3
    <2>5. /\ j.kind \in {"verify", "link"} => j.acct = [old EXCEPT !.active = TRUE]
          /\ j.kind \in {"setForget", "changePassword"} => j.acct = [old EXCEPT !.pw = j.pw]
          /\ j.kind = "verifyEmail" => j.acct = [old EXCEPT !.email = j.row.to]
      BY <2>2 DEF Change
    <2>6. j.kind = "verifyEmail" /\ j.acct.email = j.row.to
      <3>1. j.kind \in {"verify", "link"} \/ j.kind \in {"setForget", "changePassword"} \/ j.kind = "verifyEmail"
        BY <2>2 DEF Savers, Loaders
      <3>2. [old EXCEPT !.active = TRUE].email = old.email /\ [old EXCEPT !.pw = j.pw].email = old.email
            /\ [old EXCEPT !.email = j.row.to].email = j.row.to
        BY <2>3 DEF Account
      <3> QED BY <2>4, <2>5, <3>1, <3>2
    <2>7. j.row.kind = "email"
      BY <2>2, <2>6, Zenon DEF Trusted
    <2>8. PICK m \in mail : m.code = j.code /\ Announces(m, j.row)
      BY <2>2, <2>6, MailedFor DEF ByCode
    <2> QED BY <2>1, <2>2, <2>6, <2>7, <2>8 DEF Announces
  <1>2. IInv /\ Copies /\ RowsTyped /\ Traced /\ [Next]_vars => [Mailed]_vars
    BY <1>1
  <1> QED BY <1>2, InitInv, NextInv, InitCopies, NextCopies, InitTyped, NextTyped, InitTraced, NextTraced, PTL
       DEF Spec

\* A forgotten password is set only by a request whose record had its own
\* code, mailed to this user, typed: not by one whose code a resend replaced,
\* a block cleared or another user was sent (forget_password_views.py:89-132).
THEOREM ResetByMailedCodeHolds == Spec => ResetByMailedCode
  <1> DEFINE Mailed == \A w \in Worker :
                         On(w, "saveUser") /\ jobs[w].kind = "setForget" /\ users' # users =>
                           \E m \in mail :
                             m.user = jobs[w].user /\ m.kind = "forget" /\ <<jobs[w].rec, m.code>> \in posted
  <1>1. Copies /\ RowsTyped /\ Traced => Mailed
    <2> SUFFICES ASSUME Copies, RowsTyped, Traced, NEW w \in Worker, On(w, "saveUser"), jobs[w].kind = "setForget"
                 PROVE  Answered(jobs[w].rec, jobs[w].user, mail, posted)
      BY DEF Answered
    <2>1. Trusted(jobs[w], told, mail, posted) /\ Trusting(jobs[w])
      BY AboutToSave
    <2> QED BY <2>1, Zenon DEF Trusted
  <1>2. IInv /\ Copies /\ RowsTyped /\ Traced /\ [Next]_vars => [Mailed]_vars
    BY <1>1
  <1> QED BY <1>2, InitInv, NextInv, InitCopies, NextCopies, InitTyped, NextTyped, InitTraced, NextTraced, PTL
       DEF Spec, ResetByMailedCode

-----------------------------------------------------------------------------
(* Wrong guesses and the count in a record (attapts).  The count may start *)
(* again only with another code, or with a block that outlasts this one.   *)

\* A code that is not live may become so again only in an e-mail change.
Reopens(x) == x.kind = "email" /\ x.age # "old" /\ ~x.done

\* A record that counts the n guesses made of its code.
Counts(x, n) ==
  x.kind \in {"register", "email"} /\ x.code # None =>
    /\ Live(x) => n <= MaxWrong /\ (x.blocked \/ n <= x.attapts)
    /\ Reopens(x) => n <= MaxWrong /\ n <= x.attapts

\* No guess G of a record was made in a later round.
Within(G, r, x) ==
  x.kind = "email" => x.resend <= MaxResend /\ \A k \in DOMAIN G : k[1] = r => k[2][2] <= x.resend

\* The guesses of record r in round c; and the one a request is to count.
Tally(G, r, c) == IF <<r, c>> \in DOMAIN G THEN G[<<r, c>>] ELSE 0
Missed(j) == j.kind \in {"verify", "verifyEmail"} /\ j.code = None
More(j) == IF Missed(j) THEN 1 ELSE 0

\* A request that will save a record: nobody saved it since it was read from
\* the rows K, unless that is a clash (in C).
SavesRow == {<<"saveRow">>, <<"saveRow", "deliver">>, <<"saveRow", "deliver", "saveRow">>, <<"deliver", "saveRow">>,
             <<"saveRow", "renew", "issue", "saveRow", "deliver">>, <<"saveRow", "revise", "saveRow", "deliver">>,
             <<"revise", "saveRow", "deliver">>, <<"loadUser", "saveUser", "saveRow">>, <<"saveUser", "saveRow">>}
Ahead(x, y) == x.kind = y.kind /\ (x.kind = "email" => y.resend <= x.resend)
CountOK(j, K, G, C) ==
  /\ Missed(j) => j.plan = <<"saveRow">>
  /\ j.plan \in SavesRow /\ j.kind = "resend" => j.row.kind # "email"
  /\ j.plan \in SavesRow /\ j.rec \notin C =>
       /\ Counts(j.row, Tally(G, j.rec, Round(j.row)) + More(j))
       /\ Within(G, j.rec, j.row)
       /\ Missed(j) => j.row.kind \in {"register", "email"}
       /\ j.plan \in Revising => Tally(G, j.rec, Round(j.row)) = 0
       /\ j.rec \in DOMAIN K => Ahead(j.row, K[j.rec])

Guesses(G, n) == DOMAIN G \subseteq (1..n) \X ((1..n) \X Nat) /\ \A k \in DOMAIN G : G[k] \in Nat

Sound(G, r, x) == Counts(x, Tally(G, r, Round(x))) /\ Within(G, r, x)

Tallied ==
  /\ Guesses(guesses, fresh)
  /\ GuessesBounded
  /\ \A r \in DOMAIN codes \ clash : Sound(guesses, r, codes[r])
  /\ \A w \in Worker : CountOK(jobs[w], codes, guesses, clash)

-----------------------------------------------------------------------------
LEMMA TallyNat ==
  ASSUME NEW G, NEW n, Guesses(G, n), NEW r, NEW c
  PROVE  Tally(G, r, c) \in Nat /\ (~(r \in 1..n /\ c \in (1..n) \X Nat) => Tally(G, r, c) = 0)
  BY DEF Tally, Guesses

\* Nobody has guessed a code not drawn yet, nor in a round not begun yet.
LEMMA Unguessed ==
  ASSUME NEW G, NEW n, Guesses(G, n), NEW r, NEW x
  PROVE  /\ x.code \notin 1..n \/ r \notin 1..n => Tally(G, r, Round(x)) = 0
         /\ x.kind = "email" /\ (\A k \in DOMAIN G : k[1] = r => k[2][2] < x.resend) => Tally(G, r, Round(x)) = 0
  <1>1. CASE x.code \notin 1..n \/ r \notin 1..n
    BY <1>1, TallyNat DEF Round
  <1>2. ASSUME x.kind = "email", \A k \in DOMAIN G : k[1] = r => k[2][2] < x.resend
        PROVE  Tally(G, r, Round(x)) = 0
    <2> DEFINE c == <<x.code, x.resend>>
               k == <<r, c>>
    <2>1. Round(x) = c /\ k[1] = r /\ k[2] = c /\ c[2] = x.resend
      BY <1>2 DEF Round
    <2>2. k \notin DOMAIN G
      <3> SUFFICES ASSUME k \in DOMAIN G PROVE FALSE
        OBVIOUS
      <3>1. k[2][2] < x.resend
        BY <1>2, <2>1
      <3>2. x.resend < x.resend
        BY <2>1, <3>1
      <3>3. k \in (1..n) \X ((1..n) \X Nat)
        BY DEF Guesses
      <3>4. x.resend \in Nat
        BY <3>3
      <3> QED BY <3>2, <3>4
    <2> QED BY <2>1, <2>2 DEF Tally
  <1> QED BY <1>1, <1>2

LEMMA CountsFewer ==
  ASSUME NEW n, NEW x \in Stored(n), NEW a \in Nat, NEW b \in Nat, b <= a, Counts(x, a)
  PROVE  Counts(x, b)
  <1>1. x.attapts \in Nat /\ MaxWrong \in Nat
    BY LimitsAssumption DEF Stored
  <1> QED BY <1>1 DEF Counts

\* Records whose code takes no more guesses, and one nobody has guessed.
LEMMA CountsIdle ==
  ASSUME NEW x, NEW a
  PROVE  /\ x.kind \notin {"register", "email"} => Counts(x, a)
         /\ x.code = None => Counts(x, a)
         /\ ~Live(x) /\ ~Reopens(x) => Counts(x, a)
         /\ x.attapts \in Nat => Counts(x, 0)
  BY LimitsAssumption DEF Counts

LEMMA IdlePlans ==
  /\ <<>> \notin SavesRow /\ <<"deliver">> \notin SavesRow /\ <<"loadUser", "saveUser">> \notin SavesRow
  /\ <<"saveUser">> \notin SavesRow /\ <<"renew", "issue", "saveRow", "deliver">> \notin SavesRow
  /\ \A p \in Linking \cup Coding : p \notin SavesRow
  /\ \A p \in Drafting \cup Minting \cup Closing : p \notin SavesRow
  <1>1. /\ <<>> \notin SavesRow /\ <<"deliver">> \notin SavesRow /\ <<"loadUser", "saveUser">> \notin SavesRow
        /\ <<"saveUser">> \notin SavesRow /\ <<"issue">> \notin SavesRow
    BY DEF SavesRow
  <1>2. <<"renew", "issue", "saveRow", "deliver">> \notin SavesRow
    BY DEF SavesRow
  <1>3. \A p \in Linking : p \notin SavesRow
    BY DEF SavesRow, Linking
  <1>4. \A p \in Coding : p \notin SavesRow
    BY DEF SavesRow, Coding
  <1>5. \A p \in Minting \cup Closing : p \notin SavesRow
    BY DEF SavesRow, Minting, Closing
  <1> QED BY <1>1, <1>2, <1>3, <1>4, <1>5 DEF Drafting

LEMMA NoJobCounts == ASSUME NEW K, NEW G, NEW C PROVE CountOK(NoJob, K, G, C)
  <1>1. NoJob.plan = <<>> /\ NoJob.kind = "none"
    BY DEF NoJob
  <1>2. <<>> \notin SavesRow
    BY IdlePlans
  <1> QED BY <1>1, <1>2 DEF CountOK, Missed

\* Who saves a row carries one, and is seen to hold it.
LEMMA SavesCarries ==
  ASSUME NEW n, NEW j, Holds(n, j), j.plan \in SavesRow
  PROVE  /\ Carries(n, j) /\ j.rec \in 1..n /\ j.row \in Stored(n)
         /\ \E i \in DOMAIN j.plan : j.plan[i] = "saveRow" /\ \A k \in 1..i : j.plan[k] # "renew"
  <1>1. j.plan \notin Drafting \cup Minting \cup Closing /\ j.plan # <<>>
    BY IdlePlans
  <1>2. Carries(n, j)
    <2>1. ~Drafts(j)
      BY <1>1, Zenon DEF Drafts
    <2> QED BY <1>1, <2>1, Zenon DEF Holds
  <1>3. j.rec \in 1..n /\ j.row \in Stored(n)
    BY <1>2, Zenon DEF Carries
  <1>4. ASSUME NEW p \in SavesRow PROVE \E i \in DOMAIN p : p[i] = "saveRow" /\ \A k \in 1..i : p[k] # "renew"
    <2>1. CASE p \in {<<"saveRow">>, <<"saveRow", "deliver">>, <<"saveRow", "deliver", "saveRow">>,
                      <<"saveRow", "renew", "issue", "saveRow", "deliver">>, <<"saveRow", "revise", "saveRow", "deliver">>}
      <3>1. 1 \in DOMAIN p /\ p[1] = "saveRow"
        BY <2>1
      <3>2. \A k \in 1..1 : k = 1
        OBVIOUS
      <3>3. \A k \in 1..1 : p[k] # "renew"
        BY <3>1, <3>2
      <3> QED BY <3>1, <3>3
    <2>2. CASE p \in {<<"deliver", "saveRow">>, <<"revise", "saveRow", "deliver">>, <<"saveUser", "saveRow">>}
      <3>1. 2 \in DOMAIN p /\ p[2] = "saveRow" /\ p[1] # "renew"
        BY <2>2
      <3>2. \A k \in 1..2 : k = 1 \/ k = 2
        OBVIOUS
      <3>3. \A k \in 1..2 : p[k] # "renew"
        BY <3>1, <3>2
      <3> QED BY <3>1, <3>3
    <2>3. CASE p = <<"loadUser", "saveUser", "saveRow">>
      <3>1. 3 \in DOMAIN p /\ p[3] = "saveRow" /\ p[1] # "renew" /\ p[2] # "renew"
        BY <2>3
      <3>2. \A k \in 1..3 : k = 1 \/ k = 2 \/ k = 3
        OBVIOUS
      <3>3. \A k \in 1..3 : p[k] # "renew"
        BY <3>1, <3>2
      <3> QED BY <3>1, <3>3
    <2> QED BY <2>1, <2>2, <2>3 DEF SavesRow
  <1> QED BY <1>2, <1>3, <1>4

\* Another request that will save the record of one is seen to hold it.
LEMMA SeenHolding ==
  ASSUME RowsTyped, NEW v \in Worker, jobs[v].plan \in SavesRow
  PROVE  HoldsRow(v, jobs[v].rec)
  <1>1. Holds(fresh, jobs[v])
    BY DEF RowsTyped
  <1>2. \E i \in DOMAIN jobs[v].plan : jobs[v].plan[i] = "saveRow" /\ \A k \in 1..i : jobs[v].plan[k] # "renew"
    BY <1>1, SavesCarries
  <1> QED BY <1>2 DEF HoldsRow

\* A request is in order with fewer rows, and with more clashes.
LEMMA CountStays ==
  ASSUME NEW j, NEW K, NEW L, NEW G, NEW C, NEW D, CountOK(j, K, G, C), C \subseteq D,
         j.plan \in SavesRow /\ j.rec \in DOMAIN L => j.rec \in DOMAIN K /\ L[j.rec] = K[j.rec]
  PROVE  CountOK(j, L, G, D)
  BY DEF CountOK

\* Guesses stay; rows go, or change while nobody is about to save them.
LEMMA TalliedFrame ==
  ASSUME RowsTyped, Tallied, UNCHANGED guesses, clash \subseteq clash', fresh' = fresh \/ fresh' = fresh + 1,
         \A r \in DOMAIN codes' : \/ r \in DOMAIN codes /\ codes'[r] = codes[r]
                                  \/ /\ Sound(guesses, r, codes'[r])
                                     /\ \A v \in Worker : jobs[v].plan \in SavesRow => jobs[v].rec # r,
         \A v \in Worker : jobs'[v] = jobs[v] \/ CountOK(jobs'[v], codes', guesses, clash)
  PROVE  Tallied'
  <1>1. Guesses(guesses', fresh')
    <2>1. fresh \in Nat /\ fresh' \in Nat /\ 1..fresh \subseteq 1..fresh'
      BY AsBefore DEF RowsTyped
    <2> QED BY <2>1 DEF Tallied, Guesses
  <1>2. GuessesBounded'
    BY DEF Tallied, GuessesBounded
  <1>3. \A r \in DOMAIN codes' \ clash' : Sound(guesses', r, codes'[r])
    BY DEF Tallied
  <1>4. ASSUME NEW v \in Worker PROVE CountOK(jobs'[v], codes', guesses', clash')
    <2>1. CASE jobs'[v] = jobs[v]
      BY <2>1, CountStays DEF Tallied
    <2>2. CASE CountOK(jobs'[v], codes', guesses, clash)
      BY <2>2, CountStays
    <2> QED BY <2>1, <2>2
  <1> QED BY <1>1, <1>2, <1>3, <1>4 DEF Tallied

\* The same, when worker w is left with job k.
LEMMA TalliedStep ==
  ASSUME IInv, RowsTyped, Tallied, NEW w \in Worker, NEW k, jobs' = [jobs EXCEPT ![w] = k],
         CountOK(k, codes, guesses, clash), UNCHANGED guesses, clash \subseteq clash', fresh' = fresh \/ fresh' = fresh + 1,
         \A r \in DOMAIN codes' : r \in DOMAIN codes /\ codes'[r] = codes[r]
  PROVE  Tallied'
  <1>1. CountOK(k, codes', guesses, clash)
    BY CountStays
  <1>2. \A v \in Worker : jobs'[v] = IF v = w THEN k ELSE jobs[v]
    BY DEF IInv, JobsOK
  <1> QED BY <1>1, <1>2, TalliedFrame

\* What is left to do after a statement saves a record only if that one did,
\* or inserted it.
LEMMA TailPlans ==
  \A p \in Drafting \cup Sending \cup Saving \cup Revising \cup Loading \cup Changing \cup Minting \cup Closing :
    Len(p) # 1 /\ Head(p) # "issue" /\ Tail(p) \in SavesRow =>
      p \in SavesRow /\ (Tail(p) \in Revising => p \in Revising)
  <1>1. ASSUME NEW p \in Drafting, Len(p) # 1, Head(p) # "issue" PROVE Tail(p) \notin SavesRow
    <2>1. CASE p = <<"clear", "create", "issue", "deliver">>
      BY <2>1, Shorter DEF SavesRow
    <2>2. CASE p = <<"create", "issue", "deliver">>
      BY <2>2, Shorter DEF SavesRow
    <2>3. CASE p = <<"clear", "create", "issue", "saveRow", "deliver">>
      BY <2>3, Shorter DEF SavesRow
    <2>4. CASE p = <<"create", "issue", "saveRow", "deliver">>
      BY <2>4, Shorter DEF SavesRow
    <2>5. p \notin {<<"issue", "deliver">>, <<"issue", "saveRow", "deliver">>, <<"issue">>}
      BY <1>1
    <2> QED BY <2>1, <2>2, <2>3, <2>4, <2>5 DEF Drafting, Linking, Coding
  <1>2. ASSUME NEW p \in Minting \cup Closing, Len(p) # 1 PROVE Tail(p) \notin SavesRow
    <2>1. CASE p = <<"mint", "record">>
      BY <2>1, Shorter DEF SavesRow
    <2>2. CASE p = <<"blacklist", "close">>
      BY <2>2, Shorter DEF SavesRow
    <2> QED BY <1>2, <2>1, <2>2, Shorter DEF Minting, Closing
  <1>3. ASSUME NEW p \in Sending \cup Saving \cup Loading \cup Changing, Len(p) # 1, Tail(p) \in SavesRow
        PROVE  p \in SavesRow /\ Tail(p) \notin Revising
    <2>1. CASE p = <<"saveRow", "deliver", "saveRow">>
      BY <2>1, Shorter DEF SavesRow, Revising
    <2>2. CASE p = <<"deliver", "saveRow">>
      BY <2>2, Shorter DEF SavesRow, Revising
    <2>3. CASE p = <<"saveRow", "deliver">>
      BY <2>3, Shorter DEF SavesRow, Revising
    <2>4. CASE p = <<"saveRow", "renew", "issue", "saveRow", "deliver">>
      BY <1>3, <2>4, Shorter DEF SavesRow
    <2>5. CASE p = <<"renew", "issue", "saveRow", "deliver">>
      BY <1>3, <2>5, Shorter DEF SavesRow
    <2>6. CASE p = <<"loadUser", "saveUser", "saveRow">>
      BY <2>6, Shorter DEF SavesRow, Revising
    <2>7. CASE p = <<"loadUser", "saveUser">>
      BY <1>3, <2>7, Shorter DEF SavesRow
    <2>8. CASE p = <<"saveUser", "saveRow">>
      BY <2>8, Shorter DEF SavesRow, Revising
    <2>9. p \notin {<<"deliver">>, <<"saveRow">>, <<"saveUser">>}
      BY <1>3, Shorter
    <2> QED BY <2>1, <2>2, <2>3, <2>4, <2>5, <2>6, <2>7, <2>8, <2>9 DEF Sending, Saving, Loading, Changing
  <1>4. Revising \subseteq SavesRow
    BY DEF Revising, SavesRow
  <1> QED BY <1>1, <1>2, <1>3, <1>4

\* A row that counts what another does, in the same round.
AsCounted(x, y) ==
  /\ x.kind = y.kind /\ x.code = y.code /\ (x.kind = "email" => x.resend = y.resend)
  /\ \A a \in Nat : Counts(y, a) => Counts(x, a)

LEMMA SameRound ==
  ASSUME NEW x, NEW y, AsCounted(x, y)
  PROVE  /\ Round(x) = Round(y)
         /\ \A G, r : Within(G, r, y) => Within(G, r, x)
         /\ \A z : Ahead(y, z) => Ahead(x, z)
  BY DEF AsCounted, Round, Within, Ahead

\* A request, h before the statement and job after, goes on.
LEMMA CountOn ==
  ASSUME NEW n, NEW h, Holds(n, h), h.plan # <<>>, Head(h.plan) # "issue", NEW job, IsJob(job), job.plan = h.plan,
         NEW K, NEW G, NEW C, Guesses(G, n), CountOK(h, K, G, C), job.kind = h.kind, job.code = h.code,
         h.plan \in SavesRow => job.rec = h.rec /\ AsCounted(job.row, h.row)
  PROVE  /\ CountOK(Advance(job), K, G, C)
         /\ Advance(job).plan \in SavesRow =>
              /\ h.plan \in SavesRow /\ Advance(job).rec = job.rec /\ Advance(job).row = job.row
              /\ ~Missed(Advance(job)) /\ ~Missed(h)
              /\ Advance(job).plan \in Revising => h.plan \in Revising
              /\ Advance(job).kind = h.kind
  <1> DEFINE k == Advance(job)
  <1>1. CASE Len(job.plan) = 1
    <2>1. NoJob.plan \notin SavesRow
      BY IdlePlans DEF NoJob
    <2> QED BY <1>1, <2>1, NoJobCounts DEF Advance
  <1>2. CASE Len(job.plan) # 1
    <2>1. k.plan = Tail(h.plan) /\ k.kind = job.kind /\ k.code = job.code /\ k.rec = job.rec /\ k.row = job.row
      BY <1>2, Fieldwise
    <2> HIDE DEF k
    <2>2. h.plan \in Drafting \cup Sending \cup Saving \cup Revising \cup Loading \cup Changing \cup Minting \cup Closing
      <3>1. Drafts(h) => h.plan \in Drafting
        BY Zenon DEF Drafts
      <3>2. Carries(n, h) => h.plan \in Sending \cup Saving \cup Revising \cup Loading \cup Changing
        BY Zenon DEF Carries
      <3> QED BY <3>1, <3>2 DEF Holds
    <2>3. k.plan \in SavesRow => h.plan \in SavesRow /\ (k.plan \in Revising => h.plan \in Revising)
      BY <1>2, <2>1, <2>2, TailPlans
    <2>4. ~Missed(h) /\ ~Missed(k) /\ More(h) = 0 /\ More(k) = 0
      <3>1. Len(<<"saveRow">>) = 1
        OBVIOUS
      <3>2. ~Missed(h)
        BY <1>2, <3>1 DEF CountOK
      <3> QED BY <2>1, <3>2 DEF Missed, More
    <2>5. CountOK(k, K, G, C)
      <3>6. k.plan \in SavesRow /\ k.kind = "resend" => k.row.kind # "email"
        BY <2>1, <2>3 DEF CountOK, AsCounted
      <3> SUFFICES ASSUME k.plan \in SavesRow, k.rec \notin C
                   PROVE  /\ Counts(k.row, Tally(G, k.rec, Round(k.row)) + More(k))
                          /\ Within(G, k.rec, k.row)
                          /\ k.plan \in Revising => Tally(G, k.rec, Round(k.row)) = 0
                          /\ k.rec \in DOMAIN K => Ahead(k.row, K[k.rec])
        BY <2>4, <3>6 DEF CountOK
      <3>1. /\ Counts(h.row, Tally(G, h.rec, Round(h.row)) + More(h))
            /\ Within(G, h.rec, h.row)
            /\ h.plan \in Revising => Tally(G, h.rec, Round(h.row)) = 0
            /\ h.rec \in DOMAIN K => Ahead(h.row, K[h.rec])
        BY <2>1, <2>3 DEF CountOK
      <3>2. k.rec = h.rec /\ AsCounted(k.row, h.row)
        BY <2>1, <2>3
      <3>3. /\ Round(k.row) = Round(h.row) /\ (Within(G, h.rec, h.row) => Within(G, h.rec, k.row))
            /\ \A z : Ahead(h.row, z) => Ahead(k.row, z)
        BY <3>2, SameRound
      <3>4. Tally(G, h.rec, Round(h.row)) + More(h) \in Nat
        BY <2>4, TallyNat
      <3>5. k.row.kind = h.row.kind /\ \A a \in Nat : Counts(h.row, a) => Counts(k.row, a)
        BY <3>2 DEF AsCounted
      <3> QED BY <2>1, <2>3, <2>4, <3>1, <3>2, <3>3, <3>4, <3>5
    <2> QED BY <2>1, <2>3, <2>4, <2>5 DEF k
  <1> QED BY <1>1, <1>2

\* The request of worker w goes on, or stops; it saves no record.
LEMMA GoesOnTallied ==
  ASSUME IInv, RowsTyped, Tallied, NEW w \in Worker, NEW job, IsJob(job), job.plan = jobs[w].plan,
         Stop(w) \/ (jobs[w].plan # <<>> /\ Head(jobs[w].plan) # "issue" /\ Proceed(w, job)),
         job.kind = jobs[w].kind, job.code = jobs[w].code,
         jobs[w].plan \in SavesRow => job.rec = jobs[w].rec /\ AsCounted(job.row, jobs[w].row),
         UNCHANGED guesses, clash \subseteq clash', fresh' = fresh \/ fresh' = fresh + 1,
         \A r \in DOMAIN codes' : r \in DOMAIN codes /\ codes'[r] = codes[r]
  PROVE  Tallied'
  <1>1. CASE Stop(w)
    <2>1. jobs' = [jobs EXCEPT ![w] = NoJob] /\ CountOK(NoJob, codes, guesses, clash)
      BY <1>1, NoJobCounts DEF Stop
    <2> QED BY <2>1, TalliedStep
  <1>2. CASE jobs[w].plan # <<>> /\ Head(jobs[w].plan) # "issue" /\ Proceed(w, job)
    <2> DEFINE k == Advance(job)
    <2>1. Holds(fresh, jobs[w]) /\ Guesses(guesses, fresh) /\ CountOK(jobs[w], codes, guesses, clash)
      BY DEF RowsTyped, Tallied
    <2>2. CountOK(k, codes, guesses, clash)
      BY <1>2, <2>1, CountOn
    <2>3. jobs' = [jobs EXCEPT ![w] = k]
      BY <1>2 DEF Proceed
    <2> HIDE DEF k
    <2> QED BY <2>2, <2>3, TalliedStep
  <1> QED BY <1>1, <1>2

LEMMA SelfCounted == ASSUME NEW x PROVE AsCounted(x, x)
  BY DEF AsCounted

\* What it holds in memory of a record it leaves as it is.
LEMMA CalmTallied ==
  ASSUME IInv, RowsTyped, Tallied, NEW w \in Worker, NEW step, step # "issue",
         Stop(w) \/ (On(w, step) /\ Proceed(w, jobs[w])),
         UNCHANGED guesses, clash \subseteq clash', fresh' = fresh \/ fresh' = fresh + 1,
         \A r \in DOMAIN codes' : r \in DOMAIN codes /\ codes'[r] = codes[r]
  PROVE  Tallied'
  <1>1. IsJob(jobs[w])
    BY DEF IInv, JobsOK, JobOK
  <1>2. Stop(w) \/ (jobs[w].plan # <<>> /\ Head(jobs[w].plan) # "issue" /\ Proceed(w, jobs[w]))
    BY DEF On
  <1> DEFINE j == jobs[w]
             row == j.row
  <1>3. AsCounted(row, row)
    BY SelfCounted
  <1> QED BY <1>1, <1>2, <1>3, GoesOnTallied

LEMMA CreateTallied ==
  ASSUME IInv, RowsTyped, Tallied, NEW w \in Worker, Create(w)
  PROVE  Tallied'
  <1> DEFINE j == jobs[w]
             n == fresh'
             job == [j EXCEPT !.user = n]
  <1>1. On(w, "create") /\ UNCHANGED <<codes, guesses, clash>> /\ (fresh' = fresh \/ fresh' = fresh + 1)
        /\ (Stop(w) \/ Proceed(w, job))
    BY DEF Create
  <1>2. IsJob(j)
    BY DEF IInv, JobsOK, JobOK
  <1> HIDE DEF n
  <1>3. IsJob(job) /\ job.plan = j.plan /\ job.kind = j.kind /\ job.code = j.code /\ job.rec = j.rec /\ job.row = j.row
    BY <1>2 DEF IsJob, Fields
  <1> HIDE DEF job
  <1>4. AsCounted(job.row, j.row)
    BY <1>3, SelfCounted
  <1> QED BY <1>1, <1>3, <1>4, GoesOnTallied DEF On

LEMMA LoadUserTallied ==
  ASSUME IInv, RowsTyped, Tallied, NEW w \in Worker, LoadUser(w)
  PROVE  Tallied'
  <1> DEFINE j == jobs[w]
             to == users[j.user].email
             acct == CASE j.kind \in {"verify", "link"} -> [users[j.user] EXCEPT !.active = TRUE]
                       [] j.kind = "setForget"          -> [users[j.user] EXCEPT !.pw = j.pw]
                       [] j.kind = "verifyEmail"        -> [users[j.user] EXCEPT !.email = j.row.to]
             job == [j EXCEPT !.to = to, !.acct = acct]
  <1>1. On(w, "loadUser") /\ UNCHANGED <<codes, guesses, clash, fresh>>
    BY DEF LoadUser, ghosts
  <1>2. Stop(w) \/ Proceed(w, job)
    BY Zenon DEF LoadUser
  <1>3. IsJob(j)
    BY DEF IInv, JobsOK, JobOK
  <1> HIDE DEF to, acct
  <1>4. IsJob(job) /\ job.plan = j.plan /\ job.kind = j.kind /\ job.code = j.code /\ job.rec = j.rec /\ job.row = j.row
    BY <1>3 DEF IsJob, Fields
  <1> HIDE DEF job
  <1>5. AsCounted(job.row, j.row)
    BY <1>4, SelfCounted
  <1> QED BY <1>1, <1>2, <1>4, <1>5, GoesOnTallied DEF On

\* A record sent again counts its resend, and its guesses as before.
LEMMA MoreSent ==
  ASSUME NEW n, NEW row \in Stored(n), row.kind # "email"
  PROVE  AsCounted([row EXCEPT !.resend = @ + 1], row)
  <1> DEFINE x == [row EXCEPT !.resend = @ + 1]
  <1>1. /\ x.kind = row.kind /\ x.code = row.code /\ x.window = row.window /\ x.blocked = row.blocked
        /\ x.attapts = row.attapts /\ x.age = row.age /\ x.done = row.done
    BY DEF Stored
  <1> HIDE DEF x
  <1>2. (Live(x) <=> Live(row)) /\ (Reopens(x) <=> Reopens(row))
    BY <1>1 DEF Live, Reopens
  <1>3. \A a : Counts(row, a) => Counts(x, a)
    BY <1>1, <1>2, Zenon DEF Counts
  <1> QED BY <1>1, <1>3 DEF AsCounted, x

LEMMA DeliverTallied ==
  ASSUME IInv, RowsTyped, Tallied, NEW w \in Worker, Deliver(w)
  PROVE  Tallied'
  <1> DEFINE j == jobs[w]
             row == [j.row EXCEPT !.resend = @ + 1]
             more == [j EXCEPT !.row = row]
  <1>1. On(w, "deliver") /\ UNCHANGED <<fresh, guesses, clash>>
    BY DEF Deliver, ghosts
  <1>2. /\ codes' = codes \/ DeleteUser(j.user)
        /\ Proceed(w, j) \/ (j.kind = "resend" /\ Proceed(w, more)) \/ Stop(w)
    BY DEF Deliver
  <1>3. IsJob(j) /\ Carries(fresh, j)
    BY <1>1, ByHead DEF IInv, JobsOK, JobOK, RowsTyped, On
  <1>4. \A r \in DOMAIN codes' : r \in DOMAIN codes /\ codes'[r] = codes[r]
    BY <1>2, DeletionShrinks
  <1>5. CASE Proceed(w, j) \/ Stop(w)
    BY <1>1, <1>4, <1>5, CalmTallied
  <1>6. CASE j.kind = "resend" /\ Proceed(w, more)
    <2> DEFINE old == j.row
    <2>1. old \in Stored(fresh) /\ row = [old EXCEPT !.resend = @ + 1]
      BY <1>3, Zenon DEF Carries
    <2> HIDE DEF old, row
    <2>2. old.kind # "email" => AsCounted(row, old)
      BY <2>1, MoreSent
    <2>3. IsJob(more) /\ more.plan = j.plan /\ more.kind = j.kind /\ more.code = j.code /\ more.rec = j.rec /\ more.row = row
      BY <1>3 DEF IsJob, Fields
    <2> HIDE DEF more
    <2>4. j.plan \in SavesRow => old.kind # "email"
      BY <1>6 DEF Tallied, CountOK, old
    <2>5. j.plan \in SavesRow => AsCounted(more.row, j.row)
      BY <2>2, <2>3, <2>4 DEF old
    <2> QED BY <1>1, <1>4, <1>6, <2>3, <2>5, GoesOnTallied DEF On
  <1> QED BY <1>2, <1>5, <1>6

\* The new record has a code nobody has guessed, or none.
LEMMA IssueTallied ==
  ASSUME IInv, RowsTyped, Tallied, NEW w \in Worker, Issue(w)
  PROVE  Tallied'
  <1> DEFINE j == jobs[w]
             n == fresh'
             code == IF j.row.kind = "link" THEN n ELSE None
             row == [j.row EXCEPT !.user = j.user, !.code = code]
             drawn == IF row.kind \in OtpKinds THEN NewCode(row, n) ELSE row
             job == [j EXCEPT !.rec = n, !.row = drawn]
             k == Advance(job)
  <1>1. On(w, "issue") /\ n = fresh + 1 /\ UNCHANGED <<guesses, clash>>
    BY DEF Issue, ghosts
  <1>2. \/ codes' = Put(codes, n, row) /\ Proceed(w, job)
        \/ Stop(w) /\ codes' = codes
    BY Zenon DEF Issue
  <1>3. CASE Stop(w) /\ codes' = codes
    <2> DEFINE step == "clear"
    <2>1. step # "issue" /\ (Stop(w) \/ (On(w, step) /\ Proceed(w, jobs[w])))
      BY <1>3
    <2>2. \A r \in DOMAIN codes' : r \in DOMAIN codes /\ codes'[r] = codes[r]
      BY <1>3
    <2> HIDE DEF step
    <2> QED BY <1>1, <2>1, <2>2, CalmTallied
  <1>4. CASE codes' = Put(codes, n, row) /\ Proceed(w, job)
    <2>1. IsJob(j) /\ Drafts(j) /\ j.plan \in {<<"issue", "deliver">>, <<"issue", "saveRow", "deliver">>, <<"issue">>}
      BY <1>1, ByHead DEF IInv, JobsOK, JobOK, RowsTyped, On
    <2>2. PICK kind \in Kinds : j.row = NewRow(kind) /\ (j.plan \in Coding => kind \in OtpKinds)
      BY <2>1, Zenon DEF Drafts
    <2>3. row.attapts = 0 /\ row.resend = 0 /\ row.kind = kind
      <3> HIDE DEF code
      <3> QED BY <2>2 DEF NewRow
    <2>4. drawn.attapts = 0 /\ drawn.resend = 0 /\ drawn.kind = kind
      <3> HIDE DEF code, n
      <3>1. CASE kind \in OtpKinds
        <4>1. drawn = NewCode(row, n)
          BY <2>3, <3>1
        <4>2. /\ NewCode(row, n).attapts = row.attapts /\ NewCode(row, n).resend = row.resend
              /\ NewCode(row, n).kind = row.kind
          BY <2>2 DEF NewCode, NewRow
        <4> QED BY <2>3, <4>1, <4>2
      <3>2. CASE kind \notin OtpKinds
        BY <2>3, <3>2
      <3> QED BY <3>1, <3>2
    <2>5. fresh \in Nat /\ n \notin 1..fresh /\ n \in 1..n /\ Guesses(guesses, fresh)
      BY <1>1 DEF RowsTyped, Tallied
    <2> HIDE DEF row, drawn, n
    <2>6. \A r \in DOMAIN guesses : r[1] # n
      BY <2>5 DEF Guesses
    <2>7. ASSUME NEW x, x.attapts = 0, x.resend = 0, x.kind = kind
          PROVE  Sound(guesses, n, x) /\ Tally(guesses, n, Round(x)) = 0
      <3>1. Tally(guesses, n, Round(x)) = 0
        BY <2>5, Unguessed
      <3>2. Counts(x, 0)
        BY <2>7, CountsIdle
      <3>3. Within(guesses, n, x)
        BY <2>6, <2>7, LimitsAssumption DEF Within
      <3> QED BY <3>1, <3>2, <3>3 DEF Sound
    <2>8. Sound(guesses, n, row) /\ Sound(guesses, n, drawn) /\ Tally(guesses, n, Round(drawn)) = 0 /\ Ahead(drawn, row)
      BY <2>3, <2>4, <2>7 DEF Ahead
    <2>9. \A v \in Worker : jobs[v].plan \in SavesRow => jobs[v].rec # n
      <3>1. \A v \in Worker : Holds(fresh, jobs[v])
        BY DEF RowsTyped
      <3>2. \A v \in Worker : jobs[v].plan \in SavesRow => jobs[v].rec \in 1..fresh
        BY <3>1, SavesCarries
      <3> QED BY <2>5, <3>2
    <2>10. \A r \in DOMAIN codes' : \/ r \in DOMAIN codes /\ codes'[r] = codes[r]
                                    \/ /\ Sound(guesses, r, codes'[r])
                                       /\ \A v \in Worker : jobs[v].plan \in SavesRow => jobs[v].rec # r
      BY <1>4, <2>8, <2>9 DEF Put
    <2>11. IsJob(job) /\ job.plan = j.plan /\ job.kind = j.kind /\ job.code = j.code /\ job.rec = n /\ job.row = drawn
      BY <2>1 DEF IsJob, Fields
    <2> HIDE DEF job
    <2>12. CountOK(k, codes', guesses, clash)
      <3>1. CASE j.plan = <<"issue">>
        <4>1. k = NoJob
          BY <2>11, <3>1 DEF Advance
        <4> HIDE DEF k
        <4> QED BY <4>1, NoJobCounts
      <3>2. CASE j.plan \in {<<"issue", "deliver">>, <<"issue", "saveRow", "deliver">>}
        <4>1. Len(j.plan) # 1 /\ (j.plan = <<"issue", "deliver">> => Tail(j.plan) = <<"deliver">>)
              /\ (j.plan = <<"issue", "saveRow", "deliver">> => Tail(j.plan) = <<"saveRow", "deliver">>)
          <5>1. CASE j.plan = <<"issue", "deliver">>
            BY <5>1
          <5>2. CASE j.plan = <<"issue", "saveRow", "deliver">>
            BY <5>2
          <5> QED BY <3>2, <5>1, <5>2
        <4>2. k.plan = Tail(j.plan) /\ k.kind = j.kind /\ k.code = j.code /\ k.rec = n /\ k.row = drawn
          BY <2>11, <4>1, Fieldwise
        <4> HIDE DEF k
        <4>3. ~Missed(j)
          <5>1. CountOK(j, codes, guesses, clash)
            BY DEF Tallied
          <5>2. j.plan # <<"saveRow">>
            BY <3>2
          <5> QED BY <5>1, <5>2 DEF CountOK
        <4>4. ~Missed(k) /\ More(k) = 0
          BY <4>2, <4>3 DEF Missed, More
        <4>5. CASE j.plan = <<"issue", "deliver">>
          BY <4>1, <4>2, <4>4, <4>5, IdlePlans DEF CountOK
        <4>6. CASE j.plan = <<"issue", "saveRow", "deliver">>
          <5>1. kind # "email"
            BY <2>2, <4>6 DEF Coding, OtpKinds
          <5>2. k.row.kind # "email" /\ codes'[n] = row
            BY <1>4, <2>4, <4>2, <5>1 DEF Put
          <5>3. Counts(k.row, Tally(guesses, k.rec, Round(k.row)) + More(k))
            BY <2>8, <4>2, <4>4 DEF Sound
          <5>4. Within(guesses, k.rec, k.row)
            BY <2>8, <4>2 DEF Sound
          <5>5. k.rec \in DOMAIN codes' => Ahead(k.row, codes'[k.rec])
            BY <2>8, <4>2, <5>2
          <5>6. Tally(guesses, k.rec, Round(k.row)) = 0
            BY <2>8, <4>2
          <5> QED BY <4>4, <5>2, <5>3, <5>4, <5>5, <5>6 DEF CountOK
        <4> QED BY <3>2, <4>5, <4>6 DEF k
      <3> QED BY <2>1, <3>1, <3>2
    <2>13. \A v \in Worker : jobs'[v] = IF v = w THEN k ELSE jobs[v]
      BY <1>4 DEF IInv, JobsOK, Proceed
    <2> HIDE DEF k
    <2>14. \A v \in Worker : jobs'[v] = jobs[v] \/ CountOK(jobs'[v], codes', guesses, clash)
      BY <2>12, <2>13
    <2> QED BY <1>1, <2>10, <2>14, TalliedFrame DEF n
  <1> QED BY <1>2, <1>3, <1>4

\* A guess is counted; other records' guesses stay.
LEMMA Guessed ==
  ASSUME NEW n \in Nat, NEW G, Guesses(G, n), NEW r \in 1..n, NEW c \in (1..n) \X Nat
  PROVE  LET H == Put(G, <<r, c>>, Tally(G, r, c) + 1) IN
         /\ Guesses(H, n)
         /\ \A k \in DOMAIN H : (k = <<r, c>> /\ H[k] = Tally(G, r, c) + 1) \/ (k \in DOMAIN G /\ H[k] = G[k])
         /\ \A q, d : q # r => Tally(H, q, d) = Tally(G, q, d)
         /\ \A d : Tally(H, r, d) \in Nat /\ Tally(H, r, d) <= Tally(G, r, d) + 1
  <1> DEFINE t == Tally(G, r, c)
             x == <<r, c>>
             H == Put(G, x, t + 1)
  <1>1. \A q, d : Tally(G, q, d) \in Nat
    BY TallyNat
  <1>2. t \in Nat /\ x \in (1..n) \X ((1..n) \X Nat)
    BY <1>1
  <1>3. \A q, d : <<q, d>> = x => q = r /\ d = c
    OBVIOUS
  <1>4. \A q, d : Tally(H, q, d) = IF <<q, d>> = x THEN t + 1 ELSE Tally(G, q, d)
    <2> HIDE DEF t, x
    <2> QED BY DEF Tally, Put
  <1>5. DOMAIN H = DOMAIN G \cup {x} /\ \A k \in DOMAIN H : H[k] = IF k = x THEN t + 1 ELSE G[k]
    <2> HIDE DEF t, x
    <2> QED BY DEF Put
  <1> HIDE DEF H
  <1>6. Guesses(H, n)
    <2> HIDE DEF t, x
    <2> QED BY <1>2, <1>5 DEF Guesses
  <1>7. \A k \in DOMAIN H : (k = x /\ H[k] = t + 1) \/ (k \in DOMAIN G /\ H[k] = G[k])
    <2> HIDE DEF t, x
    <2> QED BY <1>5
  <1>8. \A q, d : q # r => Tally(H, q, d) = Tally(G, q, d)
    <2> HIDE DEF t
    <2> QED BY <1>3, <1>4
  <1>9. ASSUME NEW d PROVE Tally(H, r, d) \in Nat /\ Tally(H, r, d) <= Tally(G, r, d) + 1
    <2>1. CASE <<r, d>> = x
      <3>1. d = c
        BY <1>3, <2>1
      <3>2. Tally(H, r, d) = t + 1 /\ Tally(G, r, d) = t
        BY <1>4, <2>1, <3>1
      <3> HIDE DEF t
      <3> QED BY <1>2, <3>2
    <2>2. CASE <<r, d>> # x
      <3>1. Tally(H, r, d) = Tally(G, r, d) /\ Tally(G, r, d) \in Nat
        BY <1>1, <1>4, <2>2
      <3> QED BY <3>1
    <2> QED BY <2>1, <2>2
  <1> QED BY <1>6, <1>7, <1>8, <1>9 DEF H

\* A record is saved.  The guess its request counts is of a live code, so one
\* that could still be guessed; whoever else holds the record has a clash now.
LEMMA SaveRowTallied ==
  ASSUME IInv, RowsTyped, Tallied, NEW w \in Worker, SaveRow(w)
  PROVE  Tallied'
  <1> DEFINE j == jobs[w]
             r == j.rec
             y == j.row
             c == Round(codes[r])
             counted == Missed(j) /\ r \in DOMAIN codes /\ Live(codes[r]) /\ codes[r].code # None
             k == Advance(j)
  <1>1. On(w, "saveRow") /\ UNCHANGED fresh
    BY DEF SaveRow
  <1>2. \/ Stop(w) /\ UNCHANGED <<codes, clash, guesses>>
        \/ /\ codes' = Put(codes, r, y)
           /\ clash \subseteq clash' /\ ((\E v \in Worker \ {w} : HoldsRow(v, r)) => r \in clash')
           /\ guesses' = IF counted THEN Put(guesses, <<r, c>>, Tally(guesses, r, c) + 1) ELSE guesses
           /\ Proceed(w, j)
    <2> HIDE DEF j
    <2>1. CASE ~Has(j.user)
      BY <2>1 DEF SaveRow, j
    <2>2. CASE Has(j.user)
      <3>1. /\ codes' = Put(codes, r, y) /\ Proceed(w, j)
            /\ clash' = clash \cup (IF \E v \in Worker \ {w} : HoldsRow(v, r) THEN {r} ELSE {})
        BY <2>2 DEF SaveRow, j
      <3>2. guesses' = IF counted
                       THEN Put(guesses, <<r, c>>, (IF <<r, c>> \in DOMAIN guesses THEN guesses[<<r, c>>] ELSE 0) + 1)
                       ELSE guesses
        BY <2>2, Zenon DEF SaveRow, Missed, j
      <3>3. guesses' = IF counted THEN Put(guesses, <<r, c>>, Tally(guesses, r, c) + 1) ELSE guesses
        BY <3>2, Zenon DEF Tally
      <3> QED BY <3>1, <3>3
    <2> QED BY <2>1, <2>2
  <1>3. CASE Stop(w) /\ UNCHANGED <<codes, clash, guesses>>
    <2> HIDE DEF j, counted, c
    <2> QED BY <1>1, <1>3, CalmTallied
  <1>4. CASE /\ codes' = Put(codes, r, y)
             /\ clash \subseteq clash' /\ ((\E v \in Worker \ {w} : HoldsRow(v, r)) => r \in clash')
             /\ guesses' = IF counted THEN Put(guesses, <<r, c>>, Tally(guesses, r, c) + 1) ELSE guesses
             /\ Proceed(w, j)
    <2>1. /\ Holds(fresh, j) /\ Carries(fresh, j) /\ IsJob(j) /\ CountOK(j, codes, guesses, clash)
          /\ j.plan # <<>> /\ Head(j.plan) = "saveRow"
      BY <1>1, ByHead DEF IInv, JobsOK, JobOK, RowsTyped, On, Tallied
    <2>2. j.plan \in SavesRow
      <3>1. j.plan \in Sending \cup Saving \cup Revising \cup Loading \cup Changing
        BY <2>1, Zenon DEF Carries
      <3>2. \A p \in Sending \cup Saving \cup Revising \cup Loading \cup Changing : Head(p) = "saveRow" => p \in SavesRow
        BY DEF Sending, Saving, Revising, Loading, Changing, SavesRow
      <3> QED BY <2>1, <3>1, <3>2
    <2>3. r \in 1..fresh /\ y \in Stored(fresh) /\ fresh \in Nat /\ CodesIn(codes, fresh) /\ Guesses(guesses, fresh)
      <3>1. r \in 1..fresh /\ y \in Stored(fresh)
        BY <2>1, Zenon DEF Carries
      <3> QED BY <3>1 DEF RowsTyped, Tallied
    <2>4. /\ counted => c \in (1..fresh) \X Nat
          /\ y.resend \in Nat /\ (r \in DOMAIN codes => codes[r].resend \in Nat)
      <3>1. r \in DOMAIN codes => codes[r].code \in 0..fresh /\ codes[r].resend \in Nat
        BY <2>3 DEF CodesIn, Stored
      <3>2. counted => codes[r].code \in 1..fresh
        BY <2>3, <3>1 DEF None
      <3>3. y.resend \in Nat
        BY <2>3 DEF Stored
      <3> QED BY <3>1, <3>2, <3>3 DEF Round
    <2>5. More(j) \in Nat /\ (Missed(j) => More(j) = 1)
      BY DEF More
    <2> HIDE DEF j
    <2>6. /\ CountOK(k, codes, guesses, clash)
          /\ k.plan \in SavesRow => k.rec = r /\ k.row = y /\ k.kind = j.kind /\ ~Missed(k) /\ ~Missed(j)
      <3>1. AsCounted(j.row, j.row)
        BY SelfCounted
      <3> QED BY <2>1, <2>3, <3>1, CountOn
    <2>8. /\ Guesses(guesses', fresh)
          /\ \A z \in DOMAIN guesses' : \/ counted /\ z = <<r, c>> /\ guesses'[z] = Tally(guesses, r, c) + 1
                                        \/ z \in DOMAIN guesses /\ guesses'[z] = guesses[z]
          /\ \A q, d : q # r => Tally(guesses', q, d) = Tally(guesses, q, d)
          /\ \A d : Tally(guesses', r, d) \in Nat /\ Tally(guesses', r, d) <= Tally(guesses, r, d) + More(j)
          /\ ~Missed(j) => guesses' = guesses
      <3> HIDE DEF r, c
      <3>1. CASE counted
        <4> DEFINE H == Put(guesses, <<r, c>>, Tally(guesses, r, c) + 1)
        <4>1. guesses' = H
          BY <1>4, <3>1
        <4>2. /\ Guesses(H, fresh)
              /\ \A z \in DOMAIN H : \/ z = <<r, c>> /\ H[z] = Tally(guesses, r, c) + 1
                                     \/ z \in DOMAIN guesses /\ H[z] = guesses[z]
              /\ \A q, d : q # r => Tally(H, q, d) = Tally(guesses, q, d)
              /\ \A d : Tally(H, r, d) \in Nat /\ Tally(H, r, d) <= Tally(guesses, r, d) + 1
          BY <2>3, <2>4, <3>1, Guessed
        <4>3. Missed(j) /\ More(j) = 1
          BY <2>5, <3>1
        <4> HIDE DEF H, counted
        <4> QED BY <3>1, <4>1, <4>2, <4>3
      <3>2. CASE ~counted
        <4>1. guesses' = guesses
          BY <1>4, <3>2
        <4>2. ASSUME NEW d PROVE Tally(guesses, r, d) \in Nat /\ Tally(guesses, r, d) <= Tally(guesses, r, d) + More(j)
          <5>1. Tally(guesses, r, d) \in Nat
            BY <2>3, TallyNat
          <5> QED BY <2>5, <5>1
        <4> HIDE DEF counted
        <4> QED BY <2>3, <4>1, <4>2
      <3> QED BY <3>1, <3>2
    <2>9. r \notin clash => /\ Counts(y, Tally(guesses, r, Round(y)) + More(j))
                            /\ Within(guesses, r, y)
                            /\ Missed(j) => y.kind \in {"register", "email"}
                            /\ r \in DOMAIN codes => Ahead(y, codes[r])
      BY <2>1, <2>2 DEF CountOK
    <2>10. GuessesBounded'
      <3> SUFFICES ASSUME NEW z \in DOMAIN guesses', z[1] \notin clash'
                   PROVE  guesses'[z] <= MaxWrong + 1 /\ z[2][2] \in 0..MaxResend
        BY DEF GuessesBounded
      <3>1. CASE counted /\ z = <<r, c>> /\ guesses'[z] = Tally(guesses, r, c) + 1
        <4>1. r \notin clash /\ r \in DOMAIN codes /\ Live(codes[r]) /\ codes[r].code # None /\ Missed(j)
          BY <1>4, <3>1
        <4>2. codes[r].kind \in {"register", "email"}
          BY <2>9, <4>1 DEF Ahead
        <4>3. Counts(codes[r], Tally(guesses, r, c)) /\ Within(guesses, r, codes[r])
          BY <4>1 DEF Tallied, Sound
        <4>4. Tally(guesses, r, c) <= MaxWrong
          BY <4>1, <4>2, <4>3 DEF Counts
        <4>5. Tally(guesses, r, c) \in Nat
          BY <2>3, TallyNat
        <4>6. c[2] \in 0..MaxResend
          <5>1. CASE codes[r].kind = "email"
            BY <2>4, <4>1, <4>3, <5>1, LimitsAssumption DEF Within, Round
          <5>2. CASE codes[r].kind # "email"
            BY <5>2, LimitsAssumption DEF Round
          <5> QED BY <5>1, <5>2
        <4>7. z[2] = c
          BY <3>1
        <4> HIDE DEF c, r
        <4> QED BY <3>1, <4>4, <4>5, <4>6, <4>7, LimitsAssumption
      <3>2. CASE z \in DOMAIN guesses /\ guesses'[z] = guesses[z]
        BY <1>4, <3>2 DEF Tallied, GuessesBounded
      <3> QED BY <2>8, <3>1, <3>2
    <2>11. ASSUME NEW q \in DOMAIN codes' \ clash' PROVE Sound(guesses', q, codes'[q])
      <3>1. CASE q = r
        <4>1. codes'[q] = y /\ r \notin clash
          BY <1>4, <2>11, <3>1 DEF Put
        <4>2. Counts(y, Tally(guesses, r, Round(y)) + More(j))
          BY <2>9, <4>1
        <4>3. Tally(guesses, r, Round(y)) \in Nat
          BY <2>3, TallyNat
        <4>4. Within(guesses', r, y)
          <5> SUFFICES ASSUME y.kind = "email"
                       PROVE  y.resend <= MaxResend /\ \A z \in DOMAIN guesses' : z[1] = r => z[2][2] <= y.resend
            BY DEF Within
          <5>1. y.resend <= MaxResend /\ \A z \in DOMAIN guesses : z[1] = r => z[2][2] <= y.resend
            BY <2>9, <4>1 DEF Within
          <5>2. counted => c[2] <= y.resend
            <6> SUFFICES ASSUME counted PROVE c[2] <= y.resend
              OBVIOUS
            <6>1. Ahead(y, codes[r])
              BY <2>9, <4>1
            <6>2. codes[r].resend <= y.resend /\ codes[r].kind = "email"
              BY <6>1 DEF Ahead
            <6> QED BY <6>2 DEF Round
          <5>3. ASSUME NEW z \in DOMAIN guesses', z[1] = r PROVE z[2][2] <= y.resend
            <6>1. CASE counted /\ z = <<r, c>>
              <7>1. z[2] = c
                BY <6>1
              <7> HIDE DEF c, y, counted
              <7> QED BY <5>2, <6>1, <7>1
            <6>2. CASE z \in DOMAIN guesses
              BY <5>1, <5>3, <6>2
            <6> QED BY <2>8, <6>1, <6>2
          <5> QED BY <5>1, <5>3
        <4> DEFINE a == Tally(guesses, r, Round(y)) + More(j)
                   b == Tally(guesses', r, Round(y))
        <4>5. a \in Nat /\ b \in Nat /\ b <= a /\ Counts(y, a)
          BY <2>5, <2>8, <4>2, <4>3
        <4> HIDE DEF a, b, y
        <4>6. Counts(y, b)
          BY <2>3, <4>5, CountsFewer
        <4> QED BY <3>1, <4>1, <4>4, <4>6 DEF b, Sound
      <3>2. CASE q # r
        <4>1. q \in DOMAIN codes /\ codes'[q] = codes[q] /\ q \notin clash
          BY <1>4, <2>11, <3>2 DEF Put
        <4>2. Sound(guesses, q, codes[q])
          BY <4>1 DEF Tallied
        <4>3. Tally(guesses', q, Round(codes[q])) = Tally(guesses, q, Round(codes[q]))
          BY <2>8, <3>2
        <4>4. \A z \in DOMAIN guesses' : z[1] = q => z \in DOMAIN guesses
          BY <2>8, <3>2
        <4> QED BY <4>1, <4>2, <4>3, <4>4 DEF Sound, Within
      <3> QED BY <3>1, <3>2
    <2>12. ASSUME NEW v \in Worker, v # w PROVE CountOK(jobs[v], codes', guesses', clash')
      <3> DEFINE i == jobs[v]
      <3>1. CountOK(i, codes, guesses, clash)
        BY DEF Tallied
      <3> HIDE DEF i
      <3> SUFFICES ASSUME i.plan \in SavesRow, i.rec \notin clash'
                   PROVE  /\ Counts(i.row, Tally(guesses', i.rec, Round(i.row)) + More(i))
                          /\ Within(guesses', i.rec, i.row)
                          /\ Missed(i) => i.row.kind \in {"register", "email"}
                          /\ i.plan \in Revising => Tally(guesses', i.rec, Round(i.row)) = 0
                          /\ i.rec \in DOMAIN codes' => Ahead(i.row, codes'[i.rec])
        BY <3>1 DEF CountOK, i
      <3>2. i.rec # r
        BY <1>4, <2>12, SeenHolding DEF i
      <3>3. Tally(guesses', i.rec, Round(i.row)) = Tally(guesses, i.rec, Round(i.row))
        BY <2>8, <3>2
      <3>4. i.rec \notin clash /\ (i.rec \in DOMAIN codes' => i.rec \in DOMAIN codes /\ codes'[i.rec] = codes[i.rec])
        BY <1>4, <3>2 DEF Put
      <3>5. Within(guesses, i.rec, i.row) => Within(guesses', i.rec, i.row)
        <4>1. \A z \in DOMAIN guesses' : z[1] = i.rec => z \in DOMAIN guesses
          BY <2>8, <3>2
        <4> QED BY <4>1 DEF Within
      <3>6. /\ Counts(i.row, Tally(guesses, i.rec, Round(i.row)) + More(i))
            /\ Within(guesses, i.rec, i.row)
            /\ Missed(i) => i.row.kind \in {"register", "email"}
            /\ i.plan \in Revising => Tally(guesses, i.rec, Round(i.row)) = 0
            /\ i.rec \in DOMAIN codes => Ahead(i.row, codes[i.rec])
        BY <3>1, <3>4 DEF CountOK
      <3> HIDE DEF j, r, c, y, counted, k
      <3> QED BY <3>3, <3>4, <3>5, <3>6
    <2>13. CountOK(k, codes', guesses', clash')
      <3>1. CASE k.plan \notin SavesRow
        BY <2>6, <3>1 DEF CountOK
      <3>2. CASE k.plan \in SavesRow
        <4> HIDE DEF k
        <4>1. k.rec = r /\ k.row = y /\ guesses' = guesses
          BY <2>6, <2>8, <3>2
        <4>2. codes'[r] = y /\ Ahead(y, y)
          BY <1>4, <2>4 DEF Put, Ahead
        <4> QED BY <1>4, <2>6, <3>2, <4>1, <4>2 DEF CountOK
      <3> QED BY <3>1, <3>2
    <2>14. \A v \in Worker : CountOK(jobs'[v], codes', guesses', clash')
      <3>1. \A v \in Worker : jobs'[v] = IF v = w THEN k ELSE jobs[v]
        BY <1>4 DEF IInv, JobsOK, Proceed
      <3> HIDE DEF k
      <3> QED BY <2>12, <2>13, <3>1
    <2> QED BY <1>1, <2>8, <2>10, <2>11, <2>14 DEF Tallied
  <1> QED BY <1>2, <1>3, <1>4

LEMMA RenewTallied ==
  ASSUME IInv, RowsTyped, Tallied, NEW w \in Worker, Renew(w)
  PROVE  Tallied'
  <1> DEFINE j == jobs[w]
             row == NewRow("forget")
             job == [j EXCEPT !.rec = None, !.row = row]
  <1>1. On(w, "renew") /\ Proceed(w, job) /\ UNCHANGED <<codes, fresh, clash, guesses>>
    BY DEF Renew, ghosts
  <1>2. IsJob(j) /\ j.plan = <<"renew", "issue", "saveRow", "deliver">>
    BY <1>1, ByHead DEF IInv, JobsOK, JobOK, RowsTyped, On
  <1> HIDE DEF row
  <1>3. IsJob(job) /\ job.plan = j.plan /\ job.kind = j.kind /\ job.code = j.code
    BY <1>2 DEF IsJob, Fields
  <1> HIDE DEF job
  <1>4. j.plan \notin SavesRow /\ j.plan # <<>> /\ Head(j.plan) # "issue"
    BY <1>2, IdlePlans
  <1> QED BY <1>1, <1>3, <1>4, GoesOnTallied

LEMMA RowStepTallied ==
  ASSUME IInv, RowsTyped, Tallied, NEW w \in Worker, RowStep(w)
  PROVE  Tallied'
  <1>1. CASE Clear(w)
    <2>1. On(w, "clear") /\ Proceed(w, jobs[w]) /\ DeleteUser(jobs[w].user) /\ UNCHANGED <<fresh, clash, guesses>>
      BY <1>1 DEF Clear, ghosts
    <2>2. \A r \in DOMAIN codes' : r \in DOMAIN codes /\ codes'[r] = codes[r]
      BY <2>1, DeletionShrinks
    <2> QED BY <2>1, <2>2, CalmTallied
  <1>2. CASE SaveUser(w)
    <2>1. On(w, "saveUser") /\ UNCHANGED <<fresh, codes, guesses>>
      BY <1>2 DEF SaveUser
    <2>2. (Stop(w) \/ Proceed(w, jobs[w])) /\ clash \subseteq clash'
      BY <1>2, Zenon DEF SaveUser
    <2> QED BY <2>1, <2>2, CalmTallied
  <1>3. CASE Abandon(w)
    <2>1. Stop(w) /\ UNCHANGED <<fresh, codes, clash, guesses>>
      BY <1>3 DEF Abandon, ghosts
    <2> QED BY <2>1, CalmTallied
  <1> QED BY <1>1, <1>2, <1>3, CreateTallied, IssueTallied, LoadUserTallied, SaveRowTallied, DeliverTallied DEF RowStep

-----------------------------------------------------------------------------
\* A record whose code takes no more guesses.
Idle(x) == x.kind \notin {"register", "email"} \/ x.code = None \/ (~Live(x) /\ ~Reopens(x))

LEMMA IdleCounts == ASSUME NEW x, Idle(x), NEW a PROVE Counts(x, a)
  BY CountsIdle DEF Idle

\* A copy of a record that asks for no resend, or for one more.
SameSends(x, y) == x.kind = y.kind /\ x.resend = y.resend
Follows(x, y) ==
  /\ x.kind = y.kind
  /\ x.kind = "email" => x.resend = y.resend \/ (x.resend = y.resend + 1 /\ y.resend < MaxResend)

LEMMA NoResend ==
  ASSUME NEW n, NEW row \in Stored(n)
  PROVE  /\ SameSends(Block(row), row) /\ SameSends(Dead(row), row) /\ SameSends(Miss(row), row)
         /\ SameSends([row EXCEPT !.code = None], row) /\ SameSends([row EXCEPT !.age = "old"], row)
         /\ \A w \in {"live", "lapsed", "dead"} :
              /\ SameSends([row EXCEPT !.window = w], row)
              /\ SameSends([row EXCEPT !.done = TRUE, !.window = w], row)
         /\ \A b \in BOOLEAN : SameSends([row EXCEPT !.done = b], row)
  <1>1. SameSends(Block(row), row) /\ SameSends(Dead(row), row) /\ SameSends(Miss(row), row)
    BY DEF Stored, SameSends, Block, Dead, Miss
  <1>2. SameSends([row EXCEPT !.code = None], row) /\ SameSends([row EXCEPT !.age = "old"], row)
    BY DEF Stored, SameSends
  <1>3. ASSUME NEW w \in {"live", "lapsed", "dead"}
        PROVE  SameSends([row EXCEPT !.window = w], row) /\ SameSends([row EXCEPT !.done = TRUE, !.window = w], row)
    BY DEF Stored, SameSends
  <1>4. ASSUME NEW b \in BOOLEAN PROVE SameSends([row EXCEPT !.done = b], row)
    BY DEF Stored, SameSends
  <1> QED BY <1>1, <1>2, <1>3, <1>4

LEMMA Following ==
  ASSUME NEW x, NEW y
  PROVE  /\ SameSends(x, y) \/ AsCounted(x, y) => Follows(x, y)
         /\ x.kind = y.kind /\ x.kind # "email" => Follows(x, y)
         /\ \A z : SameSends(x, y) /\ SameSends(y, z) => SameSends(x, z)
  BY DEF SameSends, AsCounted, Follows

\* What the requests and time make of a record.
LEMMA CountsChanged ==
  ASSUME NEW n \in Nat, NEW row \in Stored(n)
  PROVE  /\ row.kind \in OtpKinds => AsCounted(Block(row), row) /\ Idle(Dead(row))
         /\ row.kind # "email" => AsCounted([row EXCEPT !.resend = 0], row)
         /\ AsCounted([row EXCEPT !.window = "lapsed"], row)
         /\ ~Live(row) => AsCounted([row EXCEPT !.blocked = FALSE], row) /\ Idle([Block(row) EXCEPT !.age = "old"])
         /\ AsCounted([row EXCEPT !.age = IF @ = "new" THEN "recent" ELSE "old"], row)
         /\ row.kind \in LogKinds /\ row.age # "old" /\ ~row.done =>
              AsCounted([row EXCEPT !.attapts = @ + 1, !.window = "live"], row)
         /\ ~Live(row) => Idle([row EXCEPT !.done = TRUE])
         /\ row.kind = "forget" => Idle([row EXCEPT !.done = TRUE, !.window = "live"])
  <1>1. ASSUME row.kind \in OtpKinds PROVE AsCounted(Block(row), row) /\ Idle(Dead(row))
    <2> DEFINE x == Block(row)
               y == Dead(row)
    <2>1. x.kind = row.kind /\ x.code = row.code /\ x.resend = row.resend /\ x.window = row.window /\ x.blocked = TRUE
      BY DEF Stored, Block
    <2>2. y.kind = row.kind /\ y.window = "dead"
      BY DEF Stored, Dead
    <2> HIDE DEF x, y
    <2>3. row.kind # "email"
      BY <1>1 DEF OtpKinds
    <2>4. \A a \in Nat : Counts(row, a) => Counts(x, a)
      BY <2>1, <2>3 DEF Counts, Live, Reopens
    <2>5. Idle(y)
      BY <2>2, <2>3 DEF Idle, Live, Reopens
    <2> QED BY <2>1, <2>4, <2>5 DEF AsCounted, x, y
  <1>2. ASSUME row.kind # "email" PROVE AsCounted([row EXCEPT !.resend = 0], row)
    <2> DEFINE x == [row EXCEPT !.resend = 0]
    <2>1. /\ x.kind = row.kind /\ x.code = row.code /\ x.window = row.window /\ x.blocked = row.blocked
          /\ x.attapts = row.attapts /\ x.age = row.age /\ x.done = row.done
      BY DEF Stored
    <2> HIDE DEF x
    <2>2. \A a \in Nat : Counts(row, a) => Counts(x, a)
      BY <2>1 DEF Counts, Live, Reopens
    <2> QED BY <1>2, <2>1, <2>2 DEF AsCounted, x
  <1>3. AsCounted([row EXCEPT !.window = "lapsed"], row)
    <2> DEFINE x == [row EXCEPT !.window = "lapsed"]
    <2>1. /\ x.kind = row.kind /\ x.code = row.code /\ x.resend = row.resend /\ x.window = "lapsed" /\ x.blocked = row.blocked
          /\ x.attapts = row.attapts /\ x.age = row.age /\ x.done = row.done
      BY DEF Stored
    <2> HIDE DEF x
    <2>2. \A a \in Nat : Counts(row, a) => Counts(x, a)
      BY <2>1 DEF Counts, Live, Reopens
    <2> QED BY <2>1, <2>2 DEF AsCounted, x
  <1>4. ASSUME ~Live(row) PROVE AsCounted([row EXCEPT !.blocked = FALSE], row) /\ Idle([Block(row) EXCEPT !.age = "old"])
    <2> DEFINE x == [row EXCEPT !.blocked = FALSE]
               old == Block(row)
               y == [old EXCEPT !.age = "old"]
    <2>1. /\ x.kind = row.kind /\ x.code = row.code /\ x.resend = row.resend /\ x.window = row.window
          /\ x.attapts = row.attapts /\ x.age = row.age /\ x.done = row.done
      BY DEF Stored
    <2>2. old \in Stored(n) /\ old.window = row.window
      <3>1. old.window = row.window
        BY DEF Stored, Block
      <3> HIDE DEF old
      <3> QED BY <3>1, Copied DEF old
    <2> HIDE DEF x, old
    <2>3. y.window = row.window /\ y.age = "old"
      BY <2>2 DEF Stored
    <2> HIDE DEF y
    <2>4. \A a \in Nat : Counts(row, a) => Counts(x, a)
      BY <1>4, <2>1 DEF Counts, Live, Reopens
    <2>5. Idle(y)
      BY <1>4, <2>3 DEF Idle, Live, Reopens
    <2> QED BY <2>1, <2>4, <2>5 DEF AsCounted, x, y, old
  <1>5. AsCounted([row EXCEPT !.age = IF @ = "new" THEN "recent" ELSE "old"], row)
    <2> DEFINE x == [row EXCEPT !.age = IF @ = "new" THEN "recent" ELSE "old"]
    <2>1. /\ x.kind = row.kind /\ x.code = row.code /\ x.resend = row.resend /\ x.window = row.window /\ x.blocked = row.blocked
          /\ x.attapts = row.attapts /\ x.done = row.done /\ (x.age # "old" => row.age # "old")
      BY DEF Stored
    <2> HIDE DEF x
    <2>2. \A a \in Nat : Counts(row, a) => Counts(x, a)
      BY <2>1 DEF Counts, Live, Reopens
    <2> QED BY <2>1, <2>2 DEF AsCounted, x
  <1>6. ASSUME row.kind \in LogKinds, row.age # "old", ~row.done
        PROVE  AsCounted([row EXCEPT !.attapts = @ + 1, !.window = "live"], row)
    <2> DEFINE x == [row EXCEPT !.attapts = @ + 1, !.window = "live"]
    <2>1. /\ x.kind = row.kind /\ x.code = row.code /\ x.resend = row.resend /\ x.attapts = row.attapts + 1
          /\ row.attapts \in Nat
      BY DEF Stored
    <2> HIDE DEF x
    <2>2. ASSUME NEW a \in Nat, Counts(row, a) PROVE Counts(x, a)
      <3>1. row.kind = "email" /\ row.code # None => a <= MaxWrong /\ a <= row.attapts
        BY <1>6, <2>2 DEF Counts, Reopens
      <3>2. row.kind # "register"
        BY <1>6 DEF LogKinds
      <3> QED BY <2>1, <3>1, <3>2 DEF Counts
    <2> QED BY <2>1, <2>2 DEF AsCounted, x
  <1>7. ASSUME ~Live(row) PROVE Idle([row EXCEPT !.done = TRUE])
    <2> DEFINE x == [row EXCEPT !.done = TRUE]
    <2>1. x.window = row.window /\ x.done = TRUE
      BY DEF Stored
    <2> HIDE DEF x
    <2>2. Idle(x)
      BY <1>7, <2>1 DEF Idle, Live, Reopens
    <2> QED BY <2>2 DEF x
  <1>8. ASSUME row.kind = "forget" PROVE Idle([row EXCEPT !.done = TRUE, !.window = "live"])
    <2> DEFINE x == [row EXCEPT !.done = TRUE, !.window = "live"]
    <2>1. x.kind = "forget"
      BY <1>8 DEF Stored
    <2> HIDE DEF x
    <2>2. Idle(x)
      BY <2>1 DEF Idle
    <2> QED BY <2>2 DEF x
  <1> QED BY <1>1, <1>2, <1>3, <1>4, <1>5, <1>6, <1>7, <1>8

LEMMA CountedTwice == ASSUME NEW x, NEW y, NEW z, AsCounted(x, y), AsCounted(y, z) PROVE AsCounted(x, z)
  BY DEF AsCounted

\* A wrong guess is counted, until there were too many: then the code goes.
LEMMA MissCounts ==
  ASSUME NEW n \in Nat, NEW row \in Stored(n), ~row.blocked
  PROVE  LET x == TooMany(Miss(row), [Dead(Block(Miss(row))) EXCEPT !.code = None]) IN
         /\ SameSends(x, row)
         /\ Idle(x) \/ (x.code = row.code /\ \A a \in Nat : Counts(row, a) => Counts(x, a + 1))
  <1> DEFINE missed == Miss(row)
             block == Block(missed)
             dead == Dead(block)
             none == [dead EXCEPT !.code = None]
  <1>1. /\ missed \in Stored(n) /\ SameCode(missed, row) /\ missed.code = row.code
        /\ missed.window = row.window /\ missed.blocked = row.blocked /\ missed.age = row.age
        /\ missed.done = row.done /\ missed.attapts = row.attapts + 1 /\ row.attapts \in Nat
        /\ SameSends(missed, row)
    <2>1. /\ missed.window = row.window /\ missed.blocked = row.blocked /\ missed.age = row.age
          /\ missed.done = row.done /\ missed.attapts = row.attapts + 1 /\ row.attapts \in Nat
      BY DEF Stored, Miss
    <2>2. missed \in Stored(n) /\ Kept(missed, row) /\ SameSends(missed, row)
      BY Copied, Changed, NoResend
    <2> HIDE DEF missed
    <2> QED BY <2>1, <2>2 DEF Kept
  <1> HIDE DEF missed
  <1>2. block \in Stored(n) /\ SameSends(block, missed)
    BY <1>1, Copied, NoResend
  <1> HIDE DEF block
  <1>3. dead \in Stored(n) /\ SameSends(dead, block)
    BY <1>2, Copied, NoResend
  <1> HIDE DEF dead
  <1>4. Spent(none, dead) /\ SameSends(none, dead)
    BY <1>3, Changed, NoResend
  <1> HIDE DEF none
  <1>5. SameSends(none, row) /\ Idle(none)
    BY <1>1, <1>2, <1>3, <1>4 DEF Idle, Spent, SameSends
  <1>6. missed.kind = row.kind /\ missed.attapts \in Nat
    BY <1>1 DEF SameCode
  <1>7. ASSUME missed.attapts <= MaxWrong, NEW a \in Nat, Counts(row, a) PROVE Counts(missed, a + 1)
    BY <1>1, <1>6, <1>7, LimitsAssumption DEF Counts, Live, Reopens
  <1>8. ~(missed.attapts > MaxWrong) => missed.attapts <= MaxWrong
    BY <1>6, LimitsAssumption
  <1>9. TooMany(missed, none) = IF missed.attapts > MaxWrong THEN none ELSE missed
    BY DEF TooMany
  <1> QED BY <1>1, <1>5, <1>6, <1>7, <1>8, <1>9 DEF missed, block, dead, none

\* A record with a new code, with a resend more, or with the posted address.
LEMMA NewCounted ==
  ASSUME NEW n \in Nat, NEW row \in Stored(n), NEW c \in 0..n, NEW a
  PROVE  /\ NewCode(row, c).attapts \in Nat /\ SameSends(NewCode(row, c), row)
         /\ ResentRow(row).attapts \in Nat /\ ResentRow(row).kind = row.kind /\ ResentRow(row).resend = row.resend + 1
         /\ PostedRow(row, a).attapts = 1 /\ SameSends(PostedRow(row, a), row)
  <1>1. NewCode(row, c).attapts \in Nat /\ SameSends(NewCode(row, c), row)
    BY DEF Stored, NewCode, SameSends
  <1>2. ResentRow(row).attapts \in Nat /\ ResentRow(row).kind = row.kind /\ ResentRow(row).resend = row.resend + 1
    BY DEF Stored, ResentRow
  <1>3. PostedRow(row, a).attapts = 1 /\ SameSends(PostedRow(row, a), row)
    BY DEF Stored, PostedRow, SameSends
  <1> QED BY <1>1, <1>2, <1>3

-----------------------------------------------------------------------------
\* A request begins that saves no record; or that holds one, which it leaves
\* with the count it has, or with no more guesses to take, or in a new round.
Silent(kind, job) == kind \notin {"verify", "verifyEmail"} \/ job.code # None
Anew(x, y) == x.attapts \in Nat /\ (x.code = fresh + 1 \/ (x.kind = "email" /\ x.resend = y.resend + 1))

LEMMA IdleTallied ==
  ASSUME IInv, RowsTyped, Tallied, NEW w \in Worker, NEW kind, NEW job, IsJob(job), job.plan \notin SavesRow,
         Silent(kind, job), Begin(w, kind, job), fresh' = fresh \/ fresh' = fresh + 1, UNCHANGED <<codes, clash, guesses>>
  PROVE  Tallied'
  <1> DEFINE k == [job EXCEPT !.kind = kind]
  <1>1. k.plan = job.plan /\ k.kind = kind /\ k.code = job.code /\ jobs' = [jobs EXCEPT ![w] = k]
    BY DEF IsJob, Fields, Begin
  <1> HIDE DEF k
  <1>2. CountOK(k, codes, guesses, clash)
    BY <1>1 DEF CountOK, Missed, Silent
  <1> QED BY <1>1, <1>2, TalliedStep

LEMMA HoldingTallied ==
  ASSUME IInv, RowsTyped, Tallied, NEW w \in Worker, NEW kind, NEW r \in DOMAIN codes, NEW row, NEW job,
         IsJob(job), job.rec = r, job.row = row, Begin(w, kind, job), Follows(row, codes[r]), Silent(kind, job),
         kind = "resend" => row.kind # "email", job.plan \in Revising => Anew(row, codes[r]),
         Idle(row) \/ AsCounted(row, codes[r]) \/ Anew(row, codes[r]),
         fresh' = fresh \/ fresh' = fresh + 1, UNCHANGED <<codes, clash, guesses>>
  PROVE  Tallied'
  <1> DEFINE k == [job EXCEPT !.kind = kind]
             was == codes[r]
             round == Round(row)
  <1>1. /\ k.plan = job.plan /\ k.kind = kind /\ k.rec = r /\ k.row = row /\ k.code = job.code
        /\ jobs' = [jobs EXCEPT ![w] = k]
    BY DEF IsJob, Fields, Begin
  <1> HIDE DEF k
  <1>2. ~Missed(k) /\ More(k) = 0
    BY <1>1 DEF Missed, More, Silent
  <1>3. /\ Tally(guesses, r, round) \in Nat /\ was.resend \in Nat /\ fresh \in Nat
        /\ Guesses(guesses, fresh) /\ (r \notin clash => Sound(guesses, r, was))
    BY TallyNat DEF Tallied, RowsTyped, CodesIn, Stored
  <1> HIDE DEF was
  <1>4. Follows(row, was) /\ (Idle(row) \/ AsCounted(row, was) \/ Anew(row, was)) /\ (job.plan \in Revising => Anew(row, was))
    BY DEF was
  <1>5. r \notin clash => Within(guesses, r, row) /\ (row.kind = "email" => Within(guesses, r, was) /\ row.kind = was.kind)
    <2> SUFFICES ASSUME r \notin clash, row.kind = "email"
                 PROVE  Within(guesses, r, row) /\ Within(guesses, r, was) /\ row.kind = was.kind
      BY DEF Within
    <2>1. Within(guesses, r, was) /\ row.kind = was.kind
      BY <1>3, <1>4 DEF Sound, Follows
    <2>2. was.resend <= MaxResend /\ \A z \in DOMAIN guesses : z[1] = r => z[2][2] <= was.resend
      BY <2>1 DEF Within
    <2>3. row.resend \in Nat /\ row.resend <= MaxResend /\ was.resend <= row.resend
      BY <1>3, <1>4, <2>2, LimitsAssumption DEF Follows
    <2>4. ASSUME NEW z \in DOMAIN guesses, z[1] = r PROVE z[2][2] <= row.resend
      <3>1. z[2][2] \in Nat
        BY <1>3 DEF Guesses
      <3> QED BY <1>3, <2>2, <2>3, <2>4, <3>1
    <2> QED BY <2>1, <2>3, <2>4 DEF Within
  <1>6. r \notin clash /\ Anew(row, was) => Tally(guesses, r, round) = 0
    <2> SUFFICES ASSUME r \notin clash, Anew(row, was) PROVE Tally(guesses, r, round) = 0
      OBVIOUS
    <2>1. CASE row.code = fresh + 1
      <3>1. row.code \notin 1..fresh
        BY <1>3, <2>1
      <3> QED BY <1>3, <3>1, Unguessed
    <2>2. CASE row.kind = "email" /\ row.resend = was.resend + 1
      <3>1. \A z \in DOMAIN guesses : z[1] = r => z[2][2] <= was.resend
        BY <1>5, <2>2 DEF Within
      <3>2. ASSUME NEW z \in DOMAIN guesses, z[1] = r PROVE z[2][2] < row.resend
        <4>1. z[2][2] \in Nat
          BY <1>3 DEF Guesses
        <4> QED BY <1>3, <2>2, <3>1, <3>2, <4>1
      <3> QED BY <1>3, <2>2, <3>2, Unguessed
    <2> QED BY <2>1, <2>2 DEF Anew
  <1>7. r \notin clash => Counts(row, Tally(guesses, r, round))
    <2>1. CASE Idle(row)
      BY <2>1, IdleCounts
    <2>2. CASE AsCounted(row, was)
      <3>1. r \notin clash => Counts(was, Tally(guesses, r, Round(was)))
        BY <1>3 DEF Sound
      <3>2. round = Round(was)
        BY <2>2, SameRound
      <3> QED BY <1>3, <2>2, <3>1, <3>2 DEF AsCounted
    <2>3. CASE Anew(row, was)
      <3>1. Counts(row, 0)
        BY <2>3, CountsIdle DEF Anew
      <3> QED BY <1>6, <2>3, <3>1
    <2> QED BY <1>4, <2>1, <2>2, <2>3
  <1>8. Ahead(row, was)
    BY <1>3, <1>4 DEF Ahead, Follows
  <1>9. CountOK(k, codes, guesses, clash)
    <2>1. k.plan \in SavesRow /\ k.kind = "resend" => k.row.kind # "email"
      BY <1>1
    <2> HIDE DEF round
    <2> SUFFICES ASSUME k.rec \notin clash
                 PROVE  /\ Counts(k.row, Tally(guesses, k.rec, Round(k.row)) + More(k))
                        /\ Within(guesses, k.rec, k.row)
                        /\ k.plan \in Revising => Tally(guesses, k.rec, Round(k.row)) = 0
                        /\ k.rec \in DOMAIN codes => Ahead(k.row, codes[k.rec])
      BY <1>2, <2>1 DEF CountOK
    <2>2. Tally(guesses, k.rec, Round(k.row)) + More(k) = Tally(guesses, r, round)
      BY <1>1, <1>2, <1>3 DEF round
    <2> QED BY <1>1, <1>4, <1>5, <1>6, <1>7, <1>8, <2>2 DEF was, round
  <1> QED BY <1>1, <1>9, TalliedStep

\* The same, for a job that is a record held and no more.
LEMMA PlainTallied ==
  ASSUME IInv, RowsTyped, Tallied, NEW w \in Worker, NEW kind, NEW r \in DOMAIN codes, NEW row, NEW plan,
         Begin(w, kind, Holding(r, row, plan)), Follows(row, codes[r]), kind \notin {"verify", "verifyEmail"},
         kind = "resend" => row.kind # "email", plan \in Revising => Anew(row, codes[r]),
         Idle(row) \/ AsCounted(row, codes[r]) \/ Anew(row, codes[r]),
         fresh' = fresh \/ fresh' = fresh + 1, UNCHANGED <<codes, clash, guesses>>
  PROVE  Tallied'
  <1> DEFINE h == Holding(r, row, plan)
  <1>1. IsJob(h) /\ h.rec = r /\ h.row = row /\ h.plan = plan
    BY Held
  <1>2. Begin(w, kind, h) /\ Silent(kind, h)
    BY DEF Silent
  <1> HIDE DEF h
  <1> QED BY <1>1, <1>2, HoldingTallied

\* A request begins that counts a wrong guess.
LEMMA MissTallied ==
  ASSUME IInv, RowsTyped, Tallied, NEW w \in Worker, NEW kind \in {"verify", "verifyEmail"}, NEW r \in DOMAIN codes, NEW row,
         Begin(w, kind, Holding(r, row, <<"saveRow">>)), SameSends(row, codes[r]), row.kind \in {"register", "email"},
         Idle(row) \/ (row.code = codes[r].code /\ \A a \in Nat : Counts(codes[r], a) => Counts(row, a + 1)),
         fresh' = fresh \/ fresh' = fresh + 1, UNCHANGED <<codes, clash, guesses>>
  PROVE  Tallied'
  <1> DEFINE plan == <<"saveRow">>
  <1>1. plan \notin Revising
    BY DEF Revising
  <1> HIDE DEF plan
  <1> DEFINE h == Holding(r, row, plan)
             k == [h EXCEPT !.kind = kind]
  <1>2. IsJob(h) /\ h.plan = plan /\ h.rec = r /\ h.row = row
    BY Held
  <1>3. jobs' = [jobs EXCEPT ![w] = k]
    BY DEF Begin, plan
  <1>4. h.code = None
    <2> DEFINE user == codes[r].user
    <2>1. h = [NoJob EXCEPT !.plan = plan, !.user = user, !.rec = r, !.row = row] /\ NoJob.code = None
      BY DEF Holding, NoJob
    <2> HIDE DEF user, h
    <2> QED BY <2>1, NoJobOK DEF IsJob, Fields
  <1> HIDE DEF h
  <1>5. k.plan = plan /\ k.rec = r /\ k.row = row /\ k.kind = kind /\ k.code = None
    BY <1>2, <1>4 DEF IsJob, Fields
  <1> HIDE DEF k
  <1>6. Tally(guesses, r, Round(row)) \in Nat /\ More(k) = 1 /\ k.kind # "resend"
    BY <1>5, TallyNat DEF Tallied, More, Missed
  <1>7. r \notin clash => Sound(guesses, r, codes[r])
    BY DEF Tallied
  <1>8. r \notin clash => Counts(row, Tally(guesses, r, Round(row)) + More(k))
    <2>1. CASE Idle(row)
      BY <2>1, IdleCounts
    <2>2. CASE row.code = codes[r].code /\ \A a \in Nat : Counts(codes[r], a) => Counts(row, a + 1)
      <3>1. Round(row) = Round(codes[r])
        BY <2>2 DEF Round, SameSends
      <3>2. r \notin clash => Counts(codes[r], Tally(guesses, r, Round(codes[r])))
        BY <1>7 DEF Sound
      <3> QED BY <1>6, <2>2, <3>1, <3>2
    <2> QED BY <2>1, <2>2
  <1>9. (r \notin clash => Within(guesses, r, row)) /\ Ahead(row, codes[r])
    <2>1. codes[r].resend \in Nat
      BY DEF RowsTyped, CodesIn, Stored
    <2> QED BY <1>7, <2>1 DEF Sound, Within, SameSends, Ahead
  <1>10. CountOK(k, codes, guesses, clash)
    BY <1>1, <1>5, <1>6, <1>8, <1>9 DEF CountOK, plan
  <1> QED BY <1>3, <1>10, TalliedStep

LEMMA TypedCode == ASSUME RowsTyped, NEW c \in Typed PROVE c # None
  <1>1. \A m \in mail : m.code # 0
    BY DEF RowsTyped, Mail
  <1> QED BY <1>1 DEF Typed, Wrong, None

LEMMA SavedOnce ==
  /\ <<"saveRow">> \notin Revising /\ <<"saveRow", "deliver", "saveRow">> \notin Revising
  /\ <<"saveRow", "renew", "issue", "saveRow", "deliver">> \notin Revising
  /\ <<"loadUser", "saveUser", "saveRow">> \notin Revising /\ <<"saveUser", "saveRow">> \notin Revising
  /\ OtpKinds = {"register", "forget"}
  BY DEF Revising, OtpKinds

LEMMA ResendBlockTallied ==
  ASSUME IInv, RowsTyped, Tallied, NEW w \in Worker, NEW kind, NEW r \in DOMAIN codes, ResendBlock(w, kind, r),
         kind \notin {"verify", "verifyEmail"}, codes[r].kind \in OtpKinds, UNCHANGED <<codes, clash, guesses>>
  PROVE  Tallied'
  <1> DEFINE old == codes[r]
             block == Block(old)
             row == [block EXCEPT !.resend = 0]
             plan == <<"saveRow">>
  <1>1. fresh' = fresh /\ Begin(w, kind, Holding(r, row, plan))
    BY DEF ResendBlock
  <1>2. old \in Stored(fresh) /\ fresh \in Nat
    BY DEF RowsTyped, CodesIn
  <1> HIDE DEF old
  <1>3. block \in Stored(fresh) /\ AsCounted(block, old)
    BY <1>2, Copied, CountsChanged DEF old
  <1>4. block.kind # "email" /\ plan \notin Revising
    BY <1>3, SavedOnce DEF AsCounted, old
  <1> HIDE DEF block
  <1>5. AsCounted(row, block)
    BY <1>2, <1>3, <1>4, CountsChanged
  <1> HIDE DEF row, plan
  <1>6. AsCounted(row, codes[r])
    BY <1>3, <1>5, CountedTwice DEF old
  <1>7. row.kind # "email" /\ Follows(row, codes[r])
    BY <1>4, <1>5, <1>6, Following DEF AsCounted
  <1> QED BY <1>1, <1>4, <1>6, <1>7, PlainTallied

LEMMA RegisterTallied ==
  ASSUME IInv, RowsTyped, Tallied, NEW w \in Worker, NEW a, NEW type \in {"register", "link"}, NEW p,
         Register(w, a, type, p)
  PROVE  Tallied'
  <1> DEFINE plan == (IF At(a) = {} THEN <<>> ELSE <<"clear">>) \o Making(type)
             user == IF At(a) = {} THEN None ELSE CHOOSE u \in At(a) : TRUE
             acct == IF At(a) = {} THEN NoAcct ELSE users[CHOOSE u \in At(a) : TRUE]
             row == NewRow(type)
             job == [NoJob EXCEPT !.plan = plan, !.user = user, !.acct = acct, !.row = row, !.to = a, !.pw = p]
  <1>1. Begin(w, "register", job)
    BY Zenon DEF Register
  <1>2. UNCHANGED <<fresh, codes, clash, guesses>>
    BY Zenon DEF Register, ghosts
  <1>3. plan \in Linking \cup Coding
    <2>1. plan \in (IF type = "link" THEN Linking ELSE Coding) \ {<<"issue", "deliver">>, <<"issue", "saveRow", "deliver">>}
      BY RegisterPlans, Zenon
    <2> HIDE DEF plan
    <2> QED BY <2>1
  <1> HIDE DEF plan, user, acct, row
  <1>4. IsJob(job) /\ job.plan = plan
    BY NoJobOK DEF IsJob, Fields
  <1> HIDE DEF job
  <1>5. job.plan \notin SavesRow /\ Silent("register", job)
    BY <1>3, <1>4, IdlePlans DEF Silent
  <1> QED BY <1>1, <1>2, <1>4, <1>5, IdleTallied

LEMMA VerifyTallied ==
  ASSUME IInv, RowsTyped, Tallied, NEW w \in Worker, NEW a, NEW c \in Typed, Verify(w, a, c)
  PROVE  Tallied'
  <1>1. UNCHANGED <<fresh, codes, clash, guesses>>
    BY DEF Verify
  <1>2. PICK r \in DOMAIN codes :
          /\ codes[r].kind = "register" /\ ~codes[r].blocked
          /\ \/ Begin(w, "verify", Holding(r, TooMany(Miss(codes[r]), [Dead(Block(Miss(codes[r]))) EXCEPT !.code = None]),
                                           <<"saveRow">>))
             \/ Begin(w, "verify", [Holding(r, Dead(codes[r]), <<"loadUser", "saveUser", "saveRow">>) EXCEPT !.code = c])
    BY DEF Verify, RowsOf
  <1> DEFINE missed == TooMany(Miss(codes[r]), [Dead(Block(Miss(codes[r]))) EXCEPT !.code = None])
             dead == Dead(codes[r])
             loading == <<"loadUser", "saveUser", "saveRow">>
  <1>3. codes[r] \in Stored(fresh) /\ fresh \in Nat
    BY DEF RowsTyped, CodesIn
  <1>4. /\ SameSends(missed, codes[r])
        /\ Idle(missed) \/ (missed.code = codes[r].code /\ \A n \in Nat : Counts(codes[r], n) => Counts(missed, n + 1))
    BY <1>2, <1>3, MissCounts
  <1>5. Idle(dead) /\ Follows(dead, codes[r]) /\ loading \notin Revising
    <2> DEFINE old == codes[r]
    <2>1. old \in Stored(fresh) /\ fresh \in Nat /\ old.kind \in OtpKinds
      BY <1>2, <1>3 DEF OtpKinds
    <2>2. dead = Dead(old)
      OBVIOUS
    <2> HIDE DEF old, dead
    <2>3. Idle(Dead(old))
      BY <2>1, CountsChanged
    <2>4. SameSends(Dead(old), old)
      BY <2>1, NoResend
    <2> QED BY <2>2, <2>3, <2>4, Following, SavedOnce DEF old
  <1> HIDE DEF missed, dead, loading
  <1>6. CASE Begin(w, "verify", Holding(r, missed, <<"saveRow">>))
    <2>1. missed.kind = "register"
      BY <1>2, <1>4 DEF SameSends
    <2> QED BY <1>1, <1>4, <1>6, <2>1, MissTallied
  <1>7. CASE Begin(w, "verify", [Holding(r, dead, loading) EXCEPT !.code = c])
    <2> DEFINE h == Holding(r, dead, loading)
               job == WithCode(h, c)
    <2>1. IsJob(h) /\ h.plan = loading /\ h.rec = r /\ h.row = dead
      BY Held
    <2>2. Begin(w, "verify", job)
      BY <1>7, Zenon DEF WithCode
    <2> HIDE DEF h
    <2>3. IsJob(job) /\ job.plan = loading /\ job.rec = r /\ job.row = dead /\ job.code = c
      BY <2>1, HeldWith
    <2>4. Silent("verify", job)
      BY <2>3, TypedCode DEF Silent
    <2> HIDE DEF job
    <2> QED BY <1>1, <1>5, <2>2, <2>3, <2>4, HoldingTallied
  <1> QED BY <1>2, <1>6, <1>7 DEF missed, dead, loading

LEMMA VerifyLinkTallied ==
  ASSUME IInv, RowsTyped, Tallied, NEW w \in Worker, NEW c \in Typed, VerifyLink(w, c)
  PROVE  Tallied'
  <1> DEFINE loading == <<"loadUser", "saveUser">>
  <1>1. UNCHANGED <<fresh, codes, clash, guesses>>
    BY DEF VerifyLink
  <1>2. PICK r \in DOMAIN codes : Begin(w, "link", [Holding(r, codes[r], loading) EXCEPT !.code = c])
    BY DEF VerifyLink
  <1>3. loading \notin SavesRow
    BY IdlePlans
  <1> HIDE DEF loading
  <1> DEFINE h == Holding(r, codes[r], loading)
             job == WithCode(h, c)
  <1>4. IsJob(h) /\ h.plan = loading
    BY Held
  <1>5. Begin(w, "link", job)
    BY <1>2, Zenon DEF WithCode
  <1> HIDE DEF h
  <1>6. IsJob(job) /\ job.plan = loading
    BY <1>4, HeldWith
  <1> HIDE DEF job
  <1>7. job.plan \notin SavesRow /\ Silent("link", job)
    BY <1>3, <1>6 DEF Silent
  <1> QED BY <1>1, <1>5, <1>6, <1>7, IdleTallied

LEMMA ResendTallied ==
  ASSUME IInv, RowsTyped, Tallied, NEW w \in Worker, NEW a, Resend(w, a)
  PROVE  Tallied'
  <1> DEFINE plan == <<"saveRow", "deliver", "saveRow">>
  <1>1. UNCHANGED <<codes, clash, guesses>>
    BY DEF Resend
  <1>2. PICK r \in DOMAIN codes :
          /\ codes[r].kind \in OtpKinds
          /\ \/ ResendBlock(w, "resend", r)
             \/ fresh' = fresh + 1 /\ Begin(w, "resend", Holding(r, NewCode(codes[r], fresh'), plan))
    BY DEF Resend, RowsOf
  <1>3. CASE ResendBlock(w, "resend", r)
    BY <1>1, <1>2, <1>3, ResendBlockTallied
  <1>4. CASE fresh' = fresh + 1 /\ Begin(w, "resend", Holding(r, NewCode(codes[r], fresh'), plan))
    <2> DEFINE old == codes[r]
               row == NewCode(old, fresh')
    <2>1. old \in Stored(fresh') /\ fresh' \in Nat /\ fresh' \in 0..fresh'
      BY <1>4, Readable, AsBefore
    <2>2. SameSends(row, old) /\ row.attapts \in Nat /\ row.code = fresh + 1
      <3> HIDE DEF old
      <3> DEFINE n == fresh'
      <3>1. n \in Nat /\ n \in 0..n /\ old \in Stored(n)
        BY <2>1
      <3> HIDE DEF n
      <3>2. SameSends(NewCode(old, n), old) /\ NewCode(old, n).attapts \in Nat
        BY <3>1, NewCounted
      <3>3. NewCode(old, n).code = n
        BY <3>1, Coded
      <3> QED BY <1>4, <3>2, <3>3 DEF n
    <2>3. plan \notin Revising /\ row.kind # "email" /\ Follows(row, old)
      BY <1>2, <2>2, Following, SavedOnce DEF SameSends
    <2> HIDE DEF row, plan
    <2>4. Begin(w, "resend", Holding(r, row, plan)) /\ Anew(row, codes[r])
      BY <1>4, <2>2 DEF row, Anew
    <2> QED BY <1>1, <1>4, <2>3, <2>4, PlainTallied
  <1> QED BY <1>2, <1>3, <1>4

LEMMA ForgetPasswordTallied ==
  ASSUME IInv, RowsTyped, Tallied, NEW w \in Worker, NEW a, ForgetPassword(w, a)
  PROVE  Tallied'
  <1> DEFINE plan == <<"saveRow", "renew", "issue", "saveRow", "deliver">>
             Row(r) == [codes[r] EXCEPT !.resend = @ + 1]
  <1>1. UNCHANGED <<codes, clash, guesses>>
    BY DEF ForgetPassword
  <1>2. PICK r \in DOMAIN codes :
          /\ codes[r].kind \in OtpKinds
          /\ \/ ResendBlock(w, "forget", r)
             \/ fresh' = fresh /\ Begin(w, "forget", Holding(r, Row(r), plan))
    BY DEF ForgetPassword, RowsOf
  <1>3. CASE ResendBlock(w, "forget", r)
    BY <1>1, <1>2, <1>3, ResendBlockTallied
  <1>4. CASE fresh' = fresh /\ Begin(w, "forget", Holding(r, Row(r), plan))
    <2>1. codes[r] \in Stored(fresh) /\ codes[r].kind # "email" /\ plan \notin Revising
      BY <1>2, SavedOnce DEF RowsTyped, CodesIn
    <2>2. AsCounted(Row(r), codes[r])
      BY <2>1, MoreSent
    <2>3. Follows(Row(r), codes[r])
      BY <2>2, Following
    <2> HIDE DEF plan, Row
    <2> QED BY <1>1, <1>4, <2>1, <2>2, <2>3, PlainTallied
  <1> QED BY <1>2, <1>3, <1>4

LEMMA VerifyForgetTallied ==
  ASSUME IInv, RowsTyped, Tallied, NEW w \in Worker, NEW a, NEW c, VerifyForget(w, a, c)
  PROVE  Tallied'
  <1> DEFINE plan == <<"saveRow">>
             Row(r) == [codes[r] EXCEPT !.done = TRUE, !.window = "live"]
  <1>1. UNCHANGED <<codes, clash, guesses>>
    BY DEF VerifyForget
  <1>2. PICK r \in DOMAIN codes :
          /\ codes[r].kind = "forget"
          /\ \/ ResendBlock(w, "forgetVerify", r)
             \/ fresh' = fresh /\ Begin(w, "forgetVerify", Holding(r, Row(r), plan))
    BY DEF VerifyForget, RowsOf
  <1>3. CASE ResendBlock(w, "forgetVerify", r)
    <2>1. codes[r].kind \in OtpKinds
      BY <1>2 DEF OtpKinds
    <2> QED BY <1>1, <1>3, <2>1, ResendBlockTallied
  <1>4. CASE fresh' = fresh /\ Begin(w, "forgetVerify", Holding(r, Row(r), plan))
    <2> DEFINE row == Row(r)
    <2>1. codes[r] \in Stored(fresh) /\ fresh \in Nat
      BY DEF RowsTyped, CodesIn
    <2>2. SameSends(row, codes[r]) /\ Idle(row)
      BY <1>2, <2>1, NoResend, CountsChanged
    <2>3. plan \notin Revising
      BY SavedOnce
    <2> HIDE DEF row, plan
    <2>4. Follows(row, codes[r]) /\ Begin(w, "forgetVerify", Holding(r, row, plan))
      BY <1>4, <2>2, Following DEF row
    <2> QED BY <1>1, <1>4, <2>2, <2>3, <2>4, PlainTallied
  <1> QED BY <1>2, <1>3, <1>4

LEMMA SetForgottenTallied ==
  ASSUME IInv, RowsTyped, Tallied, NEW w \in Worker, NEW a, NEW p, SetForgotten(w, a, p)
  PROVE  Tallied'
  <1> DEFINE plan == <<"loadUser", "saveUser", "saveRow">>
             Row(r) == [Dead(codes[r]) EXCEPT !.done = FALSE]
  <1>1. UNCHANGED <<codes, clash, guesses>>
    BY DEF SetForgotten
  <1>2. PICK r \in DOMAIN codes :
          /\ codes[r].kind = "forget"
          /\ \/ ResendBlock(w, "setForget", r)
             \/ /\ fresh' = fresh
                /\ Begin(w, "setForget", [Holding(r, Row(r), plan) EXCEPT !.pw = p, !.code = codes[r].code])
    BY DEF SetForgotten, RowsOf
  <1>3. CASE ResendBlock(w, "setForget", r)
    <2>1. codes[r].kind \in OtpKinds
      BY <1>2 DEF OtpKinds
    <2> QED BY <1>1, <1>3, <2>1, ResendBlockTallied
  <1>4. CASE /\ fresh' = fresh
             /\ Begin(w, "setForget", [Holding(r, Row(r), plan) EXCEPT !.pw = p, !.code = codes[r].code])
    <2> DEFINE old == codes[r]
               dead == Dead(old)
               row == Row(r)
               h == Holding(r, row, plan)
               job == WithPassword(h, p, codes[r].code)
    <2>1. old \in Stored(fresh) /\ fresh \in Nat
      BY DEF RowsTyped, CodesIn
    <2>2. dead \in Stored(fresh) /\ Kept(dead, old)
      BY <2>1, Copied, Changed
    <2>3. row.kind = old.kind
      <3> HIDE DEF dead
      <3>1. SameCode([dead EXCEPT !.done = FALSE], dead)
        BY <2>1, <2>2, Changed
      <3>2. row = [dead EXCEPT !.done = FALSE]
        BY DEF dead
      <3> HIDE DEF row
      <3> QED BY <2>2, <3>1, <3>2 DEF Kept, SameCode
    <2> HIDE DEF Row
    <2>4. Begin(w, "setForget", job)
      BY <1>4, Zenon DEF WithPassword
    <2> HIDE DEF row
    <2>5. IsJob(h) /\ h.plan = plan /\ h.rec = r /\ h.row = row
      BY Held
    <2> HIDE DEF h
    <2>6. IsJob(job) /\ job.plan = plan /\ job.rec = r /\ job.row = row
      BY <2>5, HeldWith
    <2> HIDE DEF job
    <2>7. Idle(row) /\ row.kind # "email"
      BY <1>2, <2>3 DEF Idle
    <2>8. job.plan \notin Revising
      BY <2>6, SavedOnce
    <2>9. Follows(row, codes[r]) /\ Silent("setForget", job)
      BY <2>3, <2>7, Following DEF Silent
    <2> QED BY <1>1, <1>4, <2>4, <2>6, <2>7, <2>8, <2>9, HoldingTallied
  <1> QED BY <1>2, <1>3, <1>4

LEMMA RegistrationTallied ==
  ASSUME IInv, RowsTyped, Tallied, NEW w \in Worker, RegistrationStep(w)
  PROVE  Tallied'
  BY RegisterTallied, VerifyTallied, VerifyForgetTallied, ResendTallied, ForgetPasswordTallied, SetForgottenTallied,
     VerifyLinkTallied, RenewTallied DEF RegistrationStep

-----------------------------------------------------------------------------
LEMMA OpenWindowTallied ==
  ASSUME IInv, RowsTyped, Tallied, NEW w \in Worker, NEW u, NEW kind \in LogKinds, OpenWindow(w, u, kind)
  PROVE  Tallied'
  <1> DEFINE mine == RowsOf({u}, {kind})
             r == Max(mine)
             row == codes[r]
             blank == NewRow(kind)
             new == [NoJob EXCEPT !.plan = <<"issue">>, !.user = u, !.row = blank]
             old == Block(row)
             closed == [old EXCEPT !.age = "old"]
             opened == [row EXCEPT !.attapts = @ + 1, !.window = "live"]
             plan == <<"saveRow">>
             name == OpenKind[kind]
  <1>1. UNCHANGED <<fresh, codes, clash, guesses>>
    BY DEF OpenWindow, ghosts
  <1>2. \/ Begin(w, name, new)
        \/ mine # {} /\ ~Live(row) /\ Begin(w, name, Holding(r, closed, plan))
        \/ mine # {} /\ row.age # "old" /\ ~row.done /\ Begin(w, name, Holding(r, opened, plan))
    BY DEF OpenWindow
  <1>3. name \notin {"verify", "verifyEmail", "resend"} /\ plan \notin Revising
    BY SavedOnce DEF LogKinds, OpenKind
  <1>4. CASE Begin(w, name, new)
    <2> HIDE DEF blank, name
    <2>1. IsJob(new) /\ new.plan = <<"issue">>
      BY NoJobOK DEF IsJob, Fields
    <2> HIDE DEF new
    <2>2. new.plan \notin SavesRow /\ Silent(name, new)
      BY <1>3, <2>1, IdlePlans DEF Drafting, Silent
    <2> QED BY <1>1, <1>4, <2>1, <2>2, IdleTallied
  <1>5. ASSUME mine # {}
        PROVE  /\ r \in DOMAIN codes
               /\ ~Live(row) => Follows(closed, row) /\ Idle(closed)
               /\ row.age # "old" /\ ~row.done => AsCounted(opened, row)
    <2>1. mine \in SUBSET (1..fresh) /\ fresh \in Nat
      BY DEF RowsOf, RowsTyped, CodesIn
    <2>2. r \in mine
      <3> HIDE DEF mine
      <3> QED BY <1>5, <2>1, MaxIsIn
    <2>3. r \in DOMAIN codes /\ row.kind \in LogKinds
      BY <2>2 DEF RowsOf
    <2> HIDE DEF r
    <2>4. row \in Stored(fresh)
      BY <2>3 DEF RowsTyped, CodesIn
    <2> HIDE DEF row
    <2>5. old \in Stored(fresh) /\ SameSends(old, row)
      BY <2>1, <2>4, Copied, NoResend
    <2>6. ~Live(row) => Idle(closed)
      BY <2>1, <2>4, CountsChanged
    <2>7. row.age # "old" /\ ~row.done => AsCounted(opened, row)
      BY <2>1, <2>3, <2>4, CountsChanged
    <2> HIDE DEF old
    <2>8. SameSends(closed, old)
      BY <2>1, <2>5, NoResend
    <2> HIDE DEF closed, opened
    <2>9. Follows(closed, row)
      BY <2>5, <2>8, Following DEF SameSends
    <2> QED BY <2>3, <2>6, <2>7, <2>9
  <1> HIDE DEF mine, r, closed, opened, plan, name
  <1>6. CASE mine # {} /\ ~Live(row) /\ Begin(w, name, Holding(r, closed, plan))
    BY <1>1, <1>3, <1>5, <1>6, PlainTallied
  <1>7. CASE mine # {} /\ row.age # "old" /\ ~row.done /\ Begin(w, name, Holding(r, opened, plan))
    <2>1. AsCounted(opened, codes[r])
      BY <1>5, <1>7
    <2>2. Follows(opened, codes[r])
      BY <2>1, Following
    <2> QED BY <1>1, <1>3, <1>5, <1>7, <2>1, <2>2, PlainTallied
  <1> QED BY <1>2, <1>4, <1>6, <1>7

\* The record of a change of password has no code.
LEMMA ChangePasswordTallied ==
  ASSUME IInv, RowsTyped, Tallied, NEW w \in Worker, NEW u, NEW old, NEW new, ChangePassword(w, u, old, new)
  PROVE  Tallied'
  <1> DEFINE Saves == <<"saveRow">>
             plan == <<"saveUser", "saveRow">>
             Blocked(r) == [Block(codes[r]) EXCEPT !.window = "lapsed"]
             Done(r) == [codes[r] EXCEPT !.done = TRUE, !.window = "lapsed"]
             acct == [users[u] EXCEPT !.pw = new]
             name == "changePassword"
  <1>1. UNCHANGED <<fresh, codes, clash, guesses>>
    BY Zenon DEF ChangePassword, ghosts
  <1>2. PICK r \in DOMAIN codes :
          /\ codes[r].kind = "password"
          /\ \/ Begin(w, name, Holding(r, Blocked(r), Saves))
             \/ Begin(w, name, Holding(r, Miss(codes[r]), Saves))
             \/ Begin(w, name, [Holding(r, Done(r), plan) EXCEPT !.acct = acct, !.pw = new])
    BY DEF ChangePassword, Pending, RowsOf
  <1> DEFINE row == codes[r]
             blocked == Block(row)
             done == Done(r)
             missed == Miss(row)
  <1>3. row \in Stored(fresh) /\ fresh \in Nat
    BY DEF RowsTyped, CodesIn
  <1>4. SameCode(done, row)
    <2> HIDE DEF row
    <2> DEFINE x == [row EXCEPT !.done = TRUE, !.window = "lapsed"]
    <2>1. SameCode(x, row)
      BY <1>3, Changed
    <2> QED BY <2>1 DEF row
  <1>5. Kept(missed, row) /\ blocked \in Stored(fresh) /\ Kept(blocked, row)
    <2> HIDE DEF row
    <2> QED BY <1>3, Copied, Changed
  <1>6. Kept(Blocked(r), row)
    <2> HIDE DEF blocked
    <2> DEFINE x == [blocked EXCEPT !.window = "lapsed"]
    <2>1. Kept(x, blocked)
      BY <1>3, <1>5, Changed
    <2>2. x = Blocked(r)
      BY DEF blocked
    <2> HIDE DEF x, Blocked, row
    <2> QED BY <1>5, <2>1, <2>2, KeptTwice
  <1>7. /\ Blocked(r).kind = "password" /\ missed.kind = "password" /\ done.kind = "password"
        /\ name \notin {"verify", "verifyEmail", "resend"} /\ Saves \notin Revising /\ plan \notin Revising
    <2> HIDE DEF Blocked, missed, done, row
    <2>1. row.kind = "password"
      BY <1>2 DEF row
    <2> QED BY <1>4, <1>5, <1>6, <2>1, SavedOnce DEF Kept, SameCode
  <1>8. /\ Idle(Blocked(r)) /\ Idle(missed) /\ Idle(done)
        /\ Follows(Blocked(r), codes[r]) /\ Follows(missed, codes[r]) /\ Follows(done, codes[r])
    <2> HIDE DEF Blocked, missed, done
    <2> QED BY <1>2, <1>7, Following DEF Idle
  <1> HIDE DEF Blocked, missed, done, plan, Saves, name, acct
  <1>9. CASE Begin(w, name, Holding(r, Blocked(r), Saves))
    BY <1>1, <1>2, <1>7, <1>8, <1>9, PlainTallied
  <1>10. CASE Begin(w, name, Holding(r, missed, Saves))
    BY <1>1, <1>2, <1>7, <1>8, <1>10, PlainTallied
  <1>11. CASE Begin(w, name, [Holding(r, done, plan) EXCEPT !.acct = acct, !.pw = new])
    <2> DEFINE h == Holding(r, done, plan)
               job == [h EXCEPT !.acct = acct, !.pw = new]
    <2>1. Begin(w, name, job)
      BY <1>11, Zenon
    <2>2. IsJob(h) /\ h.plan = plan /\ h.rec = r /\ h.row = done
      BY Held
    <2> HIDE DEF h
    <2>3. IsJob(job) /\ job.plan = plan /\ job.rec = r /\ job.row = done
      BY <2>2 DEF IsJob, Fields
    <2> HIDE DEF job
    <2>4. Silent(name, job)
      BY <1>7 DEF Silent
    <2> QED BY <1>1, <1>2, <1>7, <1>8, <2>1, <2>3, <2>4, HoldingTallied
  <1> QED BY <1>2, <1>9, <1>10, <1>11 DEF missed, done

LEMMA PostEmailTallied ==
  ASSUME IInv, RowsTyped, Tallied, NEW w \in Worker, NEW u, NEW a, PostEmail(w, u, a)
  PROVE  Tallied'
  <1> DEFINE plan == <<"saveRow", "revise", "saveRow", "deliver">>
             Row(r) == NewCode(codes[r], fresh')
             name == "postEmail"
  <1>1. fresh' = fresh + 1 /\ UNCHANGED <<codes, clash, guesses>>
    BY DEF PostEmail, ghosts
  <1>2. PICK r \in DOMAIN codes : Begin(w, name, [Holding(r, Row(r), plan) EXCEPT !.to = a])
    BY DEF PostEmail, RowsOf
  <1> DEFINE row == Row(r)
             h == Holding(r, row, plan)
             job == SentTo(h, a)
             n == fresh'
  <1>3. codes[r] \in Stored(n) /\ n \in Nat /\ n \in 0..n
    BY <1>1, Readable, AsBefore
  <1>4. row = NewCode(codes[r], n)
    OBVIOUS
  <1> HIDE DEF plan, Row, n
  <1>5. Follows(row, codes[r]) /\ Anew(row, codes[r])
    <2>1. SameSends(row, codes[r]) /\ row.code = n /\ row.attapts \in Nat
      BY <1>3, <1>4, NewCoded, NewCounted
    <2> QED BY <1>1, <2>1, Following DEF n, Anew
  <1>6. Begin(w, name, job)
    BY <1>2, Zenon DEF SentTo
  <1> HIDE DEF row
  <1>7. IsJob(h) /\ h.rec = r /\ h.row = row
    BY Held
  <1> HIDE DEF h
  <1>8. IsJob(job) /\ job.rec = r /\ job.row = row
    BY <1>7, HeldWith
  <1> HIDE DEF job
  <1>9. Silent(name, job) /\ name # "resend"
    BY DEF Silent
  <1> QED BY <1>1, <1>5, <1>6, <1>8, <1>9, HoldingTallied

LEMMA VerifyEmailTallied ==
  ASSUME IInv, RowsTyped, Tallied, NEW w \in Worker, NEW u, NEW c \in Typed, VerifyEmail(w, u, c)
  PROVE  Tallied'
  <1> DEFINE loading == <<"loadUser", "saveUser", "saveRow">>
             saves == <<"saveRow">>
             Missed2(r) == TooMany(Miss(codes[r]), [Dead(Block(Miss(codes[r]))) EXCEPT !.code = None])
             Done(r) == [Dead(codes[r]) EXCEPT !.done = TRUE]
             name == "verifyEmail"
  <1>1. UNCHANGED <<fresh, codes, clash, guesses>>
    BY DEF VerifyEmail
  <1>2. PICK r \in DOMAIN codes :
          /\ codes[r].kind = "email" /\ ~codes[r].blocked
          /\ \/ Begin(w, name, Holding(r, Missed2(r), saves))
             \/ Begin(w, name, [Holding(r, Done(r), loading) EXCEPT !.code = c])
    BY DEF VerifyEmail, Pending, RowsOf
  <1> DEFINE row == codes[r]
             dead == Dead(row)
             done == Done(r)
  <1>3. row \in Stored(fresh) /\ fresh \in Nat
    BY DEF RowsTyped, CodesIn
  <1>4. /\ SameSends(Missed2(r), row)
        /\ Idle(Missed2(r)) \/ (Missed2(r).code = row.code /\ \A n \in Nat : Counts(row, n) => Counts(Missed2(r), n + 1))
    BY <1>2, <1>3, MissCounts
  <1>5. dead \in Stored(fresh) /\ SameSends(dead, row) /\ ~Live(dead)
    <2> HIDE DEF row
    <2>1. dead.window = "dead"
      BY <1>3 DEF Stored, Dead
    <2> QED BY <1>3, <2>1, Copied, NoResend DEF Live
  <1>6. Follows(done, row) /\ Idle(done)
    <2> HIDE DEF dead, row
    <2> DEFINE x == [dead EXCEPT !.done = TRUE]
    <2>1. SameSends(x, dead) /\ Idle(x)
      BY <1>3, <1>5, NoResend, CountsChanged
    <2>2. x = done
      BY DEF dead, row
    <2> HIDE DEF x, done
    <2> QED BY <1>5, <2>1, <2>2, Following DEF SameSends
  <1> HIDE DEF Missed2, Done, loading, done
  <1>7. CASE Begin(w, name, Holding(r, Missed2(r), saves))
    <2>1. Missed2(r).kind = "email"
      BY <1>2, <1>4 DEF SameSends
    <2> QED BY <1>1, <1>4, <1>7, <2>1, MissTallied
  <1>8. CASE Begin(w, name, [Holding(r, done, loading) EXCEPT !.code = c])
    <2> DEFINE h == Holding(r, done, loading)
               job == WithCode(h, c)
    <2>1. IsJob(h) /\ h.plan = loading /\ h.rec = r /\ h.row = done
      BY Held
    <2>2. Begin(w, name, job)
      BY <1>8, Zenon DEF WithCode
    <2> HIDE DEF h
    <2>3. IsJob(job) /\ job.plan = loading /\ job.rec = r /\ job.row = done /\ job.code = c
      BY <2>1, HeldWith
    <2>4. Silent(name, job)
      BY <2>3, TypedCode DEF Silent
    <2>5. job.plan \notin Revising
      BY <2>3, SavedOnce DEF loading
    <2> HIDE DEF job
    <2> QED BY <1>1, <1>6, <2>2, <2>3, <2>4, <2>5, HoldingTallied
  <1> QED BY <1>2, <1>7, <1>8 DEF done

LEMMA ResendEmailTallied ==
  ASSUME IInv, RowsTyped, Tallied, NEW w \in Worker, NEW u, ResendEmail(w, u)
  PROVE  Tallied'
  <1> DEFINE plan == <<"saveRow", "revise", "saveRow", "deliver">>
             saves == <<"saveRow">>
             Last(r) == [Dead(Block(codes[r])) EXCEPT !.code = None]
             Row(r) == ResentRow(codes[r])
             name == "resendEmail"
  <1>1. UNCHANGED <<fresh, codes, clash, guesses>>
    BY DEF ResendEmail, ghosts
  <1>2. PICK r \in DOMAIN codes :
          \/ Begin(w, name, Holding(r, Last(r), saves))
          \/ /\ codes[r].kind = "email" /\ codes[r].resend < MaxResend
             /\ Begin(w, name, Holding(r, Row(r), plan))
    BY DEF ResendEmail, Pending, RowsOf, ResentRow
  <1>3. codes[r] \in Stored(fresh) /\ fresh \in Nat
    BY DEF RowsTyped, CodesIn
  <1>4. name \notin {"verify", "verifyEmail", "resend"} /\ saves \notin Revising
    BY SavedOnce
  <1>5. CASE Begin(w, name, Holding(r, Last(r), saves))
    <2> DEFINE old == Block(codes[r])
               dead == Dead(old)
               none == [dead EXCEPT !.code = None]
    <2>1. old \in Stored(fresh) /\ SameSends(old, codes[r])
      BY <1>3, Copied, NoResend
    <2> HIDE DEF old
    <2>2. dead \in Stored(fresh) /\ SameSends(dead, old)
      BY <1>3, <2>1, Copied, NoResend
    <2> HIDE DEF dead
    <2>3. Spent(none, dead) /\ SameSends(none, dead)
      BY <1>3, <2>2, Changed, NoResend
    <2>4. none = Last(r)
      BY DEF dead, old
    <2> HIDE DEF none, Last
    <2>5. Follows(Last(r), codes[r]) /\ Idle(Last(r))
      BY <2>1, <2>2, <2>3, <2>4, Following DEF Spent, SameSends, Idle
    <2> HIDE DEF saves, name
    <2> QED BY <1>1, <1>4, <1>5, <2>5, PlainTallied
  <1>6. CASE /\ codes[r].kind = "email" /\ codes[r].resend < MaxResend
             /\ Begin(w, name, Holding(r, Row(r), plan))
    <2> DEFINE row == Row(r)
    <2>1. row.kind = codes[r].kind /\ row.resend = codes[r].resend + 1 /\ row.attapts \in Nat
      <3>1. 0 \in 0..fresh
        BY <1>3
      <3> QED BY <1>3, <3>1, NewCounted
    <2> HIDE DEF Row, row, plan, name
    <2>2. Follows(row, codes[r]) /\ Anew(row, codes[r])
      BY <1>6, <2>1 DEF Follows, Anew
    <2>3. Begin(w, name, Holding(r, row, plan))
      BY <1>6 DEF row
    <2> QED BY <1>1, <1>4, <2>2, <2>3, PlainTallied
  <1> QED BY <1>2, <1>5, <1>6

\* Between the two saves of a request nobody guesses: its code is not stored
\* yet, or about to change, unless another holds the record.
LEMMA ReviseTallied ==
  ASSUME IInv, RowsTyped, Tallied, NEW w \in Worker, Revise(w)
  PROVE  Tallied'
  <1> DEFINE j == jobs[w]
             aimed == PostedRow(j.row, j.to)
             recoded == NewCode(j.row, fresh')
  <1>1. On(w, "revise") /\ UNCHANGED <<codes, clash, guesses>> /\ (fresh' = fresh \/ fresh' = fresh + 1)
    BY DEF Revise, ghosts
  <1>2. /\ j.kind \in {"postEmail", "resendEmail"}
        /\ \/ Proceed(w, [j EXCEPT !.row = aimed])
           \/ fresh' = fresh + 1 /\ Proceed(w, [j EXCEPT !.row = recoded])
    BY DEF Revise, PostedRow
  <1>3. IsJob(j) /\ Carries(fresh, j) /\ j.plan = <<"revise", "saveRow", "deliver">>
    BY <1>1, ByHead DEF IInv, JobsOK, JobOK, RowsTyped, On
  <1>4. j.row \in Stored(fresh) /\ fresh \in Nat /\ CountOK(j, codes, guesses, clash) /\ Guesses(guesses, fresh)
    BY <1>3, Zenon DEF Carries, RowsTyped, Tallied
  <1>5. /\ SameSends(aimed, j.row) /\ aimed.code = j.row.code /\ aimed.attapts \in Nat
        /\ fresh' \in Nat => SameSends(recoded, j.row) /\ recoded.code = fresh' /\ recoded.attapts \in Nat
    <2>1. 0 \in 0..fresh
      BY <1>4
    <2>2. SameSends(aimed, j.row) /\ Kept(aimed, j.row) /\ aimed.attapts = 1
      BY <1>4, <2>1, NewCounted, NewCoded
    <2>3. ASSUME fresh' \in Nat PROVE SameSends(recoded, j.row) /\ recoded.code = fresh' /\ recoded.attapts \in Nat
      <3> DEFINE n == fresh'
      <3>1. n = fresh \/ n = fresh + 1
        BY <1>1
      <3> HIDE DEF n
      <3>2. n \in Nat /\ n \in 0..n /\ 0..fresh \subseteq 0..n /\ 1..fresh \subseteq 1..n
        BY <1>4, <3>1
      <3>3. j.row \in Stored(n)
        BY <1>4, <3>2 DEF Stored
      <3>4. SameSends(NewCode(j.row, n), j.row) /\ NewCode(j.row, n).code = n /\ NewCode(j.row, n).attapts \in Nat
        BY <3>2, <3>3, NewCounted, NewCoded
      <3> QED BY <3>4 DEF n
    <2> QED BY <2>2, <2>3 DEF Kept
  <1>6. PICK row : /\ Proceed(w, [j EXCEPT !.row = row]) /\ SameSends(row, j.row) /\ row.attapts \in Nat
                   /\ row.code = j.row.code \/ row.code = fresh + 1
    <2> HIDE DEF j, aimed, recoded
    <2>1. CASE Proceed(w, [j EXCEPT !.row = aimed])
      BY <1>5, <2>1, Zenon
    <2>2. CASE fresh' = fresh + 1 /\ Proceed(w, [j EXCEPT !.row = recoded])
      <3>1. SameSends(recoded, j.row) /\ recoded.code = fresh + 1 /\ recoded.attapts \in Nat
        BY <1>4, <1>5, <2>2
      <3> QED BY <2>2, <3>1, Zenon
    <2> QED BY <1>2, <2>1, <2>2
  <1> DEFINE job == [j EXCEPT !.row = row]
             k == Advance(job)
  <1>7. IsJob(job) /\ job.plan = j.plan /\ job.rec = j.rec /\ job.row = row /\ job.kind = j.kind
    BY <1>3 DEF IsJob, Fields
  <1>8. Proceed(w, job)
    BY <1>6
  <1> HIDE DEF job
  <1>9. Len(j.plan) # 1 /\ Tail(j.plan) = <<"saveRow", "deliver">>
    BY <1>3
  <1>10. k.plan = <<"saveRow", "deliver">> /\ k.rec = j.rec /\ k.row = row /\ k.kind = j.kind
    <2>1. IsJob(job) /\ Len(job.plan) # 1
      BY <1>7, <1>9
    <2>2. k.plan = Tail(job.plan) /\ k.kind = job.kind /\ k.rec = job.rec /\ k.row = job.row
      BY <2>1, Fieldwise
    <2> QED BY <1>7, <1>9, <2>2
  <1>11. jobs' = [jobs EXCEPT ![w] = k]
    BY <1>8 DEF Proceed
  <1> HIDE DEF k
  <1>12. j.plan \in SavesRow /\ j.plan \in Revising /\ k.plan \notin Revising /\ ~Missed(k) /\ More(k) = 0 /\ k.kind # "resend"
    BY <1>2, <1>3, <1>10 DEF SavesRow, Revising, Missed, More
  <1>13. ASSUME j.rec \notin clash
         PROVE  /\ Counts(row, Tally(guesses, j.rec, Round(row)))
                /\ Within(guesses, j.rec, row)
                /\ j.rec \in DOMAIN codes => Ahead(row, codes[j.rec])
    <2>1. /\ Within(guesses, j.rec, j.row) /\ Tally(guesses, j.rec, Round(j.row)) = 0
          /\ j.rec \in DOMAIN codes => Ahead(j.row, codes[j.rec])
      BY <1>4, <1>12, <1>13 DEF CountOK
    <2>2. Within(guesses, j.rec, row) /\ (j.rec \in DOMAIN codes => Ahead(row, codes[j.rec]))
      BY <1>6, <2>1 DEF Within, Ahead, SameSends
    <2>3. Tally(guesses, j.rec, Round(row)) = 0
      <3>1. CASE row.code = j.row.code
        BY <1>6, <2>1, <3>1 DEF Round, SameSends
      <3>2. CASE row.code = fresh + 1
        <4>1. row.code \notin 1..fresh
          BY <1>4, <3>2
        <4> QED BY <1>4, <4>1, Unguessed
      <3> QED BY <1>6, <3>1, <3>2
    <2> QED BY <1>6, <2>2, <2>3, CountsIdle
  <1>14. CountOK(k, codes, guesses, clash)
    <2>1. \A a \in Nat : a + More(k) = a
      BY <1>12
    <2>2. Tally(guesses, j.rec, Round(row)) \in Nat
      BY <1>4, TallyNat
    <2> QED BY <1>10, <1>12, <1>13, <2>1, <2>2 DEF CountOK
  <1> QED BY <1>1, <1>11, <1>14, TalliedStep

LEMMA ChangeTallied ==
  ASSUME IInv, RowsTyped, Tallied, NEW w \in Worker, ChangeStep(w)
  PROVE  Tallied'
  BY OpenWindowTallied, ChangePasswordTallied, PostEmailTallied, VerifyEmailTallied, ResendEmailTallied, ReviseTallied
     DEF ChangeStep

LEMMA MintTallied ==
  ASSUME IInv, RowsTyped, Tallied, NEW w \in Worker, Mint(w)
  PROVE  Tallied'
  <1> DEFINE j == jobs[w]
             n == fresh'
             job == [j EXCEPT !.rec = n]
  <1>1. On(w, "mint") /\ Proceed(w, job) /\ fresh' = fresh + 1 /\ UNCHANGED <<codes, clash, guesses>>
    BY DEF Mint, ghosts
  <1>2. j.plan = <<"mint", "record">> /\ IsJob(j)
    BY <1>1, ByHead DEF On, RowsTyped, IInv, JobsOK, JobOK
  <1> HIDE DEF n
  <1>3. IsJob(job) /\ job.plan = j.plan /\ job.kind = j.kind /\ job.code = j.code
    BY <1>2 DEF IsJob, Fields
  <1> HIDE DEF job
  <1>4. j.plan \notin SavesRow /\ j.plan # <<>> /\ Head(j.plan) # "issue"
    BY <1>2, IdlePlans DEF Minting
  <1> QED BY <1>1, <1>3, <1>4, GoesOnTallied

LEMMA SessionTallied ==
  ASSUME IInv, RowsTyped, Tallied, NEW w \in Worker, SessionStep(w)
  PROVE  Tallied'
  <1>1. ASSUME NEW kind \in {"login", "refresh", "logout"}, NEW user, NEW rec,
               NEW plan \in {<<"mint", "record">>, <<"rotate">>, <<"blacklist", "close">>}, NEW job,
               job = [NoJob EXCEPT !.plan = plan, !.user = user] \/ job = [NoJob EXCEPT !.plan = plan, !.user = user, !.rec = rec],
               Begin(w, kind, job), UNCHANGED <<fresh, codes, clash, guesses>>
        PROVE  Tallied'
    <2>1. IsJob(job) /\ job.plan = plan
      BY <1>1, NoJobOK DEF IsJob, Fields
    <2>2. job.plan \notin SavesRow /\ Silent(kind, job)
      BY <1>1, <2>1, IdlePlans DEF Minting, Closing, Silent
    <2> QED BY <1>1, <2>1, <2>2, IdleTallied
  <1>2. ASSUME NEW u, NEW p, Login(w, u, p) PROVE Tallied'
    <2>1. Begin(w, "login", [NoJob EXCEPT !.plan = <<"mint", "record">>, !.user = u])
      BY <1>2, Zenon DEF Login
    <2>2. UNCHANGED <<fresh, codes, clash, guesses>>
      BY <1>2 DEF Login, ghosts
    <2> QED BY <1>1, <2>1, <2>2
  <1>3. ASSUME NEW t, Refresh(w, t) PROVE Tallied'
    <2> DEFINE user == tokens[t].user
    <2>1. Begin(w, "refresh", [NoJob EXCEPT !.plan = <<"rotate">>, !.user = user, !.rec = t])
      BY <1>3, Zenon DEF Refresh
    <2>2. UNCHANGED <<fresh, codes, clash, guesses>>
      BY <1>3 DEF Refresh, ghosts
    <2> HIDE DEF user
    <2> QED BY <1>1, <2>1, <2>2
  <1>4. ASSUME NEW t, Logout(w, t) PROVE Tallied'
    <2> DEFINE user == tokens[t].user
    <2>1. Begin(w, "logout", [NoJob EXCEPT !.plan = <<"blacklist", "close">>, !.user = user, !.rec = t])
      BY <1>4, Zenon DEF Logout
    <2>2. UNCHANGED <<fresh, codes, clash, guesses>>
      BY <1>4 DEF Logout, ghosts
    <2> HIDE DEF user
    <2> QED BY <1>1, <2>1, <2>2
  <1>5. ASSUME NEW u, LogoutAll(w, u) PROVE Tallied'
    <2>1. UNCHANGED <<fresh, codes, jobs, clash, guesses>>
      BY <1>5 DEF LogoutAll, ghosts
    <2> QED BY <2>1, TalliedFrame
  <1>6. CASE Record(w) \/ Rotate(w) \/ Blacklist(w) \/ CloseSession(w)
    <2>1. PICK step \in {"record", "rotate", "blacklist", "close"} : On(w, step) /\ Proceed(w, jobs[w])
      BY <1>6 DEF Record, Rotate, Blacklist, CloseSession
    <2>2. UNCHANGED <<codes, clash, guesses>> /\ (fresh' = fresh \/ fresh' = fresh + 1)
      BY <1>6 DEF Record, Rotate, Blacklist, CloseSession, ghosts
    <2> QED BY <2>1, <2>2, CalmTallied
  <1> QED BY <1>2, <1>3, <1>4, <1>5, <1>6, MintTallied DEF SessionStep

\* Time gives no code more guesses; it passes for no record about to be saved.
LEMMA TimeTallied ==
  ASSUME RowsTyped, Tallied, Time
  PROVE  Tallied'
  <1>1. PICK r, row :
          /\ r \in DOMAIN codes
          /\ Pass(r, row)
          /\ \/ row = Dead(codes[r]) /\ codes[r].kind \in OtpKinds
             \/ row = [codes[r] EXCEPT !.window = "lapsed"]
             \/ row = [codes[r] EXCEPT !.blocked = FALSE] /\ ~Live(codes[r])
             \/ row = [codes[r] EXCEPT !.age = IF @ = "new" THEN "recent" ELSE "old"]
    BY DEF Time, Lapse, Die, Unblock, Age
  <1> DEFINE was == codes[r]
  <1>2. was \in Stored(fresh) /\ fresh \in Nat
    BY <1>1 DEF RowsTyped, CodesIn
  <1>3. \/ row = Dead(was) /\ was.kind \in OtpKinds
        \/ row = [was EXCEPT !.window = "lapsed"]
        \/ row = [was EXCEPT !.blocked = FALSE] /\ ~Live(was)
        \/ row = [was EXCEPT !.age = IF @ = "new" THEN "recent" ELSE "old"]
    BY <1>1
  <1> HIDE DEF was
  <1>4. AsCounted(row, was) \/ (Idle(row) /\ row.kind # "email")
    <2>1. AsCounted(row, was) \/ (row = Dead(was) /\ was.kind # "email" /\ Idle(row))
      BY <1>2, <1>3, CountsChanged, SavedOnce
    <2>2. SameSends(Dead(was), was)
      BY <1>2, NoResend
    <2> QED BY <2>1, <2>2 DEF SameSends
  <1>5. /\ codes' = [codes EXCEPT ![r] = row] /\ UNCHANGED <<fresh, jobs, clash, guesses>>
        /\ \A v \in Worker : ~HoldsRow(v, r)
    BY <1>1 DEF Pass, ghosts
  <1>6. \A v \in Worker : jobs[v].plan \in SavesRow => jobs[v].rec # r
    <2>1. \A v \in Worker : jobs[v].plan \in SavesRow => HoldsRow(v, jobs[v].rec)
      BY SeenHolding
    <2> QED BY <1>5, <2>1
  <1> QED
    <2>1. CASE r \in clash
      <3>1. Guesses(guesses', fresh') /\ GuessesBounded'
        BY <1>5 DEF Tallied, GuessesBounded
      <3>2. \A q \in DOMAIN codes' \ clash' : Sound(guesses', q, codes'[q])
        <4>1. \A q \in DOMAIN codes' \ clash' : q \in DOMAIN codes \ clash /\ codes'[q] = codes[q]
          BY <1>5, <2>1
        <4> QED BY <1>5, <4>1 DEF Tallied
      <3>3. \A v \in Worker : CountOK(jobs'[v], codes', guesses', clash')
        <4>1. ASSUME NEW v \in Worker PROVE CountOK(jobs[v], codes', guesses, clash)
          <5>1. CountOK(jobs[v], codes, guesses, clash)
            BY DEF Tallied
          <5>2. jobs[v].plan \in SavesRow /\ jobs[v].rec \in DOMAIN codes' =>
                  jobs[v].rec \in DOMAIN codes /\ codes'[jobs[v].rec] = codes[jobs[v].rec]
            BY <1>5, <1>6
          <5> QED BY <5>1, <5>2, CountStays
        <4> QED BY <1>5, <4>1
      <3> QED BY <3>1, <3>2, <3>3 DEF Tallied
    <2>2. CASE r \notin clash
      <3>1. Sound(guesses, r, row)
        <4>1. CASE Idle(row) /\ row.kind # "email"
          BY <4>1, IdleCounts DEF Sound, Within
        <4>2. CASE AsCounted(row, was)
          <5>1. Sound(guesses, r, was) /\ Tally(guesses, r, Round(was)) \in Nat
            BY <1>1, <2>2, TallyNat DEF Tallied, was
          <5>2. Round(row) = Round(was) /\ (Within(guesses, r, was) => Within(guesses, r, row))
            BY <4>2, SameRound
          <5> QED BY <4>2, <5>1, <5>2 DEF AsCounted, Sound
        <4> QED BY <1>4, <4>1, <4>2
      <3>2. \A q \in DOMAIN codes' : \/ q \in DOMAIN codes /\ codes'[q] = codes[q]
                                     \/ /\ Sound(guesses, q, codes'[q])
                                        /\ \A v \in Worker : jobs[v].plan \in SavesRow => jobs[v].rec # q
        BY <1>1, <1>5, <1>6, <3>1
      <3> QED BY <1>5, <3>2, TalliedFrame
    <2> QED BY <2>1, <2>2

LEMMA NextTallied == IInv /\ RowsTyped /\ Tallied /\ [Next]_vars => Tallied'
  <1> SUFFICES ASSUME IInv, RowsTyped, Tallied, [Next]_vars PROVE Tallied'
    OBVIOUS
  <1>1. CASE UNCHANGED vars
    <2>1. UNCHANGED <<fresh, codes, jobs, clash, guesses>>
      BY <1>1 DEF vars
    <2> QED BY <2>1, TalliedFrame
  <1>2. CASE Next
    BY <1>2, RowStepTallied, RegistrationTallied, ChangeTallied, SessionTallied, TimeTallied DEF Next
  <1> QED BY <1>1, <1>2

LEMMA InitTallied == Init => Tallied
  <1> SUFFICES ASSUME Init PROVE Tallied
    OBVIOUS
  <1> DEFINE n == Len(flow.members)
             Old(i) == [NewRow("register") EXCEPT !.user = i, !.code = n + i, !.window = "dead"]
  <1>1. jobs = [w \in Worker |-> NoJob] /\ codes = [r \in n + 1..2 * n |-> Old(r - n)]
    BY Zenon DEF Init
  <1>2. DOMAIN guesses = {}
    <2>1. guesses = <<>>
      BY Zenon DEF Init
    <2> QED BY <2>1
  <1>3. \A i : Old(i).kind = "register" /\ Old(i).window = "dead"
    BY DEF NewRow
  <1> HIDE DEF Old, n
  <1>4. \A r \in DOMAIN codes : Idle(codes[r]) /\ codes[r].kind # "email"
    BY <1>1, <1>3 DEF Idle, Live, Reopens
  <1>5. \A r \in DOMAIN codes \ clash : Sound(guesses, r, codes[r])
    BY <1>4, IdleCounts DEF Sound, Within
  <1>6. \A w \in Worker : CountOK(jobs[w], codes, guesses, clash)
    BY <1>1, NoJobCounts
  <1>7. Guesses(guesses, fresh) /\ GuessesBounded
    BY <1>2 DEF Guesses, GuessesBounded
  <1> QED BY <1>5, <1>6, <1>7 DEF Tallied

(* A code takes at most MaxWrong + 1 wrong guesses while it is live,       *)
(* through resends, re-opened windows and blocks, unless two requests held *)
(* its record at once.                                                     *)
THEOREM GuessesBoundedHolds == Spec => []GuessesBounded
  <1>1. Tallied => GuessesBounded
    BY DEF Tallied
  <1> QED BY <1>1, InitInv, NextInv, InitCopies, NextCopies, InitTyped, NextTyped, InitTallied, NextTallied, PTL DEF Spec
=============================================================================
