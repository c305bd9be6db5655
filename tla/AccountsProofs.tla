--------------------------- MODULE AccountsProofs ---------------------------
(***************************************************************************)
(* For any users, mixes of requests and number of requests in flight:      *)
(*                                                                         *)
(* - a token that still works and whose Session was recorded belongs to an *)
(* open session, and a verified account is deleted only by a registration  *)
(* that was under way when it was verified.  The invariant says where each *)
(* request stands: one that has still to close a Session has put its token *)
(* on the blacklist, and one that has still to clear an address is a       *)
(* registration that read an inactive user;                                *)
(*                                                                         *)
(* - what an answer told a user of his account stays true of his row, unless *)
(* two requests held a copy of it at once.  The invariant is about the     *)
(* copies: one that is still to be saved is what its user has been told,   *)
(* with the change its request asks for;                                   *)
(*                                                                         *)
(* - rows, mails and the rows that requests hold in memory are well formed *)
(* and name drawn identifiers.  This rests on the other two.               *)
(***************************************************************************)
EXTENDS Accounts, SequenceTheorems, WellFoundedInduction, TLAPS

\* The statements of the requests on users and codes: none touches a token.
Later == {"create", "issue", "loadUser", "saveUser", "saveRow", "deliver", "renew", "revise"}
Steps == {"clear"} \cup Later

\* A request in flight has the fields of NoJob.
Fields == {"kind", "plan", "user", "acct", "rec", "row", "to", "pw", "code"}
IsJob(j) == j = [field \in Fields |-> j[field]]

\* Only its first statement may clear an address.
RowPlan(j) ==
  /\ j.plan \in Seq(Steps)
  /\ \A i \in 2..Len(j.plan) : j.plan[i] \in Later
  /\ j.plan # <<>> /\ Head(j.plan) = "clear" => j.kind = "register" /\ ~j.acct.active
TokenPlan(j) ==
  \/ j.plan = <<"mint", "record">>
  \/ j.plan \in {<<"record">>, <<"rotate">>, <<"blacklist", "close">>} /\ j.rec \in DOMAIN tokens
  \/ j.plan = <<"close">> /\ j.rec \in DOMAIN tokens /\ tokens[j.rec].black

JobOK(j) == IsJob(j) /\ (RowPlan(j) \/ TokenPlan(j))

TokensOK ==
  /\ fresh \in Nat
  /\ DOMAIN tokens \subseteq 1..fresh
  /\ \A t \in DOMAIN tokens :
       tokens[t] = [user |-> tokens[t].user, black |-> tokens[t].black, rotated |-> tokens[t].rotated]

SessionsOK ==
  /\ sessions = [t \in DOMAIN sessions |-> sessions[t]]
  /\ DOMAIN sessions \subseteq DOMAIN tokens
  /\ \A t \in DOMAIN sessions : sessions[t] = [user |-> sessions[t].user, open |-> sessions[t].open]

JobsOK == jobs = [w \in Worker |-> jobs[w]] /\ \A w \in Worker : JobOK(jobs[w])

IInv == TokensOK /\ SessionsOK /\ JobsOK /\ UsableTokenListed

-----------------------------------------------------------------------------
\* A plan that clears no address.
LEMMA Plain ==
  ASSUME NEW j, j.plan \in Seq(Later)
  PROVE  RowPlan(j)
  BY DEF RowPlan, Steps, Later

LEMMA NoJobOK == IsJob(NoJob) /\ RowPlan(NoJob)
  <1>1. NoJob.plan = <<>> /\ <<>> \in Seq(Later)
    BY DEF NoJob
  <1>2. IsJob(NoJob)
    BY DEF IsJob, Fields, NoJob
  <1> QED BY <1>1, <1>2, Plain

\* A request has a next statement, and only that may be a clear.
Onward(j) == j.plan # <<>> /\ Tail(j.plan) \in Seq(Later)

\* A request whose next statement is one of a row plan runs a row plan.
LEMMA RowStatement ==
  ASSUME NEW w \in Worker, NEW step \in Steps, JobsOK, On(w, step)
  PROVE  IsJob(jobs[w]) /\ RowPlan(jobs[w]) /\ Onward(jobs[w])
  <1>1. IsJob(jobs[w]) /\ RowPlan(jobs[w]) /\ jobs[w].plan # <<>>
    BY DEF JobsOK, JobOK, TokenPlan, On, Steps, Later
  <1> DEFINE p == jobs[w].plan
  <1>2. Tail(p) \in Seq(Steps) /\ Len(Tail(p)) = Len(p) - 1 /\ \A i \in 1..Len(Tail(p)) : Tail(p)[i] = p[i + 1]
    BY <1>1, HeadTailProperties DEF RowPlan
  <1>3. \A i \in 1..Len(Tail(p)) : Tail(p)[i] \in Later
    <2> SUFFICES ASSUME NEW i \in 1..Len(Tail(p)) PROVE Tail(p)[i] \in Later
      OBVIOUS
    <2>1. Len(p) \in Nat /\ i + 1 \in 2..Len(p)
      BY <1>1, <1>2 DEF RowPlan
    <2> QED BY <1>1, <1>2, <2>1 DEF RowPlan
  <1> HIDE DEF p
  <1>4. ASSUME NEW q \in Seq(Steps), \A i \in 1..Len(q) : q[i] \in Later PROVE q \in Seq(Later)
    BY <1>4
  <1> QED BY <1>1, <1>2, <1>3, <1>4 DEF Onward, p

\* What is left of a row plan is a row plan.
LEMMA AdvanceRow ==
  ASSUME NEW j, IsJob(j), Onward(j)
  PROVE  IsJob(Advance(j)) /\ RowPlan(Advance(j))
  <1>1. CASE Len(j.plan) = 1
    BY <1>1, NoJobOK DEF Advance
  <1>2. CASE Len(j.plan) # 1
    <2>1. Advance(j) = [j EXCEPT !.plan = Tail(j.plan)]
      BY <1>2 DEF Advance
    <2> QED BY <2>1, Plain DEF Onward, IsJob, Fields
  <1> QED BY <1>1, <1>2

\* A step that leaves the tokens alone, only drops Sessions, and leaves one
\* worker with a row plan, keeps the invariant.
LEMMA Frame ==
  ASSUME IInv, NEW w \in Worker, NEW j, IsJob(j), RowPlan(j), NEW S,
         jobs' = [jobs EXCEPT ![w] = j],
         tokens' = tokens, fresh' \in Nat, fresh' >= fresh,
         sessions' = [t \in {s \in DOMAIN sessions : s \in S} |-> sessions[t]]
  PROVE  IInv'
  <1>1. TokensOK'
    BY DEF IInv, TokensOK
  <1>2. SessionsOK' /\ UsableTokenListed'
    BY DEF IInv, SessionsOK, UsableTokenListed
  <1>3. jobs' = [v \in Worker |-> jobs'[v]] /\ \A v \in Worker : jobs'[v] = IF v = w THEN j ELSE jobs[v]
    BY DEF IInv, JobsOK
  <1>4. \A v \in Worker : JobOK(jobs[v])
    BY DEF IInv, JobsOK
  <1>5. ASSUME NEW v \in Worker PROVE JobOK(jobs[v])'
    <2>1. CASE v = w
      BY <2>1, <1>3 DEF JobOK, IsJob, Fields, RowPlan
    <2>2. CASE v # w
      BY <2>2, <1>3, <1>4 DEF JobOK, IsJob, Fields, RowPlan, TokenPlan
    <2> QED BY <2>1, <2>2
  <1> QED BY <1>1, <1>2, <1>3, <1>5 DEF IInv, JobsOK

\* The same without a Session dropped.
LEMMA FrameSame ==
  ASSUME IInv, NEW w \in Worker, NEW j, IsJob(j), RowPlan(j),
         jobs' = [jobs EXCEPT ![w] = j],
         tokens' = tokens, fresh' \in Nat, fresh' >= fresh, sessions' = sessions
  PROVE  IInv'
  <1>1. sessions' = [t \in {s \in DOMAIN sessions : s \in DOMAIN sessions} |-> sessions[t]]
    BY DEF IInv, SessionsOK
  <1> QED BY <1>1, Frame

\* A new identifier or none.
LEMMA Drawn ==
  ASSUME IInv, fresh' = fresh \/ fresh' = fresh + 1
  PROVE  fresh \in Nat /\ fresh' \in Nat /\ fresh' >= fresh
  BY DEF IInv, TokensOK

\* A request on users or codes begins.
LEMMA BeginRow ==
  ASSUME IInv, NEW w \in Worker, NEW kind, NEW job, IsJob(job),
         RowPlan([job EXCEPT !.kind = kind]), Begin(w, kind, job),
         fresh' = fresh \/ fresh' = fresh + 1, UNCHANGED auth
  PROVE  IInv'
  <1>1. IsJob([job EXCEPT !.kind = kind])
    BY DEF IsJob, Fields
  <1>2. jobs' = [jobs EXCEPT ![w] = [job EXCEPT !.kind = kind]] /\ tokens' = tokens /\ sessions' = sessions
    BY DEF Begin, auth
  <1> QED BY <1>1, <1>2, Drawn, FrameSame

\* It goes on, with the same plan or it has been changed in memory, or stops.
LEMMA GoOnRow ==
  ASSUME IInv, NEW w \in Worker, NEW step \in Steps, On(w, step),
         NEW job, IsJob(job), job.plan = jobs[w].plan, Proceed(w, job) \/ Stop(w),
         fresh' = fresh \/ fresh' = fresh + 1, UNCHANGED auth
  PROVE  IInv'
  <1>1. Onward(job)
    BY RowStatement DEF IInv, Onward
  <1>2. tokens' = tokens /\ sessions' = sessions
    BY DEF auth
  <1>3. CASE Proceed(w, job)
    BY <1>1, <1>2, <1>3, AdvanceRow, Drawn, FrameSame DEF Proceed
  <1>4. CASE Stop(w)
    BY <1>2, <1>4, NoJobOK, Drawn, FrameSame DEF Stop
  <1> QED BY <1>3, <1>4

\* The same when a user's Sessions go with him.
LEMMA DeletingRow ==
  ASSUME IInv, NEW w \in Worker, NEW step \in Steps, On(w, step), NEW u, DeleteUser(u),
         Proceed(w, jobs[w]) \/ Stop(w), fresh' = fresh, tokens' = tokens
  PROVE  IInv'
  <1>1. IsJob(jobs[w]) /\ Onward(jobs[w])
    BY RowStatement DEF IInv
  <1> DEFINE S == {s \in DOMAIN sessions : sessions[s].user # u}
  <1>2. sessions' = [t \in {s \in DOMAIN sessions : s \in S} |-> sessions[t]]
    BY DEF DeleteUser
  <1> HIDE DEF S
  <1>3. CASE Proceed(w, jobs[w])
    BY <1>1, <1>2, <1>3, AdvanceRow, Drawn, Frame DEF Proceed
  <1>4. CASE Stop(w)
    BY <1>2, <1>4, NoJobOK, Drawn, Frame DEF Stop
  <1> QED BY <1>3, <1>4

LEMMA HoldingOK ==
  ASSUME NEW r, NEW row, NEW plan
  PROVE  IsJob(Holding(r, row, plan)) /\ Holding(r, row, plan).plan = plan
  <1>1. IsJob(NoJob)
    BY NoJobOK
  <1> QED BY <1>1 DEF IsJob, Fields, Holding

-----------------------------------------------------------------------------
\* The statements of AccountRows.
LEMMA RowStepInv ==
  ASSUME IInv, NEW w \in Worker, RowStep(w)
  PROVE  IInv'
  <1> USE DEF Steps, Later
  <1>0. \A step \in Steps : On(w, step) => IsJob(jobs[w])
    BY RowStatement DEF IInv
  <1>1. CASE Clear(w)
    BY <1>1, DeletingRow DEF Clear
  <1>2. CASE Create(w)
    <2>1. On(w, "create") /\ IsJob(jobs[w])
      BY <1>0, <1>2 DEF Create
    <2>2. IsJob([jobs[w] EXCEPT !.user = fresh']) /\ [jobs[w] EXCEPT !.user = fresh'].plan = jobs[w].plan
      BY <2>1 DEF IsJob, Fields
    <2> QED BY <1>2, <2>1, <2>2, GoOnRow DEF Create
  <1>3. CASE Issue(w)
    <2>1. On(w, "issue") /\ IsJob(jobs[w])
      BY <1>0, <1>3 DEF Issue
    <2> DEFINE row == [jobs[w].row EXCEPT !.user = jobs[w].user,
                             !.code = IF jobs[w].row.kind = "link" THEN fresh' ELSE None]
               drawn == IF row.kind \in OtpKinds THEN NewCode(row, fresh') ELSE row
    <2>2. Proceed(w, [jobs[w] EXCEPT !.rec = fresh', !.row = drawn]) \/ Stop(w)
      BY <1>3, Zenon DEF Issue
    <2> HIDE DEF row, drawn
    <2> DEFINE j == [jobs[w] EXCEPT !.rec = fresh', !.row = drawn]
    <2>3. IsJob(j) /\ j.plan = jobs[w].plan
      BY <2>1 DEF IsJob, Fields
    <2> HIDE DEF j
    <2> QED BY <1>3, <2>1, <2>2, <2>3, GoOnRow DEF Issue, j
  <1>4. CASE LoadUser(w)
    <2>1. On(w, "loadUser") /\ IsJob(jobs[w])
      BY <1>0, <1>4 DEF LoadUser
    <2> DEFINE to == users[jobs[w].user].email
               acct == CASE jobs[w].kind \in {"verify", "link"} -> [users[jobs[w].user] EXCEPT !.active = TRUE]
                         [] jobs[w].kind = "setForget"          -> [users[jobs[w].user] EXCEPT !.pw = jobs[w].pw]
                         [] jobs[w].kind = "verifyEmail"        -> [users[jobs[w].user] EXCEPT !.email = jobs[w].row.to]
    <2>2. Proceed(w, [jobs[w] EXCEPT !.to = to, !.acct = acct]) \/ Stop(w)
      BY <1>4, Zenon DEF LoadUser
    <2> HIDE DEF to, acct
    <2>3. IsJob([jobs[w] EXCEPT !.to = to, !.acct = acct])
          /\ [jobs[w] EXCEPT !.to = to, !.acct = acct].plan = jobs[w].plan
      BY <2>1 DEF IsJob, Fields
    <2> QED BY <1>4, <2>1, <2>2, <2>3, GoOnRow DEF LoadUser
  <1>5. CASE SaveUser(w)
    BY <1>0, <1>5, GoOnRow DEF SaveUser
  <1>6. CASE SaveRow(w)
    BY <1>0, <1>6, GoOnRow DEF SaveRow
  <1>7. CASE Deliver(w)
    <2>1. On(w, "deliver") /\ IsJob(jobs[w]) /\ fresh' = fresh /\ tokens' = tokens
      BY <1>0, <1>7 DEF Deliver
    <2> DEFINE resend == jobs[w].row.resend + 1
               Going == Proceed(w, IF jobs[w].kind = "resend" THEN [jobs[w] EXCEPT !.row.resend = @ + 1]
                                                              ELSE jobs[w])
    <2>2. \/ UNCHANGED sessions /\ (Going \/ Stop(w))
          \/ DeleteUser(jobs[w].user) /\ Stop(w)
      BY <1>7 DEF Deliver
    <2>3. Going => Proceed(w, jobs[w]) \/ Proceed(w, [jobs[w] EXCEPT !.row.resend = resend])
      OBVIOUS
    <2> HIDE DEF resend, Going
    <2>4. IsJob([jobs[w] EXCEPT !.row.resend = resend])
          /\ [jobs[w] EXCEPT !.row.resend = resend].plan = jobs[w].plan
      BY <2>1 DEF IsJob, Fields
    <2>5. CASE DeleteUser(jobs[w].user) /\ Stop(w)
      BY <2>1, <2>5, DeletingRow
    <2>6. CASE UNCHANGED sessions /\ (Proceed(w, jobs[w]) \/ Stop(w))
      BY <2>1, <2>6, GoOnRow DEF auth
    <2>7. CASE UNCHANGED sessions /\ Proceed(w, [jobs[w] EXCEPT !.row.resend = resend])
      BY <2>1, <2>4, <2>7, GoOnRow DEF auth
    <2> QED BY <2>2, <2>3, <2>5, <2>6, <2>7
  <1>8. CASE Abandon(w)
    BY <1>8, NoJobOK, Drawn, FrameSame DEF Abandon, Stop, auth
  <1> QED BY <1>1, <1>2, <1>3, <1>4, <1>5, <1>6, <1>7, <1>8 DEF RowStep

-----------------------------------------------------------------------------
\* The usual request begins, with what it holds changed as it asks.
LEMMA BeginHolding ==
  ASSUME IInv, NEW w \in Worker, NEW kind, NEW r, NEW row, NEW plan \in Seq(Later), NEW to, NEW acct,
         NEW pw, NEW code,
         \/ Begin(w, kind, Holding(r, row, plan))
         \/ Begin(w, kind, [Holding(r, row, plan) EXCEPT !.code = code])
         \/ Begin(w, kind, [Holding(r, row, plan) EXCEPT !.to = to])
         \/ Begin(w, kind, [Holding(r, row, plan) EXCEPT !.pw = pw, !.code = code])
         \/ Begin(w, kind, [Holding(r, row, plan) EXCEPT !.acct = acct, !.pw = pw]),
         fresh' = fresh \/ fresh' = fresh + 1, UNCHANGED auth
  PROVE  IInv'
  <1> DEFINE h == Holding(r, row, plan)
  <1>1. IsJob(h) /\ h.plan = plan
    BY HoldingOK
  <1> HIDE DEF h
  <1>2. /\ IsJob([h EXCEPT !.code = code]) /\ [h EXCEPT !.code = code].plan = plan
        /\ IsJob([h EXCEPT !.to = to]) /\ [h EXCEPT !.to = to].plan = plan
        /\ IsJob([h EXCEPT !.pw = pw, !.code = code]) /\ [h EXCEPT !.pw = pw, !.code = code].plan = plan
        /\ IsJob([h EXCEPT !.acct = acct, !.pw = pw]) /\ [h EXCEPT !.acct = acct, !.pw = pw].plan = plan
    BY <1>1 DEF IsJob, Fields
  <1>3. PICK job : IsJob(job) /\ job.plan = plan /\ Begin(w, kind, job)
    BY <1>1, <1>2 DEF h
  <1>4. RowPlan([job EXCEPT !.kind = kind])
    BY <1>3, Plain DEF IsJob, Fields
  <1> QED BY <1>3, <1>4, BeginRow

\* The plans of the requests on users and codes.
LEMMA Plans ==
  /\ <<"saveRow">> \in Seq(Later)
  /\ <<"issue">> \in Seq(Later)
  /\ <<"saveRow", "revise", "saveRow", "deliver">> \in Seq(Later)
  /\ <<"saveRow", "deliver", "saveRow">> \in Seq(Later)
  /\ <<"saveRow", "renew", "issue", "saveRow", "deliver">> \in Seq(Later)
  /\ <<"loadUser", "saveUser">> \in Seq(Later)
  /\ <<"saveUser", "saveRow">> \in Seq(Later)
  /\ <<"loadUser", "saveUser", "saveRow">> \in Seq(Later)
  BY DEF Later

LEMMA MakingPlan ==
  ASSUME NEW type
  PROVE  <<>> \o Making(type) \in Seq(Later)
  <1>1. CASE type = "link"
    BY <1>1 DEF Later, Making
  <1>2. CASE type # "link"
    BY <1>2 DEF Later, Making
  <1> QED BY <1>1, <1>2

LEMMA ClearingPlan ==
  ASSUME NEW type
  PROVE  LET p == <<"clear">> \o Making(type) IN p \in Seq(Steps) /\ \A i \in 2..Len(p) : p[i] \in Later
  <1>1. CASE type = "link"
    BY <1>1 DEF Steps, Later, Making
  <1>2. CASE type # "link"
    BY <1>2 DEF Steps, Later, Making
  <1> QED BY <1>1, <1>2

LEMMA RegistrationInv ==
  ASSUME IInv, NEW w \in Worker, RegistrationStep(w)
  PROVE  IInv'
  <1> USE Plans
  <1>1. ASSUME NEW a, NEW type, NEW p, Register(w, a, type, p) PROVE IInv'
    <2> DEFINE plan == (IF At(a) = {} THEN <<>> ELSE <<"clear">>) \o Making(type)
               user == IF At(a) = {} THEN None ELSE CHOOSE u \in At(a) : TRUE
               acct == IF At(a) = {} THEN NoAcct ELSE users[CHOOSE u \in At(a) : TRUE]
               row == NewRow(type)
    <2>1. \/ plan \in Seq(Later)
          \/ /\ plan \in Seq(Steps)
             /\ \A i \in 2..Len(plan) : plan[i] \in Later
             /\ ~acct.active
      <3>1. CASE At(a) = {}
        BY <3>1, MakingPlan
      <3>2. CASE At(a) # {}
        BY <1>1, <3>2, ClearingPlan DEF Register
      <3> QED BY <3>1, <3>2
    <2>2. Begin(w, "register", [NoJob EXCEPT !.plan = plan, !.user = user, !.acct = acct, !.row = row,
                                             !.to = a, !.pw = p])
          /\ fresh' = fresh /\ UNCHANGED auth
      BY <1>1, Zenon DEF Register
    <2> HIDE DEF plan, user, acct, row
    <2> DEFINE job == [NoJob EXCEPT !.plan = plan, !.user = user, !.acct = acct, !.row = row,
                                    !.to = a, !.pw = p]
    <2>3. IsJob(job)
      BY NoJobOK DEF IsJob, Fields
    <2>4. LET j == [job EXCEPT !.kind = "register"] IN j.plan = plan /\ j.acct = acct /\ j.kind = "register"
      BY NoJobOK DEF IsJob, Fields
    <2>5. RowPlan([job EXCEPT !.kind = "register"])
      BY <2>1, <2>4, Plain DEF RowPlan
    <2> HIDE DEF job
    <2> QED BY <2>2, <2>3, <2>5, BeginRow DEF job
  <1>2. ASSUME NEW a, NEW c, Verify(w, a, c) PROVE IInv'
    BY <1>2, BeginHolding DEF Verify
  <1>3. ASSUME NEW c, VerifyLink(w, c) PROVE IInv'
    BY <1>3, BeginHolding DEF VerifyLink
  <1>4. ASSUME NEW a, Resend(w, a) PROVE IInv'
    BY <1>4, BeginHolding DEF Resend, ResendBlock
  <1>5. ASSUME NEW a, ForgetPassword(w, a) PROVE IInv'
    BY <1>5, BeginHolding DEF ForgetPassword, ResendBlock
  <1>6. ASSUME NEW a, NEW c, VerifyForget(w, a, c) PROVE IInv'
    BY <1>6, BeginHolding DEF VerifyForget, ResendBlock
  <1>7. ASSUME NEW a, NEW p, SetForgotten(w, a, p) PROVE IInv'
    BY <1>7, BeginHolding DEF SetForgotten, ResendBlock
  <1>8. CASE Renew(w)
    <2> DEFINE row == NewRow("forget")
               job == [jobs[w] EXCEPT !.rec = None, !.row = row]
    <2>1. On(w, "renew") /\ "renew" \in Steps /\ Proceed(w, job) /\ fresh' = fresh /\ UNCHANGED auth
      BY <1>8 DEF Renew, Steps
    <2> HIDE DEF row
    <2>2. IsJob(job) /\ job.plan = jobs[w].plan
      BY <2>1, RowStatement DEF IInv, IsJob, Fields
    <2> HIDE DEF job
    <2> QED BY <2>1, <2>2, GoOnRow
  <1> QED BY <1>1, <1>2, <1>3, <1>4, <1>5, <1>6, <1>7, <1>8 DEF RegistrationStep

LEMMA ChangeInv ==
  ASSUME IInv, NEW w \in Worker, ChangeStep(w)
  PROVE  IInv'
  <1> USE Plans
  <1>1. ASSUME NEW u, NEW kind, OpenWindow(w, u, kind) PROVE IInv'
    <2> DEFINE row == NewRow(kind)
               new == [NoJob EXCEPT !.plan = <<"issue">>, !.user = u, !.row = row]
               r == Max(RowsOf({u}, {kind}))
    <2>1. fresh' = fresh /\ UNCHANGED auth
      BY <1>1 DEF OpenWindow
    <2> HIDE DEF row, r
    <2>2. IsJob(new) /\ [new EXCEPT !.kind = OpenKind[kind]].plan = <<"issue">>
      BY NoJobOK DEF IsJob, Fields
    <2> HIDE DEF new
    <2>3. \/ Begin(w, OpenKind[kind], new)
          \/ Begin(w, OpenKind[kind], Holding(r, [Block(codes[r]) EXCEPT !.age = "old"], <<"saveRow">>))
          \/ Begin(w, OpenKind[kind], Holding(r, [codes[r] EXCEPT !.attapts = @ + 1, !.window = "live"],
                                              <<"saveRow">>))
      BY <1>1 DEF OpenWindow, new, row, r
    <2> QED BY <2>1, <2>2, <2>3, Plain, BeginRow, BeginHolding
  <1>2. ASSUME NEW u, NEW old, NEW new, ChangePassword(w, u, old, new) PROVE IInv'
    <2>1. fresh' = fresh /\ UNCHANGED auth
      BY <1>2 DEF ChangePassword
    <2>2. PICK r : LET row == codes[r] IN
            \/ Begin(w, "changePassword", Holding(r, [Block(row) EXCEPT !.window = "lapsed"], <<"saveRow">>))
            \/ Begin(w, "changePassword", Holding(r, Miss(row), <<"saveRow">>))
            \/ Begin(w, "changePassword",
                 [Holding(r, [row EXCEPT !.done = TRUE, !.window = "lapsed"], <<"saveUser", "saveRow">>)
                  EXCEPT !.acct = [users[u] EXCEPT !.pw = new], !.pw = new])
      BY <1>2 DEF ChangePassword
    <2> QED BY <2>1, <2>2, BeginHolding
  <1>3. ASSUME NEW u, NEW a, PostEmail(w, u, a) PROVE IInv'
    BY <1>3, BeginHolding DEF PostEmail
  <1>4. ASSUME NEW u, NEW c, VerifyEmail(w, u, c) PROVE IInv'
    BY <1>4, BeginHolding DEF VerifyEmail
  <1>5. ASSUME NEW u, ResendEmail(w, u) PROVE IInv'
    BY <1>5, BeginHolding DEF ResendEmail
  <1>6. CASE Revise(w)
    <2>1. On(w, "revise") /\ "revise" \in Steps /\ UNCHANGED auth /\ (fresh' = fresh \/ fresh' = fresh + 1)
      BY <1>6 DEF Revise, Steps, Later
    <2>2. PICK row : Proceed(w, [jobs[w] EXCEPT !.row = row])
      BY <1>6, Zenon DEF Revise
    <2>3. IsJob([jobs[w] EXCEPT !.row = row]) /\ [jobs[w] EXCEPT !.row = row].plan = jobs[w].plan
      BY <2>1, RowStatement DEF IInv, IsJob, Fields
    <2> QED BY <2>1, <2>2, <2>3, GoOnRow
  <1> QED BY <1>1, <1>2, <1>3, <1>4, <1>5, <1>6 DEF ChangeStep

LEMMA TimeInv ==
  ASSUME IInv, Time
  PROVE  IInv'
  <1>1. UNCHANGED <<fresh, jobs, tokens, sessions>>
    BY DEF Time, Lapse, Die, Unblock, Age, Pass, auth
  <1> QED BY <1>1 DEF IInv, TokensOK, SessionsOK, JobsOK, JobOK, RowPlan, TokenPlan, UsableTokenListed

-----------------------------------------------------------------------------
\* A step of the sessions: every token stays, blacklisted tokens stay so, and
\* worker w is left with a request that is in order.
LEMMA TokenFrame ==
  ASSUME IInv, NEW w \in Worker, NEW j, JobOK(j)', jobs' = [jobs EXCEPT ![w] = j],
         \A t \in DOMAIN tokens : t \in DOMAIN tokens' /\ (tokens[t].black => tokens'[t].black)
  PROVE  JobsOK'
  <1>1. jobs' = [v \in Worker |-> jobs'[v]] /\ \A v \in Worker : jobs'[v] = IF v = w THEN j ELSE jobs[v]
    BY DEF IInv, JobsOK
  <1>2. ASSUME NEW v \in Worker PROVE JobOK(jobs[v])'
    <2>1. CASE v = w
      BY <2>1, <1>1 DEF JobOK, IsJob, RowPlan, TokenPlan
    <2>2. CASE v # w
      <3>1. JobOK(jobs[v]) /\ jobs'[v] = jobs[v]
        BY <2>2, <1>1 DEF IInv, JobsOK
      <3> QED BY <3>1 DEF JobOK, IsJob, RowPlan, TokenPlan
    <2> QED BY <2>1, <2>2
  <1> QED BY <1>1, <1>2 DEF JobsOK

\* Which plan a request of the sessions follows, by its next statement.
LEMMA TokenStatement ==
  ASSUME IInv, NEW w \in Worker
  PROVE  /\ On(w, "mint") => IsJob(jobs[w]) /\ jobs[w].plan = <<"mint", "record">>
         /\ On(w, "record") => jobs[w].plan = <<"record">> /\ jobs[w].rec \in DOMAIN tokens
         /\ On(w, "rotate") => jobs[w].plan = <<"rotate">> /\ jobs[w].rec \in DOMAIN tokens
         /\ On(w, "blacklist") => /\ IsJob(jobs[w]) /\ jobs[w].plan = <<"blacklist", "close">>
                                  /\ jobs[w].rec \in DOMAIN tokens
         /\ On(w, "close") => /\ jobs[w].plan = <<"close">> /\ jobs[w].rec \in DOMAIN tokens
                              /\ tokens[jobs[w].rec].black
  BY DEF IInv, JobsOK, JobOK, RowPlan, TokenPlan, On, Steps, Later

LEMMA SessionInv ==
  ASSUME IInv, NEW w \in Worker, SessionStep(w)
  PROVE  IInv'
  <1> USE TokenStatement
  <1>0. fresh \in Nat /\ fresh + 1 \notin DOMAIN tokens /\ DOMAIN sessions \subseteq DOMAIN tokens
    BY DEF IInv, TokensOK, SessionsOK
  <1>1. ASSUME NEW u, NEW p, Login(w, u, p) PROVE IInv'
    <2> DEFINE j == [[NoJob EXCEPT !.plan = <<"mint", "record">>, !.user = u] EXCEPT !.kind = "login"]
    <2>1. jobs' = [jobs EXCEPT ![w] = j] /\ UNCHANGED <<fresh, tokens, sessions>>
      BY <1>1, Zenon DEF Login, Begin, auth
    <2>2. IsJob(j) /\ j.plan = <<"mint", "record">>
      BY NoJobOK DEF IsJob, Fields
    <2> HIDE DEF j
    <2>3. JobsOK'
      BY <2>1, <2>2, TokenFrame DEF JobOK, IsJob, TokenPlan
    <2> QED BY <2>1, <2>3 DEF IInv, TokensOK, SessionsOK, UsableTokenListed
  <1>2. ASSUME NEW t \in DOMAIN tokens, Refresh(w, t) PROVE IInv'
    <2> DEFINE user == tokens[t].user
               j == [[NoJob EXCEPT !.plan = <<"rotate">>, !.user = user, !.rec = t] EXCEPT !.kind = "refresh"]
    <2>1. jobs' = [jobs EXCEPT ![w] = j] /\ UNCHANGED <<fresh, tokens, sessions>>
      BY <1>2, Zenon DEF Refresh, Begin, auth
    <2> HIDE DEF user
    <2>2. IsJob(j) /\ j.plan = <<"rotate">> /\ j.rec = t
      BY NoJobOK DEF IsJob, Fields
    <2> HIDE DEF j
    <2>3. JobsOK'
      BY <2>1, <2>2, TokenFrame DEF JobOK, IsJob, TokenPlan
    <2> QED BY <2>1, <2>3 DEF IInv, TokensOK, SessionsOK, UsableTokenListed
  <1>3. ASSUME NEW t \in DOMAIN tokens, Logout(w, t) PROVE IInv'
    <2> DEFINE user == tokens[t].user
               j == [[NoJob EXCEPT !.plan = <<"blacklist", "close">>, !.user = user, !.rec = t]
                     EXCEPT !.kind = "logout"]
    <2>1. jobs' = [jobs EXCEPT ![w] = j] /\ UNCHANGED <<fresh, tokens, sessions>>
      BY <1>3, Zenon DEF Logout, Begin, auth
    <2> HIDE DEF user
    <2>2. IsJob(j) /\ j.plan = <<"blacklist", "close">> /\ j.rec = t
      BY NoJobOK DEF IsJob, Fields
    <2> HIDE DEF j
    <2>3. JobsOK'
      BY <2>1, <2>2, TokenFrame DEF JobOK, IsJob, TokenPlan
    <2> QED BY <2>1, <2>3 DEF IInv, TokensOK, SessionsOK, UsableTokenListed
  <1>4. ASSUME NEW u, LogoutAll(w, u) PROVE IInv'
    <2> DEFINE ts == {t \in DOMAIN sessions : sessions[t].user = u /\ sessions[t].open}
    <2>1. /\ tokens' = [t \in DOMAIN tokens |-> [tokens[t] EXCEPT !.black = @ \/ t \in ts]]
          /\ sessions' = Close(ts)
          /\ UNCHANGED <<fresh, jobs>>
      BY <1>4 DEF LogoutAll
    <2> HIDE DEF ts
    <2>2. TokensOK'
      BY <2>1 DEF IInv, TokensOK
    <2>3. \A t \in DOMAIN tokens : t \in DOMAIN tokens' /\ (tokens[t].black => tokens'[t].black)
                                   /\ (t \in ts => tokens'[t].black)
      <3> TAKE t \in DOMAIN tokens
      <3>1. tokens'[t] = [tokens[t] EXCEPT !.black = tokens[t].black \/ t \in ts]
        BY <2>1, Zenon
      <3>2. "black" \in DOMAIN tokens[t]
        BY DEF IInv, TokensOK
      <3>3. tokens'[t].black = (tokens[t].black \/ t \in ts)
        BY <3>1, <3>2, Zenon
      <3>4. DOMAIN tokens' = DOMAIN tokens
        BY <2>1
      <3> QED BY <3>3, <3>4
    <2>4. \A t \in DOMAIN sessions : sessions'[t] = [user |-> sessions[t].user, open |-> sessions[t].open /\ t \notin ts]
      BY <2>1 DEF IInv, SessionsOK, Close
    <2>6. DOMAIN sessions' = DOMAIN sessions /\ sessions' = [t \in DOMAIN sessions' |-> sessions'[t]]
      BY <2>1 DEF Close
    <2>7. SessionsOK'
      <3>1. DOMAIN sessions' \subseteq DOMAIN tokens'
        BY <1>0, <2>3, <2>6
      <3>2. \A t \in DOMAIN sessions' :
              sessions'[t] = [user |-> sessions'[t].user, open |-> sessions'[t].open]
        BY <2>4, <2>6
      <3> QED BY <2>6, <3>1, <3>2 DEF SessionsOK
    <2>8. UsableTokenListed'
      <3> SUFFICES ASSUME NEW t \in DOMAIN sessions, ~tokens'[t].black PROVE sessions'[t].open
        BY <2>6 DEF UsableTokenListed
      <3>1. ~tokens[t].black /\ t \notin ts
        BY <1>0, <2>3
      <3>2. sessions[t].open
        BY <3>1 DEF IInv, UsableTokenListed
      <3>3. sessions'[t].open = (sessions[t].open /\ t \notin ts)
        <4>1. sessions'[t] = [sessions[t] EXCEPT !.open = sessions[t].open /\ t \notin ts]
          BY <2>1, Zenon DEF Close
        <4>2. "open" \in DOMAIN sessions[t]
          BY DEF IInv, SessionsOK
        <4> QED BY <4>1, <4>2, Zenon
      <3> QED BY <3>1, <3>2, <3>3
    <2>5. JobsOK'
      BY <2>1, <2>3 DEF IInv, JobsOK, JobOK, IsJob, RowPlan, TokenPlan
    <2> QED BY <2>2, <2>5, <2>7, <2>8 DEF IInv
  <1>5. CASE Mint(w)
    <2> DEFINE token == [user |-> jobs[w].user, black |-> FALSE, rotated |-> FALSE]
               j == [jobs[w] EXCEPT !.rec = fresh + 1]
    <2>1. /\ On(w, "mint") /\ fresh' = fresh + 1 /\ tokens' = Put(tokens, fresh + 1, token)
          /\ Proceed(w, j) /\ UNCHANGED sessions
      BY <1>5 DEF Mint
    <2> HIDE DEF token
    <2>2. IsJob(j) /\ j.plan = <<"mint", "record">> /\ j.rec = fresh + 1
      BY <2>1 DEF IsJob, Fields
    <2> HIDE DEF j
    <2>3. Advance(j) = [j EXCEPT !.plan = <<"record">>]
      BY <2>2 DEF Advance
    <2>4. IsJob(Advance(j)) /\ Advance(j).plan = <<"record">> /\ Advance(j).rec = fresh + 1
      BY <2>2, <2>3 DEF IsJob, Fields
    <2>5. DOMAIN tokens' = DOMAIN tokens \cup {fresh + 1} /\ \A t \in DOMAIN tokens : tokens'[t] = tokens[t]
      BY <1>0, <2>1 DEF Put
    <2>6. TokensOK' /\ SessionsOK' /\ UsableTokenListed'
      <3>1. tokens'[fresh + 1] = token
        BY <2>1 DEF Put
      <3>2. \A t \in DOMAIN tokens' : tokens'[t] =
              [user |-> tokens'[t].user, black |-> tokens'[t].black, rotated |-> tokens'[t].rotated]
        BY <2>5, <3>1 DEF IInv, TokensOK, token
      <3>3. TokensOK'
        BY <1>0, <2>1, <2>5, <3>2 DEF IInv, TokensOK
      <3> QED BY <1>0, <2>1, <2>5, <3>3 DEF IInv, SessionsOK, UsableTokenListed
    <2>7. jobs' = [jobs EXCEPT ![w] = Advance(j)]
      BY <2>1 DEF Proceed
    <2>8. JobsOK'
      BY <2>4, <2>5, <2>7, TokenFrame DEF JobOK, IsJob, TokenPlan
    <2> QED BY <2>6, <2>8 DEF IInv
  <1>6. CASE Record(w)
    <2>1. /\ On(w, "record") /\ UNCHANGED <<fresh, tokens>>
          /\ \/ sessions' = Put(sessions, jobs[w].rec, [user |-> jobs[w].user, open |-> TRUE])
             \/ UNCHANGED sessions
          /\ Proceed(w, jobs[w])
      BY <1>6 DEF Record
    <2>2. SessionsOK' /\ UsableTokenListed'
      BY <2>1 DEF IInv, SessionsOK, UsableTokenListed, Put
    <2>3. jobs' = [jobs EXCEPT ![w] = NoJob]
      <3>1. Len(jobs[w].plan) = 1
        <4>1. jobs[w].plan \in {<<"record">>, <<"rotate">>, <<"close">>}
          BY <2>1
        <4> QED BY <4>1
      <3> QED BY <2>1, <3>1 DEF Proceed, Advance
    <2>4. JobsOK'
      BY <2>1, <2>3, NoJobOK, TokenFrame DEF JobOK, IsJob, RowPlan
    <2> QED BY <2>1, <2>2, <2>4 DEF IInv, TokensOK
  <1>7. CASE Rotate(w)
    <2> DEFINE token == [user |-> jobs[w].user, black |-> FALSE, rotated |-> TRUE]
               old == [tokens EXCEPT ![jobs[w].rec].black = TRUE]
    <2>1. /\ On(w, "rotate") /\ fresh' = fresh + 1 /\ tokens' = Put(old, fresh + 1, token)
          /\ Proceed(w, jobs[w]) /\ UNCHANGED sessions
      BY <1>7 DEF Rotate
    <2> HIDE DEF token
    <2>2. /\ DOMAIN old = DOMAIN tokens
          /\ \A t \in DOMAIN tokens :
               /\ old[t] = [user |-> old[t].user, black |-> old[t].black, rotated |-> old[t].rotated]
               /\ tokens[t].black => old[t].black
      BY <2>1 DEF IInv, TokensOK
    <2> HIDE DEF old
    <2>3. DOMAIN tokens' = DOMAIN tokens \cup {fresh + 1} /\ \A t \in DOMAIN tokens : tokens'[t] = old[t]
      BY <1>0, <2>1, <2>2 DEF Put
    <2>4. TokensOK' /\ SessionsOK' /\ UsableTokenListed'
      <3>1. tokens'[fresh + 1] = token
        BY <2>1 DEF Put
      <3>2. \A t \in DOMAIN tokens' : tokens'[t] =
              [user |-> tokens'[t].user, black |-> tokens'[t].black, rotated |-> tokens'[t].rotated]
        BY <2>2, <2>3, <3>1 DEF token
      <3>3. TokensOK'
        BY <1>0, <2>1, <2>3, <3>2 DEF IInv, TokensOK
      <3> QED BY <1>0, <2>1, <2>2, <2>3, <3>3 DEF IInv, SessionsOK, UsableTokenListed
    <2>5. jobs' = [jobs EXCEPT ![w] = NoJob]
      <3>1. Len(jobs[w].plan) = 1
        <4>1. jobs[w].plan \in {<<"record">>, <<"rotate">>, <<"close">>}
          BY <2>1
        <4> QED BY <4>1
      <3> QED BY <2>1, <3>1 DEF Proceed, Advance
    <2>6. JobsOK'
      BY <2>2, <2>3, <2>5, NoJobOK, TokenFrame DEF JobOK, IsJob, RowPlan
    <2> QED BY <2>4, <2>6 DEF IInv
  <1>8. CASE Blacklist(w)
    <2> DEFINE rec == jobs[w].rec
    <2>1. /\ On(w, "blacklist") /\ tokens' = [tokens EXCEPT ![rec].black = TRUE]
          /\ Proceed(w, jobs[w]) /\ UNCHANGED <<fresh, sessions>>
      BY <1>8 DEF Blacklist
    <2>2. IsJob(jobs[w]) /\ jobs[w].plan = <<"blacklist", "close">> /\ rec \in DOMAIN tokens
      BY <2>1
    <2>3. Advance(jobs[w]) = [jobs[w] EXCEPT !.plan = <<"close">>]
      BY <2>2 DEF Advance
    <2>4. IsJob(Advance(jobs[w])) /\ Advance(jobs[w]).plan = <<"close">> /\ Advance(jobs[w]).rec = rec
      BY <2>2, <2>3 DEF IsJob, Fields
    <2> HIDE DEF rec
    <2>5. /\ DOMAIN tokens' = DOMAIN tokens /\ tokens'[rec].black
          /\ \A t \in DOMAIN tokens : tokens[t].black => tokens'[t].black
      BY <2>1, <2>2 DEF IInv, TokensOK
    <2>6. TokensOK' /\ SessionsOK'
      BY <2>1, <2>2 DEF IInv, TokensOK, SessionsOK
    <2>7. UsableTokenListed'
      BY <1>0, <2>1, <2>5 DEF IInv, UsableTokenListed
    <2>8. jobs' = [jobs EXCEPT ![w] = Advance(jobs[w])]
      BY <2>1 DEF Proceed
    <2>9. JobsOK'
      BY <2>2, <2>4, <2>5, <2>8, TokenFrame DEF JobOK, IsJob, TokenPlan
    <2> QED BY <2>6, <2>7, <2>9 DEF IInv
  <1>9. CASE CloseSession(w)
    <2>1. /\ On(w, "close") /\ sessions' = Close({jobs[w].rec})
          /\ Proceed(w, jobs[w]) /\ UNCHANGED <<fresh, tokens>>
      BY <1>9 DEF CloseSession
    <2>2. SessionsOK' /\ UsableTokenListed'
      BY <2>1 DEF IInv, SessionsOK, UsableTokenListed, Close
    <2>3. jobs' = [jobs EXCEPT ![w] = NoJob]
      <3>1. Len(jobs[w].plan) = 1
        <4>1. jobs[w].plan \in {<<"record">>, <<"rotate">>, <<"close">>}
          BY <2>1
        <4> QED BY <4>1
      <3> QED BY <2>1, <3>1 DEF Proceed, Advance
    <2>4. JobsOK'
      BY <2>1, <2>3, NoJobOK, TokenFrame DEF JobOK, IsJob, RowPlan
    <2> QED BY <2>1, <2>2, <2>4 DEF IInv, TokensOK
  <1> QED BY <1>1, <1>2, <1>3, <1>4, <1>5, <1>6, <1>7, <1>8, <1>9 DEF SessionStep

-----------------------------------------------------------------------------
LEMMA NextInv == IInv /\ [Next]_vars => IInv'
  <1> SUFFICES ASSUME IInv, [Next]_vars PROVE IInv'
    OBVIOUS
  <1>1. CASE UNCHANGED vars
    BY <1>1 DEF vars, IInv, TokensOK, SessionsOK, JobsOK, JobOK, RowPlan, TokenPlan, UsableTokenListed
  <1>2. CASE Next
    BY <1>2, RowStepInv, RegistrationInv, ChangeInv, SessionInv, TimeInv DEF Next
  <1> QED BY <1>1, <1>2

LEMMA InitInv == Init => IInv
  <1> SUFFICES ASSUME Init PROVE IInv
    OBVIOUS
  <1>1. fresh \in Nat
    <2>1. flow \in Flows /\ fresh = 2 * Len(flow.members)
      BY Zenon DEF Init
    <2>2. Len(flow.members) \in Nat
      BY <2>1, FlowsAssumption
    <2> QED BY <2>1, <2>2
  <1>2. tokens = <<>> /\ sessions = <<>> /\ jobs = [w \in Worker |-> NoJob]
    BY DEF Init
  <1> QED BY <1>1, <1>2, NoJobOK DEF IInv, TokensOK, SessionsOK, JobsOK, JobOK, UsableTokenListed

\* Whatever is in flight when a user logs out, refreshes, or logs out
\* everywhere (accounts/services.py, views.py), a refresh token that still
\* works and whose Session was recorded belongs to an open session.
THEOREM UsableTokenListedHolds == Spec => []UsableTokenListed
  <1>1. IInv => UsableTokenListed
    BY DEF IInv
  <1> QED BY <1>1, InitInv, NextInv, PTL DEF Spec

-----------------------------------------------------------------------------
\* Only four statements write User rows.
LEMMA UsersStatement ==
  ASSUME [Next]_vars, users' # users
  PROVE  \E w \in Worker : Clear(w) \/ Create(w) \/ SaveUser(w) \/ Deliver(w)
  <1>1. users' # users
    OBVIOUS
  <1>2. Next
    BY <1>1 DEF vars
  <1>3. ~Time
    BY <1>1 DEF Time, Lapse, Die, Unblock, Age, Pass
  <1>4. ASSUME NEW w, ChangeStep(w) PROVE users' = users
    <2>1. ASSUME NEW v, NEW kind, OpenWindow(w, v, kind) PROVE users' = users
      BY <2>1, Zenon DEF OpenWindow
    <2>2. ASSUME NEW v, NEW old, NEW new, ChangePassword(w, v, old, new) PROVE users' = users
      BY <2>2, Zenon DEF ChangePassword
    <2>3. ASSUME NEW v, NEW a, PostEmail(w, v, a) PROVE users' = users
      BY <2>3, Zenon DEF PostEmail
    <2>4. ASSUME NEW v, NEW c, VerifyEmail(w, v, c) PROVE users' = users
      BY <2>4, Zenon DEF VerifyEmail
    <2>5. ASSUME NEW v, ResendEmail(w, v) PROVE users' = users
      BY <2>5, Zenon DEF ResendEmail
    <2>6. Revise(w) => users' = users
      BY DEF Revise
    <2> QED BY <1>4, <2>1, <2>2, <2>3, <2>4, <2>5, <2>6 DEF ChangeStep
  <1>5. ASSUME NEW w, RegistrationStep(w) PROVE users' = users
    <2>1. ASSUME NEW a, NEW type, NEW p, Register(w, a, type, p) PROVE users' = users
      BY <2>1, Zenon DEF Register
    <2>2. ASSUME NEW a, NEW c, Verify(w, a, c) PROVE users' = users
      BY <2>2, Zenon DEF Verify
    <2>3. ASSUME NEW a, NEW c, VerifyForget(w, a, c) PROVE users' = users
      BY <2>3, Zenon DEF VerifyForget
    <2>4. ASSUME NEW a, Resend(w, a) PROVE users' = users
      BY <2>4, Zenon DEF Resend
    <2>5. ASSUME NEW a, ForgetPassword(w, a) PROVE users' = users
      BY <2>5, Zenon DEF ForgetPassword
    <2>6. ASSUME NEW a, NEW p, SetForgotten(w, a, p) PROVE users' = users
      BY <2>6, Zenon DEF SetForgotten
    <2>7. ASSUME NEW c, VerifyLink(w, c) PROVE users' = users
      BY <2>7, Zenon DEF VerifyLink
    <2>8. Renew(w) => users' = users
      BY DEF Renew
    <2> QED BY <1>5, <2>1, <2>2, <2>3, <2>4, <2>5, <2>6, <2>7, <2>8 DEF RegistrationStep
  <1>6. \A w \in Worker : ~SessionStep(w)
    BY <1>1 DEF SessionStep, Login, Mint, Record, Refresh, Rotate, Logout, Blacklist, CloseSession, LogoutAll
  <1>7. PICK w \in Worker : RowStep(w)
    BY <1>1, <1>2, <1>3, <1>4, <1>5, <1>6 DEF Next
  <1>8. Clear(w) \/ Create(w) \/ SaveUser(w) \/ Deliver(w)
    BY <1>1, <1>7 DEF RowStep, Issue, LoadUser, SaveRow, Abandon
  <1> QED BY <1>8

\* Two of them take a user away.
LEMMA UserGone ==
  ASSUME [Next]_vars, NEW u \in DOMAIN users, u \notin DOMAIN users'
  PROVE  \E w \in Worker :
           jobs[w].user = u /\ (On(w, "clear") \/ (jobs[w].kind = "register" /\ On(w, "deliver")))
  <1>1. users' # users
    OBVIOUS
  <1>2. PICK w \in Worker : Clear(w) \/ Create(w) \/ SaveUser(w) \/ Deliver(w)
    BY <1>1, UsersStatement
  <1>3. ~Create(w) /\ ~SaveUser(w)
    BY DEF Create, SaveUser, Put
  <1>4. CASE Clear(w)
    BY <1>4 DEF Clear, DeleteUser
  <1>5. CASE Deliver(w)
    BY <1>1, <1>5 DEF Deliver, DeleteUser
  <1> QED BY <1>2, <1>3, <1>4, <1>5

\* A verified account is deleted only by a registration that was under way
\* when it was verified (register_views.py:63-66, :88): one that had read it
\* unverified, or the one that made it and could not send its mail.
THEOREM VerifiedKeptHolds == Spec => VerifiedKept
  <1> DEFINE Kept == \A u \in DOMAIN users : users[u].active /\ u \notin DOMAIN users' =>
                       \E w \in Worker :
                         /\ jobs[w].kind = "register" /\ jobs[w].user = u
                         /\ On(w, "clear") => ~jobs[w].acct.active
  <1>1. IInv /\ [Next]_vars => Kept
    <2> SUFFICES ASSUME IInv, [Next]_vars, NEW u \in DOMAIN users, u \notin DOMAIN users'
                 PROVE  \E w \in Worker :
                          /\ jobs[w].kind = "register" /\ jobs[w].user = u
                          /\ On(w, "clear") => ~jobs[w].acct.active
      OBVIOUS
    <2>1. PICK w \in Worker :
            jobs[w].user = u /\ (On(w, "clear") \/ (jobs[w].kind = "register" /\ On(w, "deliver")))
      BY UserGone
    <2>2. On(w, "clear") => jobs[w].kind = "register" /\ ~jobs[w].acct.active
      <3> SUFFICES ASSUME On(w, "clear") PROVE jobs[w].kind = "register" /\ ~jobs[w].acct.active
        OBVIOUS
      <3>1. RowPlan(jobs[w])
        BY RowStatement DEF IInv, Steps
      <3> QED BY <3>1 DEF On, RowPlan
    <2> QED BY <2>1, <2>2
  <1>2. IInv /\ [Next]_vars => [Kept]_vars
    BY <1>1
  <1> QED BY <1>2, InitInv, NextInv, PTL DEF Spec, VerifiedKept

-----------------------------------------------------------------------------
(* Copies of User rows.                                                    *)

\* Every statement but the one that saves a User row.
Harmless == {"clear", "create", "issue", "loadUser", "saveRow", "deliver", "renew", "revise",
             "mint", "record", "rotate", "blacklist", "close"}
Loaders == {"verify", "link", "setForget", "verifyEmail"}
Savers == Loaders \cup {"changePassword"}

\* What the answer to a request says of an account that was a.
Change(j, a) ==
  CASE j.kind \in {"verify", "link"}              -> [a EXCEPT !.active = TRUE]
    [] j.kind \in {"setForget", "changePassword"} -> [a EXCEPT !.pw = j.pw]
    [] j.kind = "verifyEmail"                     -> [a EXCEPT !.email = j.row.to]

\* A User row is saved right after it was read, by a request that changes it;
\* T is what users have been told, C who clashed.
CopyOK(j, T, C) ==
  \/ j.plan \in Seq(Harmless)
  \/ /\ j.plan \in {<<"loadUser", "saveUser", "saveRow">>, <<"loadUser", "saveUser">>}
     /\ j.kind \in Loaders
  \/ /\ j.plan \in {<<"saveUser", "saveRow">>, <<"saveUser">>}
     /\ j.kind \in Savers
     /\ j.user \in DOMAIN T
     /\ j.user \notin C => j.acct = Change(j, T[j.user])

ToldOK ==
  /\ DOMAIN users \subseteq DOMAIN told /\ DOMAIN told \subseteq 1..fresh
  /\ told = [u \in DOMAIN told |-> told[u]]

Copies == ToldOK /\ AcknowledgedKept /\ \A w \in Worker : CopyOK(jobs[w], told, clash)

-----------------------------------------------------------------------------
\* A copy stays in order when others are told, and as more users clash.
LEMMA StillOK ==
  ASSUME NEW j, NEW T, NEW C, NEW U, NEW D, CopyOK(j, T, C), C \subseteq D,
         j.user \in DOMAIN T => j.user \in DOMAIN U,
         j.plan \in {<<"saveUser", "saveRow">>, <<"saveUser">>} /\ j.user \in DOMAIN T \ D => U[j.user] = T[j.user]
  PROVE  CopyOK(j, U, D)
  <1>1. CASE j.plan \in Seq(Harmless)
    BY <1>1 DEF CopyOK
  <1>2. CASE /\ j.plan \in {<<"loadUser", "saveUser", "saveRow">>, <<"loadUser", "saveUser">>}
             /\ j.kind \in Loaders
    BY <1>2, Zenon DEF CopyOK
  <1>3. CASE /\ j.plan \in {<<"saveUser", "saveRow">>, <<"saveUser">>}
             /\ j.kind \in Savers
             /\ j.user \in DOMAIN T
             /\ j.user \notin C => j.acct = Change(j, T[j.user])
    <2>1. j.user \notin D => j.acct = Change(j, U[j.user])
      <3> SUFFICES ASSUME j.user \notin D PROVE j.acct = Change(j, U[j.user])
        OBVIOUS
      <3>1. U[j.user] = T[j.user] /\ j.user \notin C
        BY <1>3
      <3> QED BY <1>3, <3>1
    <2> QED BY <1>3, <2>1, Zenon DEF CopyOK
  <1> QED BY <1>1, <1>2, <1>3, Zenon DEF CopyOK

\* Worker w is left with a request that is in order; users may be deleted.
LEMMA CopyFrame ==
  ASSUME IInv, Copies, NEW w \in Worker, NEW j, CopyOK(j, told, clash'), jobs' = [jobs EXCEPT ![w] = j],
         told' = told, clash \subseteq clash', fresh' = fresh \/ fresh' = fresh + 1,
         \A u \in DOMAIN users' : u \in DOMAIN users /\ users'[u] = users[u]
  PROVE  Copies'
  <1>1. \A v \in Worker : jobs'[v] = IF v = w THEN j ELSE jobs[v]
    BY DEF IInv, JobsOK
  <1>2. \A v \in Worker : CopyOK(jobs[v], told, clash')
    BY StillOK DEF Copies
  <1>3. \A v \in Worker : CopyOK(jobs'[v], told', clash')
    BY <1>1, <1>2
  <1>4. ToldOK'
    BY DEF IInv, TokensOK, Copies, ToldOK
  <1>5. AcknowledgedKept'
    BY DEF Copies, AcknowledgedKept
  <1> QED BY <1>3, <1>4, <1>5 DEF Copies

\* A plan that saves no User row is in order.
LEMMA HarmlessOK ==
  ASSUME NEW j, j.plan \in Seq(Harmless), NEW T, NEW C
  PROVE  CopyOK(j, T, C)
  BY DEF CopyOK

LEMMA NoJobHarmless == NoJob.plan \in Seq(Harmless)
  BY DEF NoJob

\* A request goes on with such a plan, or stops.
LEMMA CopyGoesOn ==
  ASSUME IInv, Copies, NEW w \in Worker, NEW step \in Harmless \ {"loadUser"}, On(w, step),
         NEW job, IsJob(job), job.plan = jobs[w].plan, Proceed(w, job) \/ Stop(w),
         told' = told, clash \subseteq clash', fresh' = fresh \/ fresh' = fresh + 1,
         \A u \in DOMAIN users' : u \in DOMAIN users /\ users'[u] = users[u]
  PROVE  Copies'
  <1>1. job.plan \in Seq(Harmless) /\ job.plan # <<>>
    BY DEF Copies, CopyOK, On, Harmless
  <1>2. Advance(job).plan \in Seq(Harmless)
    <2>1. Tail(job.plan) \in Seq(Harmless)
      BY <1>1, HeadTailProperties
    <2>2. [job EXCEPT !.plan = Tail(job.plan)].plan = Tail(job.plan)
      BY DEF IsJob, Fields
    <2> QED BY <2>1, <2>2, NoJobHarmless DEF Advance
  <1>3. CASE Proceed(w, job)
    BY <1>2, <1>3, HarmlessOK, CopyFrame DEF Proceed
  <1>4. CASE Stop(w)
    BY <1>4, NoJobHarmless, HarmlessOK, CopyFrame DEF Stop
  <1> QED BY <1>3, <1>4

-----------------------------------------------------------------------------
\* The statement that reads a User row.
LEMMA LoadUserCopies ==
  ASSUME IInv, Copies, NEW w \in Worker, LoadUser(w)
  PROVE  Copies'
  <1> DEFINE job == jobs[w]
             u == job.user
             to == users[u].email
             acct == CASE job.kind \in {"verify", "link"} -> [users[u] EXCEPT !.active = TRUE]
                       [] job.kind = "setForget"          -> [users[u] EXCEPT !.pw = job.pw]
                       [] job.kind = "verifyEmail"        -> [users[u] EXCEPT !.email = job.row.to]
             new == [job EXCEPT !.to = to, !.acct = acct]
  <1>1. On(w, "loadUser") /\ UNCHANGED <<fresh, users, told, clash>>
    BY DEF LoadUser, ghosts
  <1>2. Stop(w) \/ (Has(u) /\ Proceed(w, new))
    BY Zenon DEF LoadUser
  <1>3. job.kind \in Loaders => acct = Change(job, users[u])
    BY DEF Change, Loaders
  <1>4. IsJob(job) /\ CopyOK(job, told, clash)
    BY <1>1, RowStatement DEF IInv, Copies, Steps, Later
  <1> HIDE DEF to, acct
  <1>5. /\ IsJob(new) /\ new.plan = job.plan /\ new.user = u /\ new.acct = acct /\ new.kind = job.kind
        /\ new.pw = job.pw /\ new.row = job.row
    BY <1>4 DEF IsJob, Fields
  <1> HIDE DEF new
  <1>6. CASE Stop(w)
    BY <1>1, <1>6, NoJobHarmless, HarmlessOK, CopyFrame DEF Stop
  <1>7. ASSUME Has(u), Proceed(w, new), new.plan \in Seq(Harmless) PROVE Copies'
    <2>1. Tail(new.plan) \in Seq(Harmless)
      BY <1>1, <1>5, <1>7, HeadTailProperties DEF On
    <2>2. [new EXCEPT !.plan = Tail(new.plan)].plan = Tail(new.plan)
      BY <1>5 DEF IsJob, Fields
    <2>3. Advance(new).plan \in Seq(Harmless)
      BY <2>1, <2>2, NoJobHarmless DEF Advance
    <2> QED BY <1>1, <1>7, <2>3, HarmlessOK, CopyFrame DEF Proceed
  <1>8. ASSUME Has(u), Proceed(w, new), job.plan \notin Seq(Harmless) PROVE Copies'
    <2>1. job.plan \in {<<"loadUser", "saveUser", "saveRow">>, <<"loadUser", "saveUser">>} /\ job.kind \in Loaders
      BY <1>1, <1>4, <1>8 DEF CopyOK, On
    <2>2. Len(new.plan) # 1 /\ Tail(new.plan) \in {<<"saveUser", "saveRow">>, <<"saveUser">>}
      <3> DEFINE p == new.plan
      <3>1. p \in {<<"loadUser", "saveUser", "saveRow">>, <<"loadUser", "saveUser">>}
        BY <1>5, <2>1
      <3> HIDE DEF p
      <3>2. Len(p) # 1 /\ Tail(p) \in {<<"saveUser", "saveRow">>, <<"saveUser">>}
        <4>1. CASE p = <<"loadUser", "saveUser", "saveRow">>
          BY <4>1
        <4>2. CASE p = <<"loadUser", "saveUser">>
          BY <4>2
        <4> QED BY <3>1, <4>1, <4>2
      <3> QED BY <3>2 DEF p
    <2> DEFINE j == [new EXCEPT !.plan = Tail(new.plan)]
    <2>3. /\ j.plan \in {<<"saveUser", "saveRow">>, <<"saveUser">>} /\ j.user = u /\ j.acct = acct
          /\ j.kind = job.kind /\ j.pw = job.pw /\ j.row = job.row
      BY <1>5, <2>2 DEF IsJob, Fields
    <2>4. jobs' = [jobs EXCEPT ![w] = j]
      BY <1>8, <2>2 DEF Proceed, Advance
    <2> HIDE DEF j
    <2>5. u \in DOMAIN told /\ (u \notin clash => users[u] = told[u])
      BY <1>8 DEF Has, Copies, ToldOK, AcknowledgedKept
    <2>6. \A a : Change(j, a) = Change(job, a)
      BY <2>3, Zenon DEF Change
    <2>7. u \notin clash => acct = Change(j, told[u])
      BY <1>3, <2>1, <2>5, <2>6
    <2>8. CopyOK(j, told, clash)
      <3>2. j.kind \in Savers
        BY <2>1, <2>3 DEF Savers
      <3>3. j.user \in DOMAIN told /\ (j.user \notin clash => j.acct = Change(j, told[j.user]))
        BY <2>3, <2>5, <2>7
      <3> QED BY <2>3, <3>2, <3>3, Zenon DEF CopyOK
    <2> QED BY <1>1, <2>4, <2>8, CopyFrame
  <1> QED BY <1>2, <1>5, <1>6, <1>7, <1>8

\* The statement that saves it: a copy another request still holds is a
\* clash, and the user is told what is saved.
LEMMA SaveUserCopies ==
  ASSUME IInv, Copies, NEW w \in Worker, SaveUser(w)
  PROVE  Copies'
  <1> DEFINE job == jobs[w]
             u == job.user
             acct == job.acct
  <1>1. On(w, "saveUser") /\ UNCHANGED fresh /\ IsJob(job) /\ CopyOK(job, told, clash)
    <2>1. On(w, "saveUser") /\ UNCHANGED fresh
      BY DEF SaveUser
    <2> QED BY <2>1, RowStatement DEF IInv, Copies, Steps, Later
  <1>2. /\ job.plan \in {<<"saveUser", "saveRow">>, <<"saveUser">>}
        /\ job.kind \in Savers
        /\ u \in DOMAIN told
        /\ u \notin clash => acct = Change(job, told[u])
    BY <1>1 DEF CopyOK, On, Harmless
  <1>3. \/ Stop(w) /\ UNCHANGED <<users, told, clash>>
        \/ /\ users' = Put(users, u, acct)
           /\ told' = [told EXCEPT ![u] = Change(job, told[u])]
           /\ clash' = clash \cup (IF \E v \in Worker \ {w} : HoldsUser(v, u) THEN {u} ELSE {})
           /\ Proceed(w, job)
    BY Zenon DEF SaveUser, Change
  <1>4. CASE Stop(w) /\ UNCHANGED <<users, told, clash>>
    BY <1>1, <1>4, NoJobHarmless, HarmlessOK, CopyFrame DEF Stop
  <1>5. ASSUME users' = Put(users, u, acct),
               told' = [told EXCEPT ![u] = Change(job, told[u])],
               clash' = clash \cup (IF \E v \in Worker \ {w} : HoldsUser(v, u) THEN {u} ELSE {}),
               Proceed(w, job)
        PROVE  Copies'
    <2>1. Advance(job).plan \in Seq(Harmless)
      <3>1. CASE job.plan = <<"saveUser">>
        BY <3>1, NoJobHarmless DEF Advance
      <3>2. CASE job.plan = <<"saveUser", "saveRow">>
        <4>1. Advance(job) = [job EXCEPT !.plan = Tail(job.plan)]
          BY <3>2 DEF Advance
        <4>2. [job EXCEPT !.plan = Tail(job.plan)].plan = Tail(job.plan)
          BY <1>1 DEF IsJob, Fields
        <4>3. Tail(job.plan) = <<"saveRow">>
          BY <3>2
        <4>4. <<"saveRow">> \in Seq(Harmless)
          BY DEF Harmless
        <4>5. Advance(job).plan = <<"saveRow">>
          BY <4>1, <4>2, <4>3, Zenon
        <4> QED BY <4>4, <4>5
      <3> QED BY <1>2, <3>1, <3>2
    <2>2. \A v \in Worker : jobs'[v] = IF v = w THEN Advance(job) ELSE jobs[v]
      BY <1>5 DEF Proceed, IInv, JobsOK
    <2>3. DOMAIN told' = DOMAIN told /\ \A x \in DOMAIN told : x # u => told'[x] = told[x]
      BY <1>5, <1>2 DEF Copies, ToldOK
    <2>4. ASSUME NEW v \in Worker PROVE CopyOK(jobs'[v], told', clash')
      <3>1. CASE v = w
        BY <2>1, <2>2, <3>1, HarmlessOK
      <3>2. CASE v # w
        <4>1. jobs'[v] = jobs[v] /\ CopyOK(jobs[v], told, clash)
          BY <2>2, <3>2 DEF Copies
        <4>2. jobs[v].plan \in {<<"saveUser", "saveRow">>, <<"saveUser">>} /\ jobs[v].user = u => u \in clash'
          <5>1. jobs[v].plan \in {<<"saveUser", "saveRow">>, <<"saveUser">>} => On(v, "saveUser")
            BY DEF On
          <5> QED BY <1>5, <3>2, <5>1 DEF HoldsUser
        <4> DEFINE k == jobs[v]
        <4>3. CopyOK(k, told, clash) /\ clash \subseteq clash' /\ DOMAIN told' = DOMAIN told
          BY <1>5, <2>3, <4>1
        <4>4. k.plan \in {<<"saveUser", "saveRow">>, <<"saveUser">>} /\ k.user \in DOMAIN told \ clash' =>
                told'[k.user] = told[k.user]
          BY <2>3, <4>2
        <4> HIDE DEF k
        <4>5. CopyOK(k, told', clash')
          BY <4>3, <4>4, StillOK
        <4> QED BY <4>1, <4>5 DEF k
      <3> QED BY <3>1, <3>2
    <2>5. ToldOK'
      BY <1>1, <1>2, <1>5, <2>3 DEF Copies, ToldOK, Put
    <2>6. AcknowledgedKept'
      <3> SUFFICES ASSUME NEW x \in DOMAIN users' \ clash' PROVE users'[x] = told'[x]
        BY DEF AcknowledgedKept
      <3>1. CASE x = u
        <4>1. users'[u] = acct /\ u \notin clash
          BY <1>5, <3>1 DEF Put
        <4>2. told'[u] = Change(job, told[u])
          BY <1>2, <1>5
        <4> QED BY <1>2, <3>1, <4>1, <4>2
      <3>2. CASE x # u
        BY <1>5, <2>3, <3>2 DEF Put, Copies, ToldOK, AcknowledgedKept
      <3> QED BY <3>1, <3>2
    <2> QED BY <2>4, <2>5, <2>6 DEF Copies
  <1> QED BY <1>3, <1>4, <1>5

\* A new user is told what he gave.
LEMMA CreateCopies ==
  ASSUME IInv, Copies, NEW w \in Worker, Create(w)
  PROVE  Copies'
  <1> DEFINE n == fresh + 1
             acct == [email |-> jobs[w].to, active |-> FALSE, pw |-> jobs[w].pw]
             job == [jobs[w] EXCEPT !.user = n]
  <1>0. fresh \in Nat /\ n \notin DOMAIN told /\ n \notin DOMAIN users
    BY DEF IInv, TokensOK, Copies, ToldOK
  <1>1. On(w, "create") /\ clash' = clash
        /\ \/ Stop(w) /\ UNCHANGED <<fresh, users, told>>
           \/ fresh' = n /\ users' = Put(users, n, acct) /\ told' = Put(told, n, acct) /\ Proceed(w, job)
    BY DEF Create
  <1>2. IsJob(jobs[w]) /\ CopyOK(jobs[w], told, clash)
    BY <1>1, RowStatement DEF IInv, Copies, Steps, Later
  <1>3. CASE Stop(w) /\ UNCHANGED <<fresh, users, told>>
    BY <1>1, <1>3, NoJobHarmless, HarmlessOK, CopyFrame DEF Stop
  <1>4. IsJob(job) /\ job.plan = jobs[w].plan
    BY <1>2 DEF IsJob, Fields
  <1> HIDE DEF job, n, acct
  <1>5. ASSUME fresh' = n, users' = Put(users, n, acct), told' = Put(told, n, acct), Proceed(w, job) PROVE Copies'
    <2>1. jobs[w].plan \in Seq(Harmless) /\ jobs[w].plan # <<>>
      BY <1>1, <1>2 DEF CopyOK, On
    <2>2. Advance(job).plan \in Seq(Harmless)
      <3>1. Tail(job.plan) \in Seq(Harmless)
        BY <1>4, <2>1, HeadTailProperties
      <3>2. [job EXCEPT !.plan = Tail(job.plan)].plan = Tail(job.plan)
        BY <1>4 DEF IsJob, Fields
      <3> QED BY <3>1, <3>2, NoJobHarmless DEF Advance
    <2>3. \A v \in Worker : jobs'[v] = IF v = w THEN Advance(job) ELSE jobs[v]
      BY <1>5 DEF Proceed, IInv, JobsOK
    <2>4. DOMAIN told' = DOMAIN told \cup {n} /\ \A x \in DOMAIN told : told'[x] = told[x]
      BY <1>0, <1>5 DEF Put
    <2>5. ASSUME NEW v \in Worker PROVE CopyOK(jobs'[v], told', clash')
      <3>1. CASE v = w
        BY <2>2, <2>3, <3>1, HarmlessOK
      <3>2. CASE v # w
        <4>1. jobs'[v] = jobs[v] /\ CopyOK(jobs[v], told, clash)
          BY <2>3, <3>2 DEF Copies
        <4> QED BY <1>1, <2>4, <4>1, StillOK
      <3> QED BY <3>1, <3>2
    <2>6. ToldOK'
      <3>1. DOMAIN users' = DOMAIN users \cup {n}
        BY <1>5 DEF Put
      <3>2. told' = [x \in DOMAIN told' |-> told'[x]]
        BY <1>5 DEF Put
      <3> QED BY <1>0, <1>5, <2>4, <3>1, <3>2 DEF Copies, ToldOK, n
    <2>7. AcknowledgedKept'
      BY <1>0, <1>1, <1>5 DEF Put, Copies, ToldOK, AcknowledgedKept
    <2> QED BY <2>5, <2>6, <2>7 DEF Copies
  <1> QED BY <1>1, <1>3, <1>5 DEF job, n, acct

LEMMA RowStepCopies ==
  ASSUME IInv, Copies, NEW w \in Worker, RowStep(w)
  PROVE  Copies'
  <1>0. \A step \in Steps : On(w, step) => IsJob(jobs[w])
    BY RowStatement DEF IInv
  <1>1. ASSUME NEW u, DeleteUser(u) PROVE \A v \in DOMAIN users' : v \in DOMAIN users /\ users'[v] = users[v]
    BY <1>1 DEF DeleteUser
  <1>2. CASE Clear(w)
    <2>1. On(w, "clear") /\ IsJob(jobs[w]) /\ UNCHANGED <<fresh, told, clash>> /\ Proceed(w, jobs[w])
          /\ DeleteUser(jobs[w].user)
      BY <1>0, <1>2 DEF Clear, ghosts, Steps
    <2>2. "clear" \in Harmless \ {"loadUser"}
      BY DEF Harmless
    <2> QED BY <1>1, <2>1, <2>2, CopyGoesOn
  <1>3. CASE Issue(w)
    <2> DEFINE row == [jobs[w].row EXCEPT !.user = jobs[w].user,
                             !.code = IF jobs[w].row.kind = "link" THEN fresh' ELSE None]
               drawn == IF row.kind \in OtpKinds THEN NewCode(row, fresh') ELSE row
               j == [jobs[w] EXCEPT !.rec = fresh', !.row = drawn]
    <2>1. /\ On(w, "issue") /\ IsJob(jobs[w]) /\ fresh' = fresh + 1 /\ UNCHANGED <<users, told, clash>>
          /\ "issue" \in Harmless \ {"loadUser"}
      BY <1>0, <1>3 DEF Issue, ghosts, Steps, Later, Harmless
    <2>2. Proceed(w, j) \/ Stop(w)
      BY <1>3, Zenon DEF Issue
    <2> HIDE DEF row, drawn
    <2>3. IsJob(j) /\ j.plan = jobs[w].plan
      BY <2>1 DEF IsJob, Fields
    <2> HIDE DEF j
    <2> QED BY <2>1, <2>2, <2>3, CopyGoesOn
  <1>4. CASE SaveRow(w)
    <2>1. /\ On(w, "saveRow") /\ IsJob(jobs[w]) /\ UNCHANGED <<fresh, users, told>> /\ clash \subseteq clash'
          /\ Proceed(w, jobs[w]) \/ Stop(w)
          /\ "saveRow" \in Harmless \ {"loadUser"}
      BY <1>0, <1>4 DEF SaveRow, Steps, Later, Harmless
    <2> QED BY <2>1, CopyGoesOn
  <1>5. CASE Deliver(w)
    <2> DEFINE resend == jobs[w].row.resend + 1
               j == [jobs[w] EXCEPT !.row.resend = resend]
    <2>1. /\ On(w, "deliver") /\ IsJob(jobs[w]) /\ UNCHANGED <<fresh, told, clash>>
          /\ "deliver" \in Harmless \ {"loadUser"}
      BY <1>0, <1>5 DEF Deliver, ghosts, Steps, Later, Harmless
    <2>2. Proceed(w, jobs[w]) \/ Proceed(w, j) \/ Stop(w)
      BY <1>5 DEF Deliver
    <2>3. \A v \in DOMAIN users' : v \in DOMAIN users /\ users'[v] = users[v]
      BY <1>1, <1>5 DEF Deliver
    <2> HIDE DEF resend
    <2>4. IsJob(j) /\ j.plan = jobs[w].plan
      BY <2>1 DEF IsJob, Fields
    <2> HIDE DEF j
    <2> QED BY <2>1, <2>2, <2>3, <2>4, CopyGoesOn
  <1>6. CASE Abandon(w)
    BY <1>6, NoJobHarmless, HarmlessOK, CopyFrame DEF Abandon, Stop, ghosts
  <1> QED BY <1>2, <1>3, <1>4, <1>5, <1>6, CreateCopies, LoadUserCopies, SaveUserCopies DEF RowStep

-----------------------------------------------------------------------------
\* A request that saves no User row begins.
LEMMA CopyBegins ==
  ASSUME IInv, Copies, NEW w \in Worker, NEW kind, NEW job, IsJob(job), job.plan \in Seq(Harmless),
         Begin(w, kind, job), UNCHANGED <<users, told, clash>>, fresh' = fresh \/ fresh' = fresh + 1
  PROVE  Copies'
  <1>1. jobs' = [jobs EXCEPT ![w] = [job EXCEPT !.kind = kind]]
    BY DEF Begin
  <1>2. [job EXCEPT !.kind = kind].plan \in Seq(Harmless)
    BY DEF IsJob, Fields
  <1> QED BY <1>1, <1>2, HarmlessOK, CopyFrame

\* A request that holds a record begins: it will read the user, or save none.
LEMMA HoldingBegins ==
  ASSUME IInv, Copies, NEW w \in Worker, NEW kind, NEW r, NEW row, NEW plan, NEW to, NEW pw, NEW code,
         \/ plan \in Seq(Harmless)
         \/ plan \in {<<"loadUser", "saveUser", "saveRow">>, <<"loadUser", "saveUser">>} /\ kind \in Loaders,
         \/ Begin(w, kind, Holding(r, row, plan))
         \/ Begin(w, kind, [Holding(r, row, plan) EXCEPT !.code = code])
         \/ Begin(w, kind, [Holding(r, row, plan) EXCEPT !.to = to])
         \/ Begin(w, kind, [Holding(r, row, plan) EXCEPT !.pw = pw, !.code = code]),
         UNCHANGED <<users, told, clash>>, fresh' = fresh \/ fresh' = fresh + 1
  PROVE  Copies'
  <1> DEFINE h == Holding(r, row, plan)
  <1>1. IsJob(h) /\ h.plan = plan
    BY HoldingOK
  <1> HIDE DEF h
  <1>2. /\ IsJob([h EXCEPT !.code = code]) /\ [h EXCEPT !.code = code].plan = plan
        /\ IsJob([h EXCEPT !.to = to]) /\ [h EXCEPT !.to = to].plan = plan
        /\ IsJob([h EXCEPT !.pw = pw, !.code = code]) /\ [h EXCEPT !.pw = pw, !.code = code].plan = plan
    BY <1>1 DEF IsJob, Fields
  <1>3. PICK job : IsJob(job) /\ job.plan = plan /\ Begin(w, kind, job)
    BY <1>1, <1>2 DEF h
  <1> DEFINE j == [job EXCEPT !.kind = kind]
  <1>4. j.plan = plan /\ j.kind = kind
    BY <1>3 DEF IsJob, Fields
  <1>5. jobs' = [jobs EXCEPT ![w] = j]
    BY <1>3 DEF Begin
  <1> HIDE DEF j
  <1>6. CopyOK(j, told, clash)
    BY <1>4 DEF CopyOK
  <1> QED BY <1>5, <1>6, CopyFrame

LEMMA HarmlessPlans ==
  /\ <<"saveRow">> \in Seq(Harmless)
  /\ <<"issue">> \in Seq(Harmless)
  /\ <<"saveRow", "revise", "saveRow", "deliver">> \in Seq(Harmless)
  /\ <<"saveRow", "deliver", "saveRow">> \in Seq(Harmless)
  /\ <<"saveRow", "renew", "issue", "saveRow", "deliver">> \in Seq(Harmless)
  /\ <<"mint", "record">> \in Seq(Harmless)
  /\ <<"rotate">> \in Seq(Harmless)
  /\ <<"blacklist", "close">> \in Seq(Harmless)
  BY DEF Harmless

LEMMA HarmlessMaking ==
  ASSUME NEW type
  PROVE  <<>> \o Making(type) \in Seq(Harmless) /\ <<"clear">> \o Making(type) \in Seq(Harmless)
  <1>1. CASE type = "link"
    BY <1>1 DEF Harmless, Making
  <1>2. CASE type # "link"
    BY <1>2 DEF Harmless, Making
  <1> QED BY <1>1, <1>2

LEMMA RegistrationCopies ==
  ASSUME IInv, Copies, NEW w \in Worker, RegistrationStep(w)
  PROVE  Copies'
  <1> USE HarmlessPlans
  <1>0. /\ "verify" \in Loaders /\ "link" \in Loaders /\ "setForget" \in Loaders
    BY DEF Loaders
  <1>1. ASSUME NEW a, NEW type, NEW p, Register(w, a, type, p) PROVE Copies'
    <2> DEFINE plan == (IF At(a) = {} THEN <<>> ELSE <<"clear">>) \o Making(type)
               user == IF At(a) = {} THEN None ELSE CHOOSE u \in At(a) : TRUE
               acct == IF At(a) = {} THEN NoAcct ELSE users[CHOOSE u \in At(a) : TRUE]
               row == NewRow(type)
               job == [NoJob EXCEPT !.plan = plan, !.user = user, !.acct = acct, !.row = row,
                                    !.to = a, !.pw = p]
    <2>1. plan \in Seq(Harmless)
      BY HarmlessMaking
    <2>2. Begin(w, "register", job)
      BY <1>1, Zenon DEF Register
    <2>3. UNCHANGED <<fresh, users, told, clash>>
      BY <1>1, Zenon DEF Register, ghosts
    <2> HIDE DEF plan, user, acct, row
    <2>4. IsJob(job) /\ job.plan = plan
      BY NoJobOK DEF IsJob, Fields
    <2> HIDE DEF job
    <2> QED BY <2>1, <2>2, <2>3, <2>4, CopyBegins
  <1>2. ASSUME NEW a, NEW c, Verify(w, a, c) PROVE Copies'
    BY <1>0, <1>2, HoldingBegins DEF Verify
  <1>3. ASSUME NEW c, VerifyLink(w, c) PROVE Copies'
    BY <1>0, <1>3, HoldingBegins DEF VerifyLink
  <1>4. ASSUME NEW a, Resend(w, a) PROVE Copies'
    BY <1>4, HoldingBegins DEF Resend, ResendBlock
  <1>5. ASSUME NEW a, ForgetPassword(w, a) PROVE Copies'
    BY <1>5, HoldingBegins DEF ForgetPassword, ResendBlock
  <1>6. ASSUME NEW a, NEW c, VerifyForget(w, a, c) PROVE Copies'
    BY <1>6, HoldingBegins DEF VerifyForget, ResendBlock
  <1>7. ASSUME NEW a, NEW p, SetForgotten(w, a, p) PROVE Copies'
    BY <1>0, <1>7, HoldingBegins DEF SetForgotten, ResendBlock
  <1>8. CASE Renew(w)
    <2> DEFINE row == NewRow("forget")
               job == [jobs[w] EXCEPT !.rec = None, !.row = row]
    <2>1. /\ On(w, "renew") /\ "renew" \in Steps /\ "renew" \in Harmless \ {"loadUser"} /\ Proceed(w, job)
          /\ UNCHANGED <<fresh, users, told, clash>>
      BY <1>8 DEF Renew, Steps, Later, Harmless, ghosts
    <2> HIDE DEF row
    <2>2. IsJob(job) /\ job.plan = jobs[w].plan
      BY <2>1, RowStatement DEF IInv, IsJob, Fields
    <2> HIDE DEF job
    <2> QED BY <2>1, <2>2, CopyGoesOn
  <1> QED BY <1>1, <1>2, <1>3, <1>4, <1>5, <1>6, <1>7, <1>8 DEF RegistrationStep

\* A change of password reads and changes the user's row as it begins.
LEMMA ChangePasswordCopies ==
  ASSUME IInv, Copies, NEW w \in Worker, NEW u, NEW old, NEW new, ChangePassword(w, u, old, new)
  PROVE  Copies'
  <1>1. UNCHANGED <<fresh, users, told, clash>> /\ Has(u)
    BY Zenon DEF ChangePassword, ghosts, Active
  <1>2. PICK r : /\ codes[r].user = u
                 /\ LET row == codes[r] IN
                    \/ Begin(w, "changePassword", Holding(r, [Block(row) EXCEPT !.window = "lapsed"], <<"saveRow">>))
                    \/ Begin(w, "changePassword", Holding(r, Miss(row), <<"saveRow">>))
                    \/ Begin(w, "changePassword",
                         [Holding(r, [row EXCEPT !.done = TRUE, !.window = "lapsed"], <<"saveUser", "saveRow">>)
                          EXCEPT !.acct = [users[u] EXCEPT !.pw = new], !.pw = new])
    BY DEF ChangePassword, Pending, RowsOf
  <1> DEFINE row == [codes[r] EXCEPT !.done = TRUE, !.window = "lapsed"]
             acct == [users[u] EXCEPT !.pw = new]
             plan == <<"saveUser", "saveRow">>
             h == Holding(r, row, plan)
             j == [[h EXCEPT !.acct = acct, !.pw = new] EXCEPT !.kind = "changePassword"]
  <1>3. \/ \E other : Begin(w, "changePassword", Holding(r, other, <<"saveRow">>))
        \/ Begin(w, "changePassword", [h EXCEPT !.acct = acct, !.pw = new])
    BY <1>2
  <1>4. ASSUME NEW other, Begin(w, "changePassword", Holding(r, other, <<"saveRow">>)) PROVE Copies'
    BY <1>1, <1>4, HarmlessPlans, HoldingBegins
  <1>5. ASSUME Begin(w, "changePassword", [h EXCEPT !.acct = acct, !.pw = new]) PROVE Copies'
    <2>1. jobs' = [jobs EXCEPT ![w] = j]
      BY <1>5 DEF Begin
    <2>2. IsJob(h) /\ h.plan = plan /\ h.user = u
      <3>1. IsJob(h) /\ h.plan = plan
        BY HoldingOK
      <3>2. h.user = u
        BY <1>2, NoJobOK DEF Holding, IsJob, Fields
      <3> QED BY <3>1, <3>2
    <2>5. \A k : k.kind = "changePassword" => Change(k, users[u]) = [users[u] EXCEPT !.pw = k.pw]
      BY DEF Change
    <2> HIDE DEF h, acct, plan
    <2>3. /\ j.plan = plan /\ j.user = u /\ j.acct = acct /\ j.pw = new /\ j.kind = "changePassword"
      BY <2>2 DEF IsJob, Fields
    <2> HIDE DEF j
    <2>4. u \in DOMAIN told /\ (u \notin clash => users[u] = told[u])
      BY <1>1 DEF Has, Copies, ToldOK, AcknowledgedKept
    <2>6. Change(j, users[u]) = acct
      BY <2>3, <2>5, Zenon DEF acct
    <2>7. u \notin clash => j.acct = Change(j, told[u])
      BY <2>3, <2>4, <2>6
    <2>8. j.kind \in Savers
      BY <2>3 DEF Savers
    <2>9. CopyOK(j, told, clash)
      BY <2>3, <2>4, <2>7, <2>8, Zenon DEF CopyOK, plan
    <2> QED BY <1>1, <2>1, <2>9, CopyFrame
  <1> QED BY <1>3, <1>4, <1>5

LEMMA ChangeCopies ==
  ASSUME IInv, Copies, NEW w \in Worker, ChangeStep(w)
  PROVE  Copies'
  <1> USE HarmlessPlans
  <1>1. ASSUME NEW u, NEW kind, OpenWindow(w, u, kind) PROVE Copies'
    <2> DEFINE row == NewRow(kind)
               new == [NoJob EXCEPT !.plan = <<"issue">>, !.user = u, !.row = row]
               r == Max(RowsOf({u}, {kind}))
    <2>1. UNCHANGED <<fresh, users, told, clash>>
      BY <1>1 DEF OpenWindow, ghosts
    <2> HIDE DEF row, r
    <2>2. IsJob(new) /\ new.plan = <<"issue">>
      BY NoJobOK DEF IsJob, Fields
    <2> HIDE DEF new
    <2>3. \/ Begin(w, OpenKind[kind], new)
          \/ Begin(w, OpenKind[kind], Holding(r, [Block(codes[r]) EXCEPT !.age = "old"], <<"saveRow">>))
          \/ Begin(w, OpenKind[kind], Holding(r, [codes[r] EXCEPT !.attapts = @ + 1, !.window = "live"],
                                              <<"saveRow">>))
      BY <1>1 DEF OpenWindow, new, row, r
    <2> QED BY <2>1, <2>2, <2>3, CopyBegins, HoldingBegins
  <1>2. ASSUME NEW u, NEW a, PostEmail(w, u, a) PROVE Copies'
    BY <1>2, HoldingBegins DEF PostEmail, ghosts
  <1>3. ASSUME NEW u, NEW c, VerifyEmail(w, u, c) PROVE Copies'
    <2>1. "verifyEmail" \in Loaders
      BY DEF Loaders
    <2> QED BY <1>3, <2>1, HoldingBegins DEF VerifyEmail
  <1>4. ASSUME NEW u, ResendEmail(w, u) PROVE Copies'
    BY <1>4, HoldingBegins DEF ResendEmail, ghosts
  <1>5. CASE Revise(w)
    <2>1. /\ On(w, "revise") /\ "revise" \in Steps /\ "revise" \in Harmless \ {"loadUser"}
          /\ UNCHANGED <<users, told, clash>> /\ (fresh' = fresh \/ fresh' = fresh + 1)
      BY <1>5 DEF Revise, Steps, Later, Harmless, ghosts
    <2>2. PICK row : Proceed(w, [jobs[w] EXCEPT !.row = row])
      BY <1>5, Zenon DEF Revise
    <2>3. IsJob([jobs[w] EXCEPT !.row = row]) /\ [jobs[w] EXCEPT !.row = row].plan = jobs[w].plan
      BY <2>1, RowStatement DEF IInv, IsJob, Fields
    <2> QED BY <2>1, <2>2, <2>3, CopyGoesOn
  <1> QED BY <1>1, <1>2, <1>3, <1>4, <1>5, ChangePasswordCopies DEF ChangeStep

LEMMA SessionCopies ==
  ASSUME IInv, Copies, NEW w \in Worker, SessionStep(w)
  PROVE  Copies'
  <1> USE HarmlessPlans
  <1>0. UNCHANGED <<users, told, clash>> /\ (fresh' = fresh \/ fresh' = fresh + 1)
    BY DEF SessionStep, Login, Mint, Record, Refresh, Rotate, Logout, Blacklist, CloseSession, LogoutAll, ghosts
  <1>1. ASSUME NEW plan, NEW user, NEW rec
        PROVE  /\ IsJob([NoJob EXCEPT !.plan = plan, !.user = user])
               /\ [NoJob EXCEPT !.plan = plan, !.user = user].plan = plan
               /\ IsJob([NoJob EXCEPT !.plan = plan, !.user = user, !.rec = rec])
               /\ [NoJob EXCEPT !.plan = plan, !.user = user, !.rec = rec].plan = plan
    BY NoJobOK DEF IsJob, Fields
  <1>2. ASSUME NEW u, NEW p, Login(w, u, p) PROVE Copies'
    <2> DEFINE j == [NoJob EXCEPT !.plan = <<"mint", "record">>, !.user = u]
    <2>1. Begin(w, "login", j)
      BY <1>2, Zenon DEF Login
    <2>2. IsJob(j) /\ j.plan = <<"mint", "record">>
      BY <1>1
    <2> HIDE DEF j
    <2> QED BY <1>0, <2>1, <2>2, CopyBegins
  <1>3. ASSUME NEW t, Refresh(w, t) PROVE Copies'
    <2> DEFINE user == tokens[t].user
               j == [NoJob EXCEPT !.plan = <<"rotate">>, !.user = user, !.rec = t]
    <2>1. Begin(w, "refresh", j)
      BY <1>3, Zenon DEF Refresh
    <2> HIDE DEF user
    <2>2. IsJob(j) /\ j.plan = <<"rotate">>
      BY <1>1
    <2> HIDE DEF j
    <2> QED BY <1>0, <2>1, <2>2, CopyBegins
  <1>4. ASSUME NEW t, Logout(w, t) PROVE Copies'
    <2> DEFINE user == tokens[t].user
               j == [NoJob EXCEPT !.plan = <<"blacklist", "close">>, !.user = user, !.rec = t]
    <2>1. Begin(w, "logout", j)
      BY <1>4, Zenon DEF Logout
    <2> HIDE DEF user
    <2>2. IsJob(j) /\ j.plan = <<"blacklist", "close">>
      BY <1>1
    <2> HIDE DEF j
    <2> QED BY <1>0, <2>1, <2>2, CopyBegins
  <1>5. ASSUME NEW u, LogoutAll(w, u) PROVE Copies'
    <2>1. jobs' = jobs /\ fresh' = fresh
      BY <1>5 DEF LogoutAll
    <2> QED BY <1>0, <2>1 DEF Copies, ToldOK, AcknowledgedKept
  <1>6. CASE Mint(w)
    <2> DEFINE j == [jobs[w] EXCEPT !.rec = fresh']
    <2>1. On(w, "mint") /\ Proceed(w, j) /\ "mint" \in Harmless \ {"loadUser"}
      BY <1>6 DEF Mint, Harmless
    <2>2. IsJob(j) /\ j.plan = jobs[w].plan
      BY <2>1, TokenStatement DEF IsJob, Fields
    <2> HIDE DEF j
    <2> QED BY <1>0, <2>1, <2>2, CopyGoesOn
  <1>7. CASE Record(w) \/ Rotate(w) \/ Blacklist(w) \/ CloseSession(w)
    <2>1. PICK step \in {"record", "rotate", "blacklist", "close"} : On(w, step) /\ Proceed(w, jobs[w])
      BY <1>7 DEF Record, Rotate, Blacklist, CloseSession
    <2>2. IsJob(jobs[w]) /\ step \in Harmless \ {"loadUser"}
      BY <2>1 DEF IInv, JobsOK, JobOK, Harmless
    <2> QED BY <1>0, <2>1, <2>2, CopyGoesOn
  <1> QED BY <1>2, <1>3, <1>4, <1>5, <1>6, <1>7 DEF SessionStep

-----------------------------------------------------------------------------
LEMMA NextCopies == IInv /\ Copies /\ [Next]_vars => Copies'
  <1> SUFFICES ASSUME IInv, Copies, [Next]_vars PROVE Copies'
    OBVIOUS
  <1>1. CASE UNCHANGED <<fresh, users, told, clash, jobs>>
    BY <1>1 DEF Copies, ToldOK, AcknowledgedKept
  <1>2. CASE Time
    BY <1>1, <1>2 DEF Time, Lapse, Die, Unblock, Age, Pass, ghosts
  <1>3. CASE Next
    BY <1>2, <1>3, RowStepCopies, RegistrationCopies, ChangeCopies, SessionCopies DEF Next
  <1> QED BY <1>1, <1>3 DEF vars

LEMMA InitCopies == Init => Copies
  <1> SUFFICES ASSUME Init PROVE Copies
    OBVIOUS
  <1> DEFINE n == Len(flow.members)
  <1>1. n \in Nat
    <2>1. flow \in Flows
      BY Zenon DEF Init
    <2> QED BY <2>1, FlowsAssumption
  <1>2. PICK p \in Password : users = [i \in 1..n |-> [email |-> flow.members[i], active |-> TRUE, pw |-> p]]
    BY Zenon DEF Init
  <1>3. fresh = 2 * n /\ told = users /\ clash = {} /\ jobs = [w \in Worker |-> NoJob]
    BY Zenon DEF Init
  <1> HIDE DEF n
  <1>4. ToldOK
    BY <1>1, <1>2, <1>3 DEF ToldOK
  <1>5. \A w \in Worker : CopyOK(jobs[w], told, clash)
    BY <1>3, NoJobHarmless, HarmlessOK
  <1> QED BY <1>3, <1>4, <1>5 DEF Copies, AcknowledgedKept

\* However registrations, changes and sign-ins overlap, an account is what
\* its user was last told it is (verified, his address, his password), unless
\* two requests held copies of its row at once: no view of api/auth/views
\* writes a User row but the whole row it read.
THEOREM AcknowledgedKeptHolds == Spec => []AcknowledgedKept
  <1>1. Copies => AcknowledgedKept
    BY DEF Copies
  <1> QED BY <1>1, InitInv, NextInv, InitCopies, NextCopies, PTL DEF Spec

-----------------------------------------------------------------------------
(* The types of the rows and of what requests hold in memory; n is the     *)
(* last identifier drawn.                                                  *)
Addr == Address \cup {NoAddress}
Kinds == CodeKinds \cup LogKinds
Stored(n) == [kind : Kinds, user : 1..n, code : 0..n, window : {"live", "lapsed", "dead"}, attapts : Nat,
               resend : Nat, blocked : BOOLEAN, done : BOOLEAN, to : Addr, age : {"new", "recent", "old"}]
Token(n) == [user : 1..n, black : BOOLEAN, rotated : BOOLEAN]
Mail(n) == [to : Addr, code : 1..n, user : 1..n, kind : Kinds, again : BOOLEAN]
Session(n) == [user : 1..n, open : BOOLEAN]

\* Plans by what they need of the memory: a blank record, for a link, for a
\* code, or for a log; a record with a code to send; any record, or one that is
\* to be changed again; a User row to read, or one that was read; a user.
Linking == {<<"clear", "create", "issue", "deliver">>, <<"create", "issue", "deliver">>, <<"issue", "deliver">>}
Coding == {<<"clear", "create", "issue", "saveRow", "deliver">>, <<"create", "issue", "saveRow", "deliver">>,
           <<"issue", "saveRow", "deliver">>}
Drafting == Linking \cup Coding \cup {<<"issue">>}
Sending == {<<"saveRow", "deliver", "saveRow">>, <<"deliver", "saveRow">>, <<"saveRow", "deliver">>, <<"deliver">>}
Saving == {<<"saveRow">>, <<"saveRow", "renew", "issue", "saveRow", "deliver">>,
           <<"renew", "issue", "saveRow", "deliver">>}
Revising == {<<"saveRow", "revise", "saveRow", "deliver">>, <<"revise", "saveRow", "deliver">>}
Loading == {<<"loadUser", "saveUser", "saveRow">>, <<"loadUser", "saveUser">>}
Changing == {<<"saveUser", "saveRow">>, <<"saveUser">>}
Minting == {<<"mint", "record">>, <<"record">>, <<"rotate">>}
Closing == {<<"blacklist", "close">>, <<"close">>}

Drafts(j) ==
  /\ j.plan \in Drafting
  /\ \E kind \in Kinds : /\ j.row = NewRow(kind)
                         /\ j.plan \in Linking => kind = "link"
                         /\ j.plan \in Coding => kind \in OtpKinds
  /\ Head(j.plan) \in {"clear", "create"} => j.pw \in Password
Carries(n, j) ==
  /\ j.plan \in Sending \cup Saving \cup Revising \cup Loading \cup Changing
  /\ j.user \in 1..n /\ j.rec \in 1..n /\ j.row \in Stored(n)
  /\ j.plan \in Sending => j.row.code # None
  /\ j.plan \in Revising => j.kind \in {"postEmail", "resendEmail"} /\ (j.kind = "postEmail" => j.row.code # None)
  /\ j.plan \in Loading => j.kind \in Loaders /\ (j.kind = "setForget" => j.pw \in Password)
  /\ j.plan \in Changing => j.acct \in AcctType
Holds(n, j) ==
  /\ j.to \in Addr
  /\ \/ j.plan = <<>> \/ j.plan \in Closing
     \/ Drafts(j)
     \/ Carries(n, j)
     \/ j.plan \in Minting /\ j.user \in 1..n

UsersIn(f, n) == DOMAIN f \subseteq 1..n /\ f \in [DOMAIN f -> AcctType]
CodesIn(f, n) == DOMAIN f \subseteq 1..n /\ f \in [DOMAIN f -> Stored(n)]
TokensIn(f, n) == DOMAIN f \subseteq 1..n /\ f \in [DOMAIN f -> Token(n)]
SessionsIn(f, n) == f \in [DOMAIN f -> Session(n)]

RowsTyped ==
  /\ flow \in Flows /\ left \in Nat /\ fresh \in Nat
  /\ UsersIn(users, fresh) /\ CodesIn(codes, fresh) /\ TokensIn(tokens, fresh) /\ SessionsIn(sessions, fresh)
  /\ mail \subseteq Mail(fresh) /\ clash \subseteq 1..fresh
  /\ \A w \in Worker : Holds(fresh, jobs[w])

-----------------------------------------------------------------------------
\* As identifiers are drawn, what was typed stays typed.
LEMMA Wider ==
  ASSUME NEW n \in Nat, NEW m \in Nat, n <= m
  PROVE  /\ Stored(n) \subseteq Stored(m) /\ Token(n) \subseteq Token(m) /\ Session(n) \subseteq Session(m)
         /\ Mail(n) \subseteq Mail(m) /\ 1..n \subseteq 1..m
         /\ \A f : UsersIn(f, n) => UsersIn(f, m)
         /\ \A f : CodesIn(f, n) => CodesIn(f, m)
         /\ \A f : TokensIn(f, n) => TokensIn(f, m)
         /\ \A f : SessionsIn(f, n) => SessionsIn(f, m)
         /\ \A j : Holds(n, j) => Holds(m, j)
  <1>1. 1..n \subseteq 1..m /\ 0..n \subseteq 0..m
    OBVIOUS
  <1>2. Stored(n) \subseteq Stored(m)
    BY <1>1 DEF Stored
  <1>3. Token(n) \subseteq Token(m) /\ Session(n) \subseteq Session(m)
    BY <1>1 DEF Token, Session
  <1>4. Mail(n) \subseteq Mail(m)
    BY <1>1 DEF Mail
  <1>5. \A f : CodesIn(f, n) => CodesIn(f, m)
    BY <1>1, <1>2 DEF CodesIn
  <1>6. \A f : TokensIn(f, n) => TokensIn(f, m)
    BY <1>1, <1>3 DEF TokensIn
  <1>7. \A f : SessionsIn(f, n) => SessionsIn(f, m)
    BY <1>3 DEF SessionsIn
  <1>8. \A f : UsersIn(f, n) => UsersIn(f, m)
    BY <1>1 DEF UsersIn
  <1>9. \A j : Carries(n, j) => Carries(m, j)
    BY <1>1, <1>2, Zenon DEF Carries
  <1>10. \A j : Holds(n, j) => Holds(m, j)
    BY <1>1, <1>9, Zenon DEF Holds
  <1> QED BY <1>1, <1>2, <1>3, <1>4, <1>5, <1>6, <1>7, <1>8, <1>10

\* A set of drawn identifiers that is not empty has a greatest one.
LEMMA MaxIsIn ==
  ASSUME NEW n \in Nat, NEW S \in SUBSET (1..n), S # {}
  PROVE  Max(S) \in S
  <1> DEFINE T == {k \in Nat : \E x \in S : k = n - x}
             R == OpToRel(<, Nat)
  <1>1. T \subseteq Nat /\ T # {}
    <2>1. PICK x \in S : TRUE
      OBVIOUS
    <2>2. n - x \in T
      BY <2>1
    <2> QED BY <2>2
  <1>2. IsWellFoundedOn(R, Nat)
    BY NatLessThanWellFounded
  <1>3. \A k, l \in Nat : <<k, l>> \in R <=> k < l
    BY DEF OpToRel
  <1> HIDE DEF R, T
  <1>4. PICK k \in T : \A l \in T : ~(<<l, k>> \in R)
    BY <1>1, <1>2, WFMin
  <1>5. PICK x \in S : k = n - x
    BY DEF T
  <1>6. \A y \in S : n - y \in T
    BY DEF T
  <1>7. \A y \in S : x >= y
    <2> SUFFICES ASSUME NEW y \in S PROVE x >= y
      OBVIOUS
    <2>1. n - y \in Nat /\ k \in Nat /\ ~(n - y < k)
      BY <1>1, <1>3, <1>4, <1>6
    <2> QED BY <1>5, <2>1
  <1> QED BY <1>7 DEF Max

\* What views change in their copy of a record leaves it a record.
LEMMA Copied ==
  ASSUME NEW n \in Nat, NEW row \in Stored(n)
  PROVE  /\ Block(row) \in Stored(n) /\ Dead(row) \in Stored(n) /\ Miss(row) \in Stored(n)
         /\ [row EXCEPT !.code = None] \in Stored(n)
         /\ [row EXCEPT !.age = "old"] \in Stored(n)
         /\ [row EXCEPT !.resend = 0] \in Stored(n)
         /\ [row EXCEPT !.resend = @ + 1] \in Stored(n)
         /\ \A w \in {"live", "lapsed", "dead"} :
              /\ [row EXCEPT !.window = w] \in Stored(n)
              /\ [row EXCEPT !.attapts = @ + 1, !.window = w] \in Stored(n)
              /\ [row EXCEPT !.done = TRUE, !.window = w] \in Stored(n)
         /\ \A b \in BOOLEAN : [row EXCEPT !.done = b] \in Stored(n)
  <1>1. row.attapts \in Nat /\ row.attapts + 1 \in Nat /\ row.resend + 1 \in Nat /\ None \in 0..n
    BY DEF Stored, None
  <1>2. Block(row) \in Stored(n) /\ Dead(row) \in Stored(n)
    BY DEF Stored, Block, Dead
  <1>3. Miss(row) \in Stored(n)
    BY <1>1 DEF Stored, Miss
  <1>4. [row EXCEPT !.code = None] \in Stored(n) /\ [row EXCEPT !.age = "old"] \in Stored(n)
    BY <1>1 DEF Stored
  <1>5. [row EXCEPT !.resend = 0] \in Stored(n) /\ [row EXCEPT !.resend = @ + 1] \in Stored(n)
    BY <1>1 DEF Stored
  <1>6. ASSUME NEW w \in {"live", "lapsed", "dead"}
        PROVE  [row EXCEPT !.window = w] \in Stored(n) /\ [row EXCEPT !.done = TRUE, !.window = w] \in Stored(n)
    BY <1>6 DEF Stored
  <1>7. ASSUME NEW w \in {"live", "lapsed", "dead"}
        PROVE  [row EXCEPT !.attapts = @ + 1, !.window = w] \in Stored(n)
    BY <1>1, <1>7 DEF Stored
  <1>8. ASSUME NEW b \in BOOLEAN PROVE [row EXCEPT !.done = b] \in Stored(n)
    BY <1>8 DEF Stored
  <1> QED BY <1>2, <1>3, <1>4, <1>5, <1>6, <1>7, <1>8

LEMMA Coded ==
  ASSUME NEW n, NEW row \in Stored(n), NEW c \in 0..n
  PROVE  NewCode(row, c) \in Stored(n) /\ NewCode(row, c).code = c
  BY DEF Stored, NewCode

\* A record given the posted address; one that counts a resend.
PostedRow(row, a) == [row EXCEPT !.to = a, !.attapts = 1]
ResentRow(row) == [row EXCEPT !.resend = @ + 1, !.attapts = 0]

LEMMA PostedTyped ==
  ASSUME NEW n, NEW row \in Stored(n), NEW a \in Addr
  PROVE  PostedRow(row, a) \in Stored(n) /\ PostedRow(row, a).code = row.code
  BY DEF Stored, PostedRow

LEMMA ResentTyped ==
  ASSUME NEW n, NEW row \in Stored(n)
  PROVE  ResentRow(row) \in Stored(n)
  <1>1. row.resend + 1 \in Nat
    BY DEF Stored
  <1> QED BY <1>1 DEF Stored, ResentRow

-----------------------------------------------------------------------------
\* A row inserted or saved; rows deleted.
LEMMA PutTyped ==
  ASSUME NEW n \in Nat, NEW k \in 1..n, NEW f, NEW v
  PROVE  /\ UsersIn(f, n) /\ v \in AcctType => UsersIn(Put(f, k, v), n)
         /\ CodesIn(f, n) /\ v \in Stored(n) => CodesIn(Put(f, k, v), n)
         /\ TokensIn(f, n) /\ v \in Token(n) => TokensIn(Put(f, k, v), n)
         /\ SessionsIn(f, n) /\ v \in Session(n) => SessionsIn(Put(f, k, v), n)
  <1>1. DOMAIN Put(f, k, v) = DOMAIN f \cup {k}
    BY DEF Put
  <1>2. ASSUME NEW S, f \in [DOMAIN f -> S], v \in S PROVE Put(f, k, v) \in [DOMAIN Put(f, k, v) -> S]
    BY <1>2 DEF Put
  <1> QED BY <1>1, <1>2 DEF UsersIn, CodesIn, TokensIn, SessionsIn

LEMMA DeletionTyped ==
  ASSUME RowsTyped, NEW u, DeleteUser(u)
  PROVE  UsersIn(users', fresh) /\ CodesIn(codes', fresh) /\ SessionsIn(sessions', fresh)
  <1>1. ASSUME NEW f, NEW S, NEW D, f \in [DOMAIN f -> S], D \subseteq DOMAIN f
        PROVE  DOMAIN [x \in D |-> f[x]] = D /\ [x \in D |-> f[x]] \in [D -> S]
    BY <1>1
  <1>2. UsersIn(users', fresh)
    BY <1>1 DEF DeleteUser, RowsTyped, UsersIn
  <1>3. CodesIn(codes', fresh)
    BY <1>1 DEF DeleteUser, RowsTyped, CodesIn
  <1>4. SessionsIn(sessions', fresh)
    BY <1>1 DEF DeleteUser, RowsTyped, SessionsIn
  <1> QED BY <1>2, <1>3, <1>4

\* What was typed is so in the next state, whether an identifier is drawn or not.
LEMMA AsBefore ==
  ASSUME RowsTyped, fresh' = fresh \/ fresh' = fresh + 1
  PROVE  /\ fresh' \in Nat /\ fresh \in 0..fresh' /\ fresh' \in 0..fresh'
         /\ Stored(fresh) \subseteq Stored(fresh') /\ 1..fresh \subseteq 1..fresh'
         /\ UsersIn(users, fresh') /\ CodesIn(codes, fresh') /\ TokensIn(tokens, fresh')
         /\ SessionsIn(sessions, fresh') /\ mail \subseteq Mail(fresh') /\ clash \subseteq 1..fresh'
         /\ \A w \in Worker : Holds(fresh', jobs[w])
  <1>1. fresh \in Nat /\ fresh' \in Nat /\ fresh <= fresh'
    BY DEF RowsTyped
  <1> QED BY <1>1, Wider DEF RowsTyped

\* A step that leaves worker w with job j.
LEMMA Stays ==
  ASSUME IInv, RowsTyped, NEW w \in Worker, NEW j, jobs' = [jobs EXCEPT ![w] = j], Holds(fresh', j),
         fresh' = fresh \/ fresh' = fresh + 1, flow' = flow, left' \in Nat,
         UsersIn(users', fresh'), CodesIn(codes', fresh'), TokensIn(tokens', fresh'),
         SessionsIn(sessions', fresh'), mail' \subseteq Mail(fresh'), clash' \subseteq 1..fresh'
  PROVE  RowsTyped'
  <1>1. \A v \in Worker : jobs'[v] = IF v = w THEN j ELSE jobs[v]
    BY DEF IInv, JobsOK
  <1>2. \A v \in Worker : Holds(fresh', jobs'[v])
    BY <1>1, AsBefore
  <1> QED BY <1>2, AsBefore DEF RowsTyped

\* What the next statement finds in memory is what this one leaves there.
LEMMA Fieldwise ==
  ASSUME NEW j, IsJob(j), Len(j.plan) # 1
  PROVE  /\ Advance(j).plan = Tail(j.plan) /\ Advance(j).kind = j.kind /\ Advance(j).user = j.user
         /\ Advance(j).acct = j.acct /\ Advance(j).rec = j.rec /\ Advance(j).row = j.row
         /\ Advance(j).to = j.to /\ Advance(j).pw = j.pw /\ Advance(j).code = j.code
  BY DEF Advance, IsJob, Fields

LEMMA NoJobHolds == ASSUME NEW n PROVE Holds(n, NoJob)
  BY DEF Holds, NoJob, Addr

\* The plans, statement by statement.
LEMMA Shorter ==
  /\ \A p \in {<<"issue">>, <<"deliver">>, <<"saveRow">>, <<"saveUser">>, <<"record">>, <<"rotate">>, <<"close">>} :
       Len(p) = 1
  /\ \A p \in {<<"issue", "deliver">>, <<"deliver", "saveRow">>, <<"saveRow", "deliver">>, <<"loadUser", "saveUser">>,
               <<"saveUser", "saveRow">>, <<"mint", "record">>, <<"blacklist", "close">>} :
       Len(p) # 1 /\ Tail(p) = <<p[2]>>
  /\ \A p \in {<<"create", "issue", "deliver">>, <<"saveRow", "deliver", "saveRow">>, <<"issue", "saveRow", "deliver">>,
               <<"revise", "saveRow", "deliver">>, <<"loadUser", "saveUser", "saveRow">>} :
       Len(p) # 1 /\ Tail(p) = <<p[2], p[3]>>
  /\ \A p \in {<<"clear", "create", "issue", "deliver">>, <<"create", "issue", "saveRow", "deliver">>,
               <<"renew", "issue", "saveRow", "deliver">>, <<"saveRow", "revise", "saveRow", "deliver">>} :
       Len(p) # 1 /\ Tail(p) = <<p[2], p[3], p[4]>>
  /\ \A p \in {<<"clear", "create", "issue", "saveRow", "deliver">>, <<"saveRow", "renew", "issue", "saveRow", "deliver">>} :
       Len(p) # 1 /\ Tail(p) = <<p[2], p[3], p[4], p[5]>>
  OBVIOUS

\* A statement that leaves the memory as it is leaves what the next one needs.
LEMMA Onwards ==
  ASSUME NEW n, NEW j, IsJob(j), Holds(n, j), j.plan # <<>>,
         Head(j.plan) \in {"clear", "create", "saveRow", "deliver", "saveUser",
                           "record", "rotate", "blacklist", "close"}
  PROVE  Holds(n, Advance(j))
  <1> DEFINE k == Advance(j)
  <1>1. CASE Len(j.plan) = 1
    BY <1>1, NoJobHolds DEF Advance
  <1>2. CASE Len(j.plan) # 1
    <2>1. /\ k.plan = Tail(j.plan) /\ k.kind = j.kind /\ k.user = j.user /\ k.acct = j.acct /\ k.rec = j.rec
          /\ k.row = j.row /\ k.to = j.to /\ k.pw = j.pw
      BY <1>2, Fieldwise
    <2> HIDE DEF k
    <2>2. k.to \in Addr
      BY <2>1 DEF Holds
    <2>3. CASE Drafts(j)
      <3>1. j.plan \in {<<"clear", "create", "issue", "deliver">>, <<"create", "issue", "deliver">>,
                        <<"clear", "create", "issue", "saveRow", "deliver">>, <<"create", "issue", "saveRow", "deliver">>}
        BY <1>2, <2>3, Shorter DEF Drafts, Drafting, Linking, Coding
      <3>2. /\ j.plan = <<"clear", "create", "issue", "deliver">> => k.plan = <<"create", "issue", "deliver">>
            /\ j.plan = <<"create", "issue", "deliver">> => k.plan = <<"issue", "deliver">>
            /\ j.plan = <<"clear", "create", "issue", "saveRow", "deliver">> =>
                 k.plan = <<"create", "issue", "saveRow", "deliver">>
            /\ j.plan = <<"create", "issue", "saveRow", "deliver">> => k.plan = <<"issue", "saveRow", "deliver">>
        BY <2>1, Shorter
      <3>3. /\ k.plan \in Drafting
            /\ k.plan \in Linking => j.plan \in Linking
            /\ k.plan \in Coding => j.plan \in Coding
            /\ Head(k.plan) \in {"clear", "create"} => Head(j.plan) \in {"clear", "create"}
        <4>1. CASE j.plan = <<"clear", "create", "issue", "deliver">>
          BY <3>2, <4>1 DEF Drafting, Linking, Coding
        <4>2. CASE j.plan = <<"create", "issue", "deliver">>
          BY <3>2, <4>2 DEF Drafting, Linking, Coding
        <4>3. CASE j.plan = <<"clear", "create", "issue", "saveRow", "deliver">>
          BY <3>2, <4>3 DEF Drafting, Linking, Coding
        <4>4. CASE j.plan = <<"create", "issue", "saveRow", "deliver">>
          BY <3>2, <4>4 DEF Drafting, Linking, Coding
        <4> QED BY <3>1, <4>1, <4>2, <4>3, <4>4
      <3>4. Drafts(k)
        <4>1. PICK kind \in Kinds : /\ j.row = NewRow(kind)
                                    /\ j.plan \in Linking => kind = "link"
                                    /\ j.plan \in Coding => kind \in OtpKinds
          BY <2>3 DEF Drafts
        <4>2. k.row = NewRow(kind) /\ (k.plan \in Linking => kind = "link") /\ (k.plan \in Coding => kind \in OtpKinds)
          BY <2>1, <3>3, <4>1
        <4>3. Head(k.plan) \in {"clear", "create"} => k.pw \in Password
          BY <2>1, <2>3, <3>3 DEF Drafts
        <4> QED BY <3>3, <4>2, <4>3 DEF Drafts
      <3>5. Holds(n, k)
        BY <2>2, <3>4, Zenon DEF Holds
      <3> QED BY <3>5 DEF k
    <2>4. CASE Carries(n, j)
      <3>1. j.plan \in {<<"saveRow", "deliver", "saveRow">>, <<"deliver", "saveRow">>, <<"saveRow", "deliver">>,
                        <<"saveRow", "renew", "issue", "saveRow", "deliver">>,
                        <<"saveRow", "revise", "saveRow", "deliver">>, <<"saveUser", "saveRow">>}
        BY <1>2, <2>4, Shorter DEF Carries, Sending, Saving, Revising, Loading, Changing
      <3>2. /\ j.plan = <<"saveRow", "deliver", "saveRow">> => k.plan = <<"deliver", "saveRow">>
            /\ j.plan = <<"deliver", "saveRow">> => k.plan = <<"saveRow">>
            /\ j.plan = <<"saveRow", "deliver">> => k.plan = <<"deliver">>
            /\ j.plan = <<"saveRow", "renew", "issue", "saveRow", "deliver">> =>
                 k.plan = <<"renew", "issue", "saveRow", "deliver">>
            /\ j.plan = <<"saveRow", "revise", "saveRow", "deliver">> => k.plan = <<"revise", "saveRow", "deliver">>
            /\ j.plan = <<"saveUser", "saveRow">> => k.plan = <<"saveRow">>
        BY <2>1, Shorter
      <3>3. /\ k.plan \in Sending \cup Saving \cup Revising /\ k.plan \notin Loading \cup Changing
            /\ k.plan \in Sending => j.plan \in Sending
            /\ k.plan \in Revising => j.plan \in Revising
        <4> USE DEF Sending, Saving, Revising, Loading, Changing
        <4>1. CASE j.plan = <<"saveRow", "deliver", "saveRow">>
          BY <3>2, <4>1
        <4>2. CASE j.plan = <<"deliver", "saveRow">>
          BY <3>2, <4>2
        <4>3. CASE j.plan = <<"saveRow", "deliver">>
          BY <3>2, <4>3
        <4>4. CASE j.plan = <<"saveRow", "renew", "issue", "saveRow", "deliver">>
          BY <3>2, <4>4
        <4>5. CASE j.plan = <<"saveRow", "revise", "saveRow", "deliver">>
          BY <3>2, <4>5
        <4>6. CASE j.plan = <<"saveUser", "saveRow">>
          BY <3>2, <4>6
        <4> QED BY <3>1, <4>1, <4>2, <4>3, <4>4, <4>5, <4>6
      <3>4. Carries(n, k)
        BY <2>1, <2>4, <3>3, Zenon DEF Carries
      <3>5. Holds(n, k)
        BY <2>2, <3>4, Zenon DEF Holds
      <3> QED BY <3>5 DEF k
    <2>5. CASE j.plan \in Closing
      <3>1. k.plan \in Closing
        BY <1>2, <2>1, <2>5, Shorter DEF Closing
      <3>2. Holds(n, k)
        BY <2>2, <3>1, Zenon DEF Holds
      <3> QED BY <3>2 DEF k
    <2>6. ~(j.plan \in Minting)
      BY <1>2, Shorter DEF Minting
    <2> QED BY <2>3, <2>4, <2>5, <2>6 DEF Holds
  <1> QED BY <1>1, <1>2

\* What a request holds, by the statement it runs next.
LEMMA ByHead ==
  ASSUME NEW n, NEW j, Holds(n, j), j.plan # <<>>
  PROVE  /\ Head(j.plan) \in {"clear", "create"} => Drafts(j) /\ j.pw \in Password
         /\ Head(j.plan) = "issue" =>
              Drafts(j) /\ j.plan \in {<<"issue", "deliver">>, <<"issue", "saveRow", "deliver">>, <<"issue">>}
         /\ Head(j.plan) = "loadUser" => Carries(n, j) /\ j.plan \in Loading
         /\ Head(j.plan) = "saveUser" => Carries(n, j) /\ j.plan \in Changing
         /\ Head(j.plan) = "saveRow" => Carries(n, j)
         /\ Head(j.plan) = "deliver" => Carries(n, j) /\ j.plan \in Sending
         /\ Head(j.plan) = "renew" => j.plan = <<"renew", "issue", "saveRow", "deliver">>
         /\ Head(j.plan) = "revise" => Carries(n, j) /\ j.plan = <<"revise", "saveRow", "deliver">>
         /\ Head(j.plan) = "mint" => j.plan = <<"mint", "record">> /\ j.user \in 1..n
         /\ Head(j.plan) \in {"record", "rotate"} => j.plan \in Minting /\ j.user \in 1..n
  <1>1. /\ \A p \in Drafting : Head(p) \in {"clear", "create", "issue"}
        /\ \A p \in Drafting : Head(p) = "issue" =>
             p \in {<<"issue", "deliver">>, <<"issue", "saveRow", "deliver">>, <<"issue">>}
    BY DEF Drafting, Linking, Coding
  <1>2. \A p \in Sending : Head(p) \in {"saveRow", "deliver"}
    BY DEF Sending
  <1>3. /\ \A p \in Saving : Head(p) \in {"saveRow", "renew"}
        /\ \A p \in Saving : Head(p) = "renew" => p = <<"renew", "issue", "saveRow", "deliver">>
    BY DEF Saving
  <1>12. /\ \A p \in Revising : Head(p) \in {"saveRow", "revise"}
         /\ \A p \in Revising : Head(p) = "revise" => p = <<"revise", "saveRow", "deliver">>
    BY DEF Revising
  <1>4. \A p \in Loading : Head(p) = "loadUser"
    BY DEF Loading
  <1>5. \A p \in Changing : Head(p) = "saveUser"
    BY DEF Changing
  <1>6. /\ \A p \in Minting : Head(p) \in {"mint", "record", "rotate"}
        /\ \A p \in Minting : Head(p) = "mint" => p = <<"mint", "record">>
    BY DEF Minting
  <1>7. \A p \in Closing : Head(p) \in {"blacklist", "close"}
    BY DEF Closing
  <1>8. CASE Drafts(j)
    BY <1>1, <1>8 DEF Drafts
  <1>9. CASE Carries(n, j)
    <2>1. j.plan \in Sending \cup Saving \cup Revising \cup Loading \cup Changing
      BY <1>9, Zenon DEF Carries
    <2> QED BY <1>2, <1>3, <1>4, <1>5, <1>9, <1>12, <2>1
  <1>10. CASE j.plan \in Closing
    BY <1>7, <1>10
  <1>11. CASE j.plan \in Minting /\ j.user \in 1..n
    BY <1>6, <1>11
  <1> QED BY <1>8, <1>9, <1>10, <1>11, Zenon DEF Holds

\* The request of worker w goes on with what it holds, or stops.
LEMMA GoesOnTyped ==
  ASSUME IInv, RowsTyped, NEW w \in Worker, NEW job, IsJob(job), job.plan = jobs[w].plan, Holds(fresh', job),
         NEW step \in {"clear", "create", "saveRow", "deliver", "saveUser", "record", "rotate", "blacklist", "close"},
         On(w, step), Proceed(w, job) \/ Stop(w),
         fresh' = fresh \/ fresh' = fresh + 1, flow' = flow, left' = left,
         UsersIn(users', fresh'), CodesIn(codes', fresh'), TokensIn(tokens', fresh'),
         SessionsIn(sessions', fresh'), mail' \subseteq Mail(fresh'), clash' \subseteq 1..fresh'
  PROVE  RowsTyped'
  <1>1. job.plan # <<>> /\ Head(job.plan) = step
    BY DEF On
  <1>2. Holds(fresh', Advance(job)) /\ Holds(fresh', NoJob)
    BY <1>1, Onwards, NoJobHolds
  <1>3. left' \in Nat
    BY DEF RowsTyped
  <1> QED BY <1>2, <1>3, Stays DEF Proceed, Stop

LEMMA ClearTyped ==
  ASSUME IInv, RowsTyped, NEW w \in Worker, Clear(w)
  PROVE  RowsTyped'
  <1>1. /\ On(w, "clear") /\ DeleteUser(jobs[w].user) /\ Proceed(w, jobs[w])
        /\ UNCHANGED <<flow, left, fresh, mail, tokens, clash>>
    BY DEF Clear, ghosts
  <1>2. IsJob(jobs[w])
    BY DEF IInv, JobsOK, JobOK
  <1>3. UsersIn(users', fresh') /\ CodesIn(codes', fresh') /\ SessionsIn(sessions', fresh')
    BY <1>1, DeletionTyped
  <1>4. /\ Holds(fresh', jobs[w]) /\ TokensIn(tokens', fresh')
        /\ mail' \subseteq Mail(fresh') /\ clash' \subseteq 1..fresh'
    BY <1>1 DEF RowsTyped
  <1> QED BY <1>1, <1>2, <1>3, <1>4, GoesOnTyped

LEMMA CreateTyped ==
  ASSUME IInv, RowsTyped, NEW w \in Worker, Create(w)
  PROVE  RowsTyped'
  <1> DEFINE acct == [email |-> jobs[w].to, active |-> FALSE, pw |-> jobs[w].pw]
             job == [jobs[w] EXCEPT !.user = fresh']
  <1>1. On(w, "create") /\ UNCHANGED <<flow, left, codes, mail, tokens, sessions, clash>>
    BY DEF Create, auth
  <1>2. \/ Stop(w) /\ UNCHANGED <<fresh, users>>
        \/ fresh' = fresh + 1 /\ users' = Put(users, fresh', acct) /\ Proceed(w, job)
    BY DEF Create
  <1>3. fresh' = fresh \/ fresh' = fresh + 1
    BY <1>2
  <1>4. /\ CodesIn(codes', fresh') /\ TokensIn(tokens', fresh') /\ SessionsIn(sessions', fresh')
        /\ mail' \subseteq Mail(fresh') /\ clash' \subseteq 1..fresh' /\ Holds(fresh', jobs[w]) /\ fresh' \in Nat
        /\ UsersIn(users, fresh')
    BY <1>1, <1>3, AsBefore
  <1>5. jobs[w].to \in Addr /\ jobs[w].pw \in Password /\ Drafts(jobs[w])
    BY <1>1, <1>4, ByHead DEF On, Holds
  <1>6. IsJob(jobs[w])
    BY DEF IInv, JobsOK, JobOK
  <1>7. CASE Stop(w) /\ UNCHANGED <<fresh, users>>
    BY <1>1, <1>3, <1>4, <1>6, <1>7, GoesOnTyped
  <1>8. CASE fresh' = fresh + 1 /\ users' = Put(users, fresh', acct) /\ Proceed(w, job)
    <2>1. acct \in AcctType
      BY <1>5 DEF AcctType, Addr
    <2>2. fresh' \in 1..fresh'
      BY <1>8 DEF RowsTyped
    <2>3. UsersIn(users', fresh')
      BY <1>4, <1>8, <2>1, <2>2, PutTyped
    <2>4. IsJob(job) /\ job.plan = jobs[w].plan /\ job.to = jobs[w].to /\ job.row = jobs[w].row /\ job.pw = jobs[w].pw
      BY <1>6 DEF IsJob, Fields
    <2> HIDE DEF job
    <2>5. Drafts(job)
      BY <1>5, <2>4, Zenon DEF Drafts
    <2>6. Holds(fresh', job)
      BY <1>5, <2>4, <2>5, Zenon DEF Holds
    <2> QED BY <1>1, <1>3, <1>4, <1>8, <2>3, <2>4, <2>6, GoesOnTyped
  <1> QED BY <1>2, <1>7, <1>8

LEMMA StopsTyped ==
  ASSUME IInv, RowsTyped, NEW w \in Worker, Stop(w),
         fresh' = fresh \/ fresh' = fresh + 1, UNCHANGED <<flow, left, tokens, mail, clash>>,
         UsersIn(users', fresh'), CodesIn(codes', fresh'), SessionsIn(sessions', fresh')
  PROVE  RowsTyped'
  <1>1. TokensIn(tokens', fresh') /\ mail' \subseteq Mail(fresh') /\ clash' \subseteq 1..fresh' /\ left' \in Nat
    BY AsBefore DEF RowsTyped
  <1> QED BY <1>1, NoJobHolds, Stays DEF Stop

\* A new record, as it is inserted.
Filled(row, u, c) == [row EXCEPT !.user = u, !.code = c]
LEMMA Drafted ==
  ASSUME NEW n, NEW kind \in Kinds, NEW u \in 1..n, NEW c \in 0..n
  PROVE  Filled(NewRow(kind), u, c) \in Stored(n) /\ Filled(NewRow(kind), u, c).code = c
  <1> DEFINE blank == NewRow(kind)
  <1>1. NoAddress \in Addr
    BY DEF Addr
  <1>2. blank \in [kind : Kinds, user : {None}, code : {None}, window : {"live", "lapsed", "dead"}, attapts : Nat,
                    resend : Nat, blocked : BOOLEAN, done : BOOLEAN, to : Addr, age : {"new", "recent", "old"}]
    BY <1>1 DEF NewRow
  <1> HIDE DEF blank
  <1>3. Filled(blank, u, c).code = c
    BY <1>2 DEF Filled
  <1>4. Filled(blank, u, c) \in Stored(n)
    BY <1>2 DEF Filled, Stored
  <1> QED BY <1>3, <1>4 DEF blank

LEMMA IssueTyped ==
  ASSUME IInv, RowsTyped, NEW w \in Worker, Issue(w)
  PROVE  RowsTyped'
  <1> DEFINE j == jobs[w]
             n == fresh'
             code == IF j.row.kind = "link" THEN n ELSE None
             row == [j.row EXCEPT !.user = j.user, !.code = code]
             drawn == IF row.kind \in OtpKinds THEN NewCode(row, n) ELSE row
             job == [j EXCEPT !.rec = n, !.row = drawn]
  <1>1. On(w, "issue") /\ n = fresh + 1 /\ UNCHANGED <<flow, left, users, mail, tokens, sessions, clash>>
    BY DEF Issue, auth, ghosts
  <1>2. \/ Has(j.user) /\ codes' = Put(codes, n, row) /\ Proceed(w, job)
        \/ Stop(w) /\ codes' = codes
    BY Zenon DEF Issue
  <1>3. /\ UsersIn(users', n) /\ TokensIn(tokens', n) /\ SessionsIn(sessions', n) /\ CodesIn(codes, n)
        /\ mail' \subseteq Mail(n) /\ clash' \subseteq 1..n /\ Holds(n, j) /\ n \in Nat /\ 1..fresh \subseteq 1..n
    BY <1>1, AsBefore
  <1>4. n \in 1..n /\ n \in 0..n /\ None \in 0..n /\ n # None /\ left' \in Nat
    BY <1>1 DEF RowsTyped, None
  <1>5. Drafts(j) /\ j.plan \in {<<"issue", "deliver">>, <<"issue", "saveRow", "deliver">>, <<"issue">>} /\ j.to \in Addr
    BY <1>1, <1>3, ByHead DEF On, Holds
  <1>6. IsJob(j)
    BY DEF IInv, JobsOK, JobOK
  <1>7. CASE Stop(w) /\ codes' = codes
    BY <1>1, <1>3, <1>7, StopsTyped
  <1>8. CASE Has(j.user) /\ codes' = Put(codes, n, row) /\ Proceed(w, job)
    <2>1. j.user \in 1..n
      BY <1>3, <1>8 DEF Has, RowsTyped, UsersIn
    <2>2. PICK kind \in Kinds : /\ j.row = NewRow(kind)
                                /\ j.plan \in Linking => kind = "link"
                                /\ j.plan \in Coding => kind \in OtpKinds
      BY <1>5, Zenon DEF Drafts
    <2>3. row = Filled(NewRow(kind), j.user, code)
      BY <2>2 DEF Filled
    <2>4. code \in 0..n
      BY <1>4
    <2>5. j.row.kind = kind
      BY <2>2 DEF NewRow
    <2>6. /\ j.plan = <<"issue", "deliver">> => kind = "link" /\ code = n
          /\ j.plan = <<"issue", "saveRow", "deliver">> => kind \in OtpKinds
      BY <2>2, <2>5 DEF Linking, Coding
    <2> HIDE DEF code
    <2> HIDE DEF row
    <2>7. row \in Stored(n) /\ row.code = code /\ row.kind = kind
      <3>1. row \in Stored(n) /\ row.code = code
        BY <2>1, <2>2, <2>3, <2>4, Drafted, Zenon
      <3>2. Filled(NewRow(kind), j.user, code).kind = kind
        BY DEF Filled, NewRow
      <3> QED BY <2>3, <3>1, <3>2
    <2>11. drawn \in Stored(n) /\ drawn.code = IF kind \in OtpKinds THEN n ELSE code
      BY <1>4, <2>7, Coded
    <2> HIDE DEF drawn
    <2>8. CodesIn(codes', n)
      BY <1>3, <1>4, <1>8, <2>7, PutTyped
    <2>9. IsJob(job) /\ job.plan = j.plan /\ job.to = j.to /\ job.user = j.user /\ job.rec = n /\ job.row = drawn
      BY <1>6 DEF IsJob, Fields
    <2> HIDE DEF job
    <2>10. Holds(n, Advance(job))
      <3>1. CASE j.plan = <<"issue">>
        BY <2>9, <3>1, NoJobHolds DEF Advance
      <3>2. CASE j.plan \in {<<"issue", "deliver">>, <<"issue", "saveRow", "deliver">>}
        <4> DEFINE k == Advance(job)
        <4>1. Len(j.plan) # 1 /\ Tail(j.plan) \in {<<"deliver">>, <<"saveRow", "deliver">>}
          <5>1. CASE j.plan = <<"issue", "deliver">>
            BY <5>1
          <5>2. CASE j.plan = <<"issue", "saveRow", "deliver">>
            BY <5>2
          <5> QED BY <3>2, <5>1, <5>2
        <4>2. k.plan = Tail(j.plan) /\ k.to = j.to /\ k.user = j.user /\ k.rec = n /\ k.row = drawn
          BY <2>9, <4>1, Fieldwise
        <4>3. k.plan \in Sending /\ k.plan \notin Revising \cup Loading \cup Changing
          BY <4>1, <4>2 DEF Sending, Revising, Loading, Changing
        <4>4. drawn.code # None
          BY <1>4, <2>6, <2>11, <3>2
        <4> HIDE DEF k
        <4>5. Carries(n, k)
          BY <1>4, <2>1, <2>11, <4>2, <4>3, <4>4, Zenon DEF Carries
        <4>6. Holds(n, k)
          BY <1>5, <4>2, <4>5, Zenon DEF Holds
        <4> QED BY <4>6 DEF k
      <3> QED BY <1>5, <3>1, <3>2
    <2> QED BY <1>1, <1>3, <1>4, <1>8, <2>8, <2>10, Stays DEF Proceed
  <1> QED BY <1>2, <1>7, <1>8

LEMMA LoadUserTyped ==
  ASSUME IInv, RowsTyped, NEW w \in Worker, LoadUser(w)
  PROVE  RowsTyped'
  <1> DEFINE j == jobs[w]
             to == users[j.user].email
             acct == CASE j.kind \in {"verify", "link"} -> [users[j.user] EXCEPT !.active = TRUE]
                       [] j.kind = "setForget"          -> [users[j.user] EXCEPT !.pw = j.pw]
                       [] j.kind = "verifyEmail"        -> [users[j.user] EXCEPT !.email = j.row.to]
             job == [j EXCEPT !.to = to, !.acct = acct]
  <1>1. On(w, "loadUser") /\ UNCHANGED <<flow, left, fresh, users, codes, mail, tokens, sessions, clash>>
    BY DEF LoadUser, auth, ghosts
  <1>2. Stop(w) \/ (Has(j.user) /\ Proceed(w, job))
    BY Zenon DEF LoadUser
  <1>3. /\ UsersIn(users', fresh') /\ TokensIn(tokens', fresh') /\ SessionsIn(sessions', fresh')
        /\ CodesIn(codes', fresh') /\ mail' \subseteq Mail(fresh') /\ clash' \subseteq 1..fresh' /\ left' \in Nat
        /\ Holds(fresh, j)
    BY <1>1 DEF RowsTyped
  <1>4. Carries(fresh, j) /\ j.plan \in Loading
    BY <1>1, <1>3, ByHead DEF On
  <1>5. IsJob(j)
    BY DEF IInv, JobsOK, JobOK
  <1>6. CASE Stop(w)
    BY <1>1, <1>3, <1>6, StopsTyped
  <1>7. CASE Has(j.user) /\ Proceed(w, job)
    <2>1. users[j.user] \in AcctType
      BY <1>7 DEF Has, RowsTyped, UsersIn
    <2>2. j.kind \in Loaders /\ (j.kind = "setForget" => j.pw \in Password) /\ j.row \in Stored(fresh)
          /\ j.user \in 1..fresh /\ j.rec \in 1..fresh
      BY <1>4, Zenon DEF Carries
    <2>3. j.row.to \in Addr
      BY <2>2 DEF Stored
    <2>4. to \in Addr
      BY <2>1 DEF AcctType, Addr
    <2>5. ASSUME NEW a \in AcctType
          PROVE  /\ [a EXCEPT !.active = TRUE] \in AcctType
                 /\ \A p \in Password : [a EXCEPT !.pw = p] \in AcctType
                 /\ \A e \in Addr : [a EXCEPT !.email = e] \in AcctType
      BY <2>5 DEF AcctType, Addr
    <2>6. acct \in AcctType
      <3>1. CASE j.kind \in {"verify", "link"}
        BY <2>1, <2>5, <3>1
      <3>2. CASE j.kind = "setForget"
        BY <2>1, <2>2, <2>5, <3>2
      <3>3. CASE j.kind = "verifyEmail"
        BY <2>1, <2>3, <2>5, <3>3
      <3> QED BY <2>2, <3>1, <3>2, <3>3 DEF Loaders
    <2> HIDE DEF acct, to
    <2>7. /\ IsJob(job) /\ job.plan = j.plan /\ job.to = to /\ job.user = j.user /\ job.rec = j.rec
          /\ job.row = j.row /\ job.acct = acct
      BY <1>5 DEF IsJob, Fields
    <2> HIDE DEF job
    <2> DEFINE k == Advance(job)
    <2>8. /\ Len(j.plan) # 1
          /\ Tail(j.plan) \in {<<"saveUser", "saveRow">>, <<"saveUser">>}
      <3>1. CASE j.plan = <<"loadUser", "saveUser">>
        BY <3>1
      <3>2. CASE j.plan = <<"loadUser", "saveUser", "saveRow">>
        BY <3>2
      <3> QED BY <1>4, <3>1, <3>2 DEF Loading
    <2>9. k.plan = Tail(j.plan) /\ k.to = to /\ k.user = j.user /\ k.rec = j.rec /\ k.row = j.row /\ k.acct = acct
      BY <2>7, <2>8, Fieldwise
    <2>10. k.plan \in Changing /\ k.plan \notin Sending \cup Revising \cup Loading
      BY <2>8, <2>9 DEF Changing, Sending, Revising, Loading
    <2> HIDE DEF k
    <2>11. Carries(fresh, k)
      BY <2>2, <2>6, <2>9, <2>10, Zenon DEF Carries
    <2>12. Holds(fresh, k)
      BY <2>4, <2>9, <2>11, Zenon DEF Holds
    <2>13. Holds(fresh', Advance(job))
      BY <1>1, <2>12 DEF k
    <2> QED BY <1>1, <1>3, <1>7, <2>13, Stays DEF Proceed
  <1> QED BY <1>2, <1>6, <1>7

LEMMA SaveUserTyped ==
  ASSUME IInv, RowsTyped, NEW w \in Worker, SaveUser(w)
  PROVE  RowsTyped'
  <1> DEFINE j == jobs[w]
  <1>1. On(w, "saveUser") /\ UNCHANGED <<flow, left, fresh, codes, mail, tokens, sessions>>
    BY DEF SaveUser, auth
  <1>2. \/ Stop(w) /\ UNCHANGED <<users, clash>>
        \/ users' = Put(users, j.user, j.acct) /\ clash' \subseteq clash \cup {j.user} /\ Proceed(w, j)
    BY DEF SaveUser
  <1>3. /\ UsersIn(users, fresh) /\ TokensIn(tokens', fresh') /\ SessionsIn(sessions', fresh')
        /\ CodesIn(codes', fresh') /\ mail' \subseteq Mail(fresh') /\ clash \subseteq 1..fresh
        /\ Holds(fresh, j) /\ fresh \in Nat
    BY <1>1 DEF RowsTyped
  <1>4. Carries(fresh, j) /\ j.plan \in Changing
    BY <1>1, <1>3, ByHead DEF On
  <1>5. j.acct \in AcctType /\ j.user \in 1..fresh
    BY <1>4, Zenon DEF Carries
  <1>6. UsersIn(users', fresh') /\ clash' \subseteq 1..fresh'
    BY <1>1, <1>2, <1>3, <1>5, PutTyped
  <1>7. IsJob(j) /\ Holds(fresh', j)
    BY <1>1, <1>3 DEF IInv, JobsOK, JobOK
  <1> QED BY <1>1, <1>2, <1>3, <1>6, <1>7, GoesOnTyped

LEMMA SaveRowTyped ==
  ASSUME IInv, RowsTyped, NEW w \in Worker, SaveRow(w)
  PROVE  RowsTyped'
  <1> DEFINE j == jobs[w]
  <1>1. On(w, "saveRow") /\ UNCHANGED <<flow, left, fresh, users, mail, tokens, sessions>>
    BY DEF SaveRow, auth
  <1>2. \/ Stop(w) /\ UNCHANGED <<codes, clash>>
        \/ codes' = Put(codes, j.rec, j.row) /\ clash' \subseteq clash \cup {j.rec} /\ Proceed(w, j)
    BY DEF SaveRow
  <1>3. /\ UsersIn(users', fresh') /\ TokensIn(tokens', fresh') /\ SessionsIn(sessions', fresh')
        /\ CodesIn(codes, fresh) /\ mail' \subseteq Mail(fresh') /\ clash \subseteq 1..fresh
        /\ Holds(fresh, j) /\ fresh \in Nat
    BY <1>1 DEF RowsTyped
  <1>4. Carries(fresh, j)
    BY <1>1, <1>3, ByHead DEF On
  <1>5. j.row \in Stored(fresh) /\ j.rec \in 1..fresh
    BY <1>4, Zenon DEF Carries
  <1>6. CodesIn(codes', fresh') /\ clash' \subseteq 1..fresh'
    BY <1>1, <1>2, <1>3, <1>5, PutTyped
  <1>7. IsJob(j) /\ Holds(fresh', j)
    BY <1>1, <1>3 DEF IInv, JobsOK, JobOK
  <1> QED BY <1>1, <1>2, <1>3, <1>6, <1>7, GoesOnTyped

\* What is mailed is the code in the record, to an address, for a user.
LEMMA DeliverTyped ==
  ASSUME IInv, Copies, RowsTyped, NEW w \in Worker, Deliver(w)
  PROVE  RowsTyped'
  <1> DEFINE j == jobs[w]
             row == [j.row EXCEPT !.resend = @ + 1]
             more == [j EXCEPT !.row = row]
             m == [to |-> Recipient(j), code |-> j.row.code, user |-> j.user,
                   kind |-> j.row.kind, again |-> j.kind = "resendEmail"]
  <1>1. On(w, "deliver") /\ UNCHANGED <<flow, left, fresh, tokens, clash>>
    BY DEF Deliver, ghosts
  <1>2. /\ Proceed(w, j) \/ Proceed(w, more) \/ Stop(w)
        /\ \/ UNCHANGED <<users, codes, sessions>>
           \/ DeleteUser(j.user)
        /\ \/ mail' = mail
           \/ (j.kind \notin {"register", "postEmail"} => Has(j.user)) /\ mail' = mail \cup {m}
    BY DEF Deliver
  <1>3. /\ UsersIn(users, fresh) /\ CodesIn(codes, fresh) /\ TokensIn(tokens', fresh') /\ SessionsIn(sessions, fresh)
        /\ mail \subseteq Mail(fresh) /\ clash' \subseteq 1..fresh' /\ Holds(fresh, j) /\ fresh \in Nat
    BY <1>1 DEF RowsTyped
  <1>4. Carries(fresh, j) /\ j.plan \in Sending /\ j.to \in Addr
    BY <1>1, <1>3, ByHead DEF On, Holds
  <1>5. j.row \in Stored(fresh) /\ j.row.code # None /\ j.user \in 1..fresh /\ j.rec \in 1..fresh
    BY <1>4, Zenon DEF Carries
  <1>6. UsersIn(users', fresh') /\ CodesIn(codes', fresh') /\ SessionsIn(sessions', fresh')
    <2>1. CASE UNCHANGED <<users, codes, sessions>>
      BY <1>1, <1>3, <2>1
    <2>2. CASE DeleteUser(j.user)
      BY <1>1, <2>2, DeletionTyped
    <2> QED BY <1>2, <2>1, <2>2
  <1>7. mail' \subseteq Mail(fresh')
    <2>1. ASSUME j.kind \notin {"register", "postEmail"} => Has(j.user) PROVE m \in Mail(fresh)
      <3>1. Recipient(j) \in Addr
        BY <1>3, <1>4, <2>1 DEF Recipient, Has, UsersIn, AcctType, Addr
      <3>2. j.row.kind \in Kinds /\ j.row.code \in 1..fresh
        BY <1>3, <1>5 DEF Stored, None
      <3> QED BY <1>5, <3>1, <3>2 DEF Mail
    <2> HIDE DEF m
    <2> QED BY <1>1, <1>2, <1>3, <2>1
  <1>8. IsJob(j) /\ Holds(fresh', j)
    BY <1>1, <1>3 DEF IInv, JobsOK, JobOK
  <1>9. row \in Stored(fresh) /\ row.code = j.row.code
    <2> DEFINE old == j.row
    <2>1. old \in Stored(fresh) /\ row = [old EXCEPT !.resend = @ + 1]
      BY <1>5
    <2> HIDE DEF old, row
    <2>2. [old EXCEPT !.resend = @ + 1].code = old.code
      BY <2>1 DEF Stored
    <2> QED BY <1>3, <2>1, <2>2, Copied DEF old
  <1> HIDE DEF row
  <1>10. IsJob(more) /\ more.plan = j.plan /\ more.to = j.to /\ more.user = j.user /\ more.rec = j.rec /\ more.row = row
    BY <1>8 DEF IsJob, Fields
  <1> HIDE DEF more
  <1>11. Holds(fresh', more)
    <2>1. j.plan \notin Revising \cup Loading \cup Changing
      BY <1>4 DEF Sending, Revising, Loading, Changing
    <2>2. Carries(fresh, more)
      BY <1>4, <1>5, <1>9, <1>10, <2>1, Zenon DEF Carries
    <2> QED BY <1>1, <1>4, <1>10, <2>2, Zenon DEF Holds
  <1>12. PICK job \in {j, more} : Proceed(w, job) \/ Stop(w)
    BY <1>2
  <1>13. IsJob(job) /\ job.plan = j.plan /\ Holds(fresh', job)
    BY <1>8, <1>10, <1>11, <1>12
  <1> QED BY <1>1, <1>3, <1>6, <1>7, <1>12, <1>13, GoesOnTyped

LEMMA RowStepTyped ==
  ASSUME IInv, Copies, RowsTyped, NEW w \in Worker, RowStep(w)
  PROVE  RowsTyped'
  <1>1. CASE Abandon(w)
    <2>1. /\ UsersIn(users, fresh) /\ CodesIn(codes, fresh) /\ SessionsIn(sessions, fresh)
      BY DEF RowsTyped
    <2> QED BY <1>1, <2>1, StopsTyped DEF Abandon, auth, ghosts
  <1> QED BY <1>1, ClearTyped, CreateTyped, IssueTyped, LoadUserTyped, SaveUserTyped, SaveRowTyped, DeliverTyped
       DEF RowStep

-----------------------------------------------------------------------------
\* A request begins, holding what its plan needs.
LEMMA BeginsTyped ==
  ASSUME IInv, RowsTyped, NEW w \in Worker, NEW kind, NEW job, Holds(fresh', [job EXCEPT !.kind = kind]),
         Begin(w, kind, job), fresh' = fresh \/ fresh' = fresh + 1,
         UNCHANGED <<flow, users, codes, mail, tokens, sessions, clash>>
  PROVE  RowsTyped'
  <1>1. left' \in Nat /\ jobs' = [jobs EXCEPT ![w] = [job EXCEPT !.kind = kind]]
    BY DEF Begin, MayBegin, RowsTyped
  <1>2. /\ UsersIn(users', fresh') /\ CodesIn(codes', fresh') /\ TokensIn(tokens', fresh')
        /\ SessionsIn(sessions', fresh') /\ mail' \subseteq Mail(fresh') /\ clash' \subseteq 1..fresh'
    BY AsBefore
  <1> QED BY <1>1, <1>2, Stays

LEMMA PlansTyped ==
  /\ \A p \in {<<"saveRow">>, <<"saveRow", "renew", "issue", "saveRow", "deliver">>} : p \in Saving \ Loading
  /\ <<"saveRow", "revise", "saveRow", "deliver">> \in Revising \ Loading
  /\ \A p \in {<<"saveRow", "deliver">>, <<"saveRow", "deliver", "saveRow">>} : p \in Sending \ Loading
  /\ \A p \in {<<"loadUser", "saveUser", "saveRow">>, <<"loadUser", "saveUser">>} : p \in Loading
  /\ Saving \cap (Sending \cup Revising \cup Loading \cup Changing) = {}
  /\ Sending \cap (Revising \cup Loading \cup Changing) = {}
  /\ Revising \cap (Loading \cup Changing) = {} /\ Loading \cap Changing = {}
  BY DEF Saving, Sending, Revising, Loading, Changing

WithCode(h, c) == [h EXCEPT !.code = c]
SentTo(h, a) == [h EXCEPT !.to = a]
WithPassword(h, p, c) == [h EXCEPT !.pw = p, !.code = c]

\* It holds a record, changed in memory.
LEMMA HoldingTyped ==
  ASSUME IInv, RowsTyped, NEW w \in Worker, NEW kind, NEW r \in DOMAIN codes, NEW row \in Stored(fresh'),
         NEW plan,
         \/ plan \in Saving
         \/ plan \in Sending /\ row.code # None
         \/ plan \in Revising /\ kind \in {"postEmail", "resendEmail"} /\ (kind = "postEmail" => row.code # None)
         \/ plan \in Loading /\ kind \in Loaders,
         \/ plan \notin Loading /\ Begin(w, kind, Holding(r, row, plan))
         \/ kind # "setForget" /\ \E c : Begin(w, kind, WithCode(Holding(r, row, plan), c))
         \/ plan \notin Loading /\ \E a \in Address : Begin(w, kind, SentTo(Holding(r, row, plan), a))
         \/ \E p \in Password : \E c : Begin(w, kind, WithPassword(Holding(r, row, plan), p, c)),
         fresh' = fresh \/ fresh' = fresh + 1,
         UNCHANGED <<flow, users, codes, mail, tokens, sessions, clash>>
  PROVE  RowsTyped'
  <1> DEFINE h == Holding(r, row, plan)
             u == codes[r].user
  <1>1. IsJob(h) /\ h.plan = plan /\ h.rec = r /\ h.user = u /\ h.row = row /\ h.to \in Addr
    <2>1. IsJob(h) /\ h.plan = plan
      BY HoldingOK
    <2>2. NoJob.to \in Addr
      BY DEF NoJob, Addr
    <2> HIDE DEF u
    <2>3. h.rec = r /\ h.user = u /\ h.row = row /\ h.to = NoJob.to
      <3> DEFINE user == codes[r].user
      <3>1. h = [NoJob EXCEPT !.plan = plan, !.user = user, !.rec = r, !.row = row]
        BY DEF Holding
      <3> HIDE DEF user, h
      <3>2. IsJob(NoJob)
        BY NoJobOK
      <3>3. h.rec = r /\ h.user = user /\ h.row = row /\ h.to = NoJob.to
        BY <3>1, <3>2 DEF IsJob, Fields
      <3> QED BY <3>3 DEF user, u
    <2> QED BY <2>1, <2>2, <2>3
  <1>2. u \in 1..fresh' /\ r \in 1..fresh'
    <2>1. CodesIn(codes, fresh')
      BY AsBefore
    <2> QED BY <2>1 DEF CodesIn, Stored
  <1> HIDE DEF h, u
  <1> DEFINE JobIs(job) ==
        /\ IsJob(job) /\ job.plan = plan /\ job.rec = r /\ job.user = u /\ job.row = row /\ job.to \in Addr
        /\ plan \in Loading /\ kind = "setForget" => job.pw \in Password
        /\ Begin(w, kind, job)
  <1>3. PICK job : JobIs(job)
    <2>1. ASSUME plan \notin Loading, Begin(w, kind, h) PROVE \E job : JobIs(job)
      BY <1>1, <2>1
    <2>2. ASSUME kind # "setForget", NEW c, Begin(w, kind, WithCode(h, c))
          PROVE  \E job : JobIs(job)
      <3> DEFINE j == WithCode(h, c)
      <3>1. IsJob(j) /\ j.plan = plan /\ j.rec = r /\ j.user = u /\ j.row = row /\ j.to \in Addr
        BY <1>1 DEF IsJob, Fields, WithCode
      <3> HIDE DEF j
      <3> QED BY <2>2, <3>1 DEF j
    <2>3. ASSUME plan \notin Loading, NEW a \in Address, Begin(w, kind, SentTo(h, a))
          PROVE  \E job : JobIs(job)
      <3> DEFINE j == SentTo(h, a)
      <3>1. IsJob(j) /\ j.plan = plan /\ j.rec = r /\ j.user = u /\ j.row = row /\ j.to \in Addr
        BY <1>1 DEF IsJob, Fields, SentTo, Addr
      <3> HIDE DEF j
      <3> QED BY <2>3, <3>1 DEF j
    <2>4. ASSUME NEW p \in Password, NEW c, Begin(w, kind, WithPassword(h, p, c))
          PROVE  \E job : JobIs(job)
      <3> DEFINE j == WithPassword(h, p, c)
      <3>1. IsJob(j) /\ j.plan = plan /\ j.rec = r /\ j.user = u /\ j.row = row /\ j.to \in Addr /\ j.pw = p
        BY <1>1 DEF IsJob, Fields, WithPassword
      <3> HIDE DEF j
      <3> QED BY <2>4, <3>1 DEF j
    <2> HIDE DEF JobIs
    <2> QED BY <2>1, <2>2, <2>3, <2>4 DEF h
  <1> DEFINE k == [job EXCEPT !.kind = kind]
  <1>4. /\ k.plan = plan /\ k.rec = r /\ k.user = u /\ k.row = row /\ k.to \in Addr /\ k.kind = kind
        /\ plan \in Loading /\ kind = "setForget" => k.pw \in Password
    BY <1>3 DEF IsJob, Fields
  <1> HIDE DEF k
  <1>5. /\ plan \in Sending \cup Saving \cup Revising \cup Loading /\ plan \notin Changing
        /\ plan \in Sending => row.code # None
        /\ plan \in Revising => kind \in {"postEmail", "resendEmail"} /\ (kind = "postEmail" => row.code # None)
        /\ plan \in Loading => kind \in Loaders
    BY PlansTyped
  <1>6. Carries(fresh', k)
    <2>1. k.plan \in Sending \cup Saving \cup Revising \cup Loading \cup Changing
      BY <1>4, <1>5
    <2>2. k.plan \in Sending => k.row.code # None
      BY <1>4, <1>5
    <2>6. k.plan \in Revising => k.kind \in {"postEmail", "resendEmail"} /\ (k.kind = "postEmail" => k.row.code # None)
      BY <1>4, <1>5
    <2>3. k.plan \in Loading => k.kind \in Loaders /\ (k.kind = "setForget" => k.pw \in Password)
      BY <1>4, <1>5
    <2>4. k.plan \in Changing => k.acct \in AcctType
      BY <1>4, <1>5
    <2>5. k.user \in 1..fresh' /\ k.rec \in 1..fresh' /\ k.row \in Stored(fresh')
      BY <1>2, <1>4
    <2> QED BY <2>1, <2>2, <2>3, <2>4, <2>5, <2>6, Zenon DEF Carries
  <1>7. Holds(fresh', k)
    BY <1>4, <1>6, Zenon DEF Holds
  <1> QED BY <1>3, <1>7, BeginsTyped DEF k

\* A record that was read, in the next state too.
LEMMA Readable ==
  ASSUME RowsTyped, NEW r \in DOMAIN codes, fresh' = fresh \/ fresh' = fresh + 1
  PROVE  codes[r] \in Stored(fresh') /\ fresh' \in Nat
  <1>1. CodesIn(codes, fresh') /\ fresh' \in Nat
    BY AsBefore
  <1> QED BY <1>1 DEF CodesIn

\* A wrong code is counted or blocks the record.
LEMMA MissedTyped ==
  ASSUME NEW n \in Nat, NEW row \in Stored(n)
  PROVE  TooMany(Miss(row), [Dead(Block(Miss(row))) EXCEPT !.code = None]) \in Stored(n)
  <1> DEFINE missed == Miss(row)
             dead == Dead(Block(missed))
  <1>1. missed \in Stored(n)
    BY Copied
  <1> HIDE DEF missed
  <1>2. dead \in Stored(n)
    BY <1>1, Copied
  <1> HIDE DEF dead
  <1>3. [dead EXCEPT !.code = None] \in Stored(n)
    BY <1>2, Copied
  <1> HIDE DEF Miss
  <1> QED BY <1>1, <1>3 DEF TooMany, missed, dead

\* A request that comes too often.
LEMMA ResendBlockTyped ==
  ASSUME IInv, RowsTyped, NEW w \in Worker, NEW kind, NEW r \in DOMAIN codes, ResendBlock(w, kind, r),
         UNCHANGED <<flow, users, codes, mail, tokens, sessions, clash>>
  PROVE  RowsTyped'
  <1> DEFINE row == Block(codes[r])
             new == [row EXCEPT !.resend = 0]
  <1>1. fresh' = fresh /\ Begin(w, kind, Holding(r, new, <<"saveRow">>))
    BY DEF ResendBlock
  <1>2. codes[r] \in Stored(fresh') /\ fresh' \in Nat
    BY <1>1, Readable
  <1>3. row \in Stored(fresh')
    BY <1>2, Copied
  <1> HIDE DEF row
  <1>4. new \in Stored(fresh')
    BY <1>2, <1>3, Copied
  <1> HIDE DEF new
  <1>5. NoAddress \in Addr /\ <<"saveRow">> \in Saving \ Loading
    BY PlansTyped DEF Addr
  <1> QED BY <1>1, <1>4, <1>5, HoldingTyped

\* The plans of a registration.
LEMMA Prefixed ==
  ASSUME NEW a, NEW b, NEW c, NEW d
  PROVE  <<a>> \o <<b, c, d>> = <<a, b, c, d>>
  <1> DEFINE s == <<a>>
             u == <<b, c, d>>
             t == <<a, b, c, d>>
  <1>1. s \in Seq({a}) /\ u \in Seq({b, c, d}) /\ t \in Seq({a, b, c, d})
    OBVIOUS
  <1>2. s \in Seq({a, b, c, d}) /\ u \in Seq({a, b, c, d})
    OBVIOUS
  <1>3. Len(s) = 1 /\ Len(u) = 3 /\ Len(t) = 4
    OBVIOUS
  <1>4. s[1] = a /\ u[1] = b /\ u[2] = c /\ u[3] = d /\ t[1] = a /\ t[2] = b /\ t[3] = c /\ t[4] = d
    OBVIOUS
  <1> HIDE DEF s, u, t
  <1>5. /\ s \o u \in Seq({a, b, c, d}) /\ Len(s \o u) = Len(s) + Len(u)
        /\ \A i \in 1..Len(s) + Len(u) : (s \o u)[i] = IF i <= Len(s) THEN s[i] ELSE u[i - Len(s)]
    BY <1>2, ConcatProperties
  <1>6. \A i \in 1..4 : (s \o u)[i] = t[i]
    <2>1. ASSUME NEW i \in 1..4 PROVE i = 1 \/ i = 2 \/ i = 3 \/ i = 4
      OBVIOUS
    <2> QED BY <1>5, <1>4, <1>3, <2>1
  <1>7. s \o u = t
    BY <1>1, <1>5, <1>6, <1>3, SeqEqual
  <1> QED BY <1>7 DEF s, u, t

LEMMA PrefixedMore ==
  ASSUME NEW a, NEW b, NEW c, NEW d, NEW e
  PROVE  <<a>> \o <<b, c, d, e>> = <<a, b, c, d, e>>
  <1> DEFINE s == <<a>>
             u == <<b, c, d, e>>
             t == <<a, b, c, d, e>>
             S == {a, b, c, d, e}
  <1>1. s \in Seq(S) /\ u \in Seq(S) /\ t \in Seq(S)
    OBVIOUS
  <1>2. Len(s) = 1 /\ Len(u) = 4 /\ Len(t) = 5
    OBVIOUS
  <1>3. s[1] = a /\ u[1] = b /\ u[2] = c /\ u[3] = d /\ u[4] = e
        /\ t[1] = a /\ t[2] = b /\ t[3] = c /\ t[4] = d /\ t[5] = e
    OBVIOUS
  <1> HIDE DEF s, u, t, S
  <1>4. /\ s \o u \in Seq(S) /\ Len(s \o u) = Len(s) + Len(u)
        /\ \A i \in 1..Len(s) + Len(u) : (s \o u)[i] = IF i <= Len(s) THEN s[i] ELSE u[i - Len(s)]
    BY <1>1, ConcatProperties
  <1>5. \A i \in 1..5 : (s \o u)[i] = t[i]
    <2>1. ASSUME NEW i \in 1..5 PROVE i = 1 \/ i = 2 \/ i = 3 \/ i = 4 \/ i = 5
      OBVIOUS
    <2> QED BY <1>2, <1>3, <1>4, <2>1
  <1>6. s \o u = t
    BY <1>1, <1>2, <1>4, <1>5, SeqEqual
  <1> QED BY <1>6 DEF s, u, t

LEMMA RegisterPlans ==
  ASSUME NEW found, NEW type \in {"register", "link"}
  PROVE  LET plan == (IF found THEN <<>> ELSE <<"clear">>) \o Making(type) IN
         plan \in (IF type = "link" THEN Linking ELSE Coding) \ {<<"issue", "deliver">>, <<"issue", "saveRow", "deliver">>}
  <1>1. CASE type = "link"
    <2>1. <<>> \o <<"create", "issue", "deliver">> = <<"create", "issue", "deliver">>
      OBVIOUS
    <2>2. <<"clear">> \o <<"create", "issue", "deliver">> = <<"clear", "create", "issue", "deliver">>
      BY Prefixed
    <2>3. \A p \in {<<"create", "issue", "deliver">>, <<"clear", "create", "issue", "deliver">>} :
            p \in Linking \ {<<"issue", "deliver">>, <<"issue", "saveRow", "deliver">>}
      BY DEF Linking
    <2> QED BY <1>1, <2>1, <2>2, <2>3 DEF Making
  <1>2. CASE type # "link"
    <2>1. <<>> \o <<"create", "issue", "saveRow", "deliver">> = <<"create", "issue", "saveRow", "deliver">>
      OBVIOUS
    <2>2. <<"clear">> \o <<"create", "issue", "saveRow", "deliver">> =
            <<"clear", "create", "issue", "saveRow", "deliver">>
      BY PrefixedMore
    <2>3. \A p \in {<<"create", "issue", "saveRow", "deliver">>, <<"clear", "create", "issue", "saveRow", "deliver">>} :
            p \in Coding \ {<<"issue", "deliver">>, <<"issue", "saveRow", "deliver">>}
      BY DEF Coding
    <2> QED BY <1>2, <2>1, <2>2, <2>3 DEF Making
  <1> QED BY <1>1, <1>2

LEMMA RegisterTyped ==
  ASSUME IInv, RowsTyped, NEW w \in Worker, NEW a \in Address, NEW type \in {"register", "link"},
         NEW p \in Password, Register(w, a, type, p)
  PROVE  RowsTyped'
  <1> DEFINE plan == (IF At(a) = {} THEN <<>> ELSE <<"clear">>) \o Making(type)
             user == IF At(a) = {} THEN None ELSE CHOOSE u \in At(a) : TRUE
             acct == IF At(a) = {} THEN NoAcct ELSE users[CHOOSE u \in At(a) : TRUE]
             row == NewRow(type)
             job == [NoJob EXCEPT !.plan = plan, !.user = user, !.acct = acct, !.row = row, !.to = a, !.pw = p]
             k == [job EXCEPT !.kind = "register"]
  <1>1. Begin(w, "register", job)
    BY Zenon DEF Register
  <1>2. UNCHANGED <<flow, fresh, users, codes, mail, tokens, sessions, clash>>
    BY Zenon DEF Register, auth, ghosts
  <1>3. plan \in IF type = "link" THEN Linking ELSE Coding
    BY RegisterPlans, Zenon
  <1> HIDE DEF plan, user, acct
  <1>4. IsJob(job) /\ job.plan = plan /\ job.row = row /\ job.to = a /\ job.pw = p
    <2> HIDE DEF row
    <2> QED BY NoJobOK DEF IsJob, Fields
  <1> HIDE DEF job
  <1>5. k.plan = plan /\ k.row = row /\ k.to = a /\ k.pw = p
    BY <1>4 DEF IsJob, Fields
  <1> HIDE DEF k
  <1>6. /\ plan \in Drafting /\ type \in Kinds /\ a \in Addr
        /\ plan \in Linking => type = "link"
        /\ plan \in Coding => type \in OtpKinds
    <2>1. Linking \cap Coding = {}
      BY DEF Linking, Coding
    <2> QED BY <1>3, <2>1 DEF Drafting, CodeKinds, OtpKinds, Kinds, Addr
  <1>7. Drafts(k)
    BY <1>5, <1>6, Zenon DEF Drafts
  <1>8. Holds(fresh', k)
    BY <1>5, <1>6, <1>7, Zenon DEF Holds
  <1> QED BY <1>1, <1>2, <1>8, BeginsTyped DEF k

LEMMA VerifyTyped ==
  ASSUME IInv, RowsTyped, NEW w \in Worker, NEW a, NEW c, Verify(w, a, c)
  PROVE  RowsTyped'
  <1>1. UNCHANGED <<flow, fresh, users, codes, mail, tokens, sessions, clash>>
    BY DEF Verify, auth
  <1>2. PICK r \in DOMAIN codes :
          \/ Begin(w, "verify", Holding(r, TooMany(Miss(codes[r]), [Dead(Block(Miss(codes[r]))) EXCEPT !.code = None]),
                                        <<"saveRow">>))
          \/ Begin(w, "verify", [Holding(r, Dead(codes[r]), <<"loadUser", "saveUser", "saveRow">>) EXCEPT !.code = c])
    BY DEF Verify, RowsOf
  <1> DEFINE missed == TooMany(Miss(codes[r]), [Dead(Block(Miss(codes[r]))) EXCEPT !.code = None])
             dead == Dead(codes[r])
             loading == <<"loadUser", "saveUser", "saveRow">>
  <1>3. codes[r] \in Stored(fresh') /\ fresh' \in Nat
    BY <1>1, Readable
  <1>4. missed \in Stored(fresh') /\ dead \in Stored(fresh')
    BY <1>3, MissedTyped, Copied
  <1> HIDE DEF missed, dead
  <1>5. /\ NoAddress \in Addr /\ <<"saveRow">> \in Saving \ Loading /\ "verify" \in Loaders
        /\ loading \in Loading
    BY PlansTyped DEF Addr, Loaders
  <1>6. CASE Begin(w, "verify", Holding(r, missed, <<"saveRow">>))
    BY <1>1, <1>4, <1>5, <1>6, HoldingTyped
  <1>7. CASE Begin(w, "verify", [Holding(r, dead, loading) EXCEPT !.code = c])
    <2> HIDE DEF loading
    <2>1. Begin(w, "verify", WithCode(Holding(r, dead, loading), c))
      BY <1>7, Zenon DEF WithCode
    <2> QED BY <1>1, <1>4, <1>5, <2>1, HoldingTyped
  <1> QED BY <1>2, <1>6, <1>7 DEF missed, dead

LEMMA VerifyLinkTyped ==
  ASSUME IInv, RowsTyped, NEW w \in Worker, NEW c, VerifyLink(w, c)
  PROVE  RowsTyped'
  <1> DEFINE loading == <<"loadUser", "saveUser">>
  <1>1. UNCHANGED <<flow, fresh, users, codes, mail, tokens, sessions, clash>>
    BY DEF VerifyLink, auth
  <1>2. PICK r \in DOMAIN codes : Begin(w, "link", [Holding(r, codes[r], loading) EXCEPT !.code = c])
    BY DEF VerifyLink
  <1>3. codes[r] \in Stored(fresh')
    BY <1>1, Readable
  <1>4. loading \in Loading /\ "link" \in Loaders
    BY PlansTyped DEF Loaders
  <1> HIDE DEF loading
  <1>5. Begin(w, "link", WithCode(Holding(r, codes[r], loading), c))
    BY <1>2, Zenon DEF WithCode
  <1> QED BY <1>1, <1>3, <1>4, <1>5, HoldingTyped

LEMMA ResendTyped ==
  ASSUME IInv, RowsTyped, NEW w \in Worker, NEW a, Resend(w, a)
  PROVE  RowsTyped'
  <1> DEFINE plan == <<"saveRow", "deliver", "saveRow">>
  <1>1. UNCHANGED <<flow, users, codes, mail, tokens, sessions, clash>>
    BY DEF Resend, auth
  <1>2. PICK r \in DOMAIN codes :
          \/ ResendBlock(w, "resend", r)
          \/ fresh' = fresh + 1 /\ Begin(w, "resend", Holding(r, NewCode(codes[r], fresh'), plan))
    BY DEF Resend, RowsOf
  <1>3. CASE ResendBlock(w, "resend", r)
    BY <1>1, <1>3, ResendBlockTyped
  <1>4. CASE fresh' = fresh + 1 /\ Begin(w, "resend", Holding(r, NewCode(codes[r], fresh'), plan))
    <2>1. codes[r] \in Stored(fresh') /\ fresh' \in Nat /\ fresh' \in 0..fresh' /\ NoAddress \in Addr /\ fresh' # None
      BY <1>4, Readable, AsBefore DEF Addr, RowsTyped, None
    <2> DEFINE row == NewCode(codes[r], fresh')
    <2>2. row \in Stored(fresh') /\ row.code # None
      BY <2>1, Coded
    <2>3. plan \in Sending \ Loading
      BY PlansTyped
    <2> HIDE DEF plan, row
    <2>4. Begin(w, "resend", Holding(r, row, plan))
      BY <1>4 DEF row
    <2> QED BY <1>1, <1>4, <2>2, <2>3, <2>4, HoldingTyped
  <1> QED BY <1>2, <1>3, <1>4

LEMMA ForgetPasswordTyped ==
  ASSUME IInv, RowsTyped, NEW w \in Worker, NEW a, ForgetPassword(w, a)
  PROVE  RowsTyped'
  <1> DEFINE plan == <<"saveRow", "renew", "issue", "saveRow", "deliver">>
             Row(r) == [codes[r] EXCEPT !.resend = @ + 1]
  <1>1. UNCHANGED <<flow, users, codes, mail, tokens, sessions, clash>>
    BY DEF ForgetPassword, auth
  <1>2. PICK r \in DOMAIN codes :
          \/ ResendBlock(w, "forget", r)
          \/ fresh' = fresh /\ Begin(w, "forget", Holding(r, Row(r), plan))
    BY DEF ForgetPassword, RowsOf
  <1>3. CASE ResendBlock(w, "forget", r)
    BY <1>1, <1>3, ResendBlockTyped
  <1>4. CASE fresh' = fresh /\ Begin(w, "forget", Holding(r, Row(r), plan))
    <2>1. codes[r] \in Stored(fresh') /\ fresh' \in Nat
      BY <1>4, Readable
    <2>2. Row(r) \in Stored(fresh')
      BY <2>1, Copied
    <2>3. plan \in Saving \ Loading
      BY PlansTyped
    <2> HIDE DEF plan, Row
    <2> QED BY <1>1, <1>4, <2>2, <2>3, HoldingTyped
  <1> QED BY <1>2, <1>3, <1>4

LEMMA VerifyForgetTyped ==
  ASSUME IInv, RowsTyped, NEW w \in Worker, NEW a, NEW c, VerifyForget(w, a, c)
  PROVE  RowsTyped'
  <1> DEFINE Row(r) == [codes[r] EXCEPT !.done = TRUE, !.window = "live"]
  <1>1. UNCHANGED <<flow, users, codes, mail, tokens, sessions, clash>>
    BY DEF VerifyForget, auth
  <1>2. PICK r \in DOMAIN codes :
          \/ ResendBlock(w, "forgetVerify", r)
          \/ fresh' = fresh /\ Begin(w, "forgetVerify", Holding(r, Row(r), <<"saveRow">>))
    BY DEF VerifyForget, RowsOf
  <1>3. CASE ResendBlock(w, "forgetVerify", r)
    BY <1>1, <1>3, ResendBlockTyped
  <1>4. CASE fresh' = fresh /\ Begin(w, "forgetVerify", Holding(r, Row(r), <<"saveRow">>))
    <2>1. codes[r] \in Stored(fresh') /\ fresh' \in Nat
      BY <1>4, Readable
    <2>2. Row(r) \in Stored(fresh')
      BY <2>1, Copied
    <2>3. <<"saveRow">> \in Saving \ Loading
      BY PlansTyped
    <2> HIDE DEF Row
    <2> QED BY <1>1, <1>4, <2>2, <2>3, HoldingTyped
  <1> QED BY <1>2, <1>3, <1>4

LEMMA SetForgottenTyped ==
  ASSUME IInv, RowsTyped, NEW w \in Worker, NEW a, NEW p \in Password, SetForgotten(w, a, p)
  PROVE  RowsTyped'
  <1> DEFINE plan == <<"loadUser", "saveUser", "saveRow">>
             Row(r) == [Dead(codes[r]) EXCEPT !.done = FALSE]
  <1>1. UNCHANGED <<flow, users, codes, mail, tokens, sessions, clash>>
    BY DEF SetForgotten, auth
  <1>2. PICK r \in DOMAIN codes :
          \/ ResendBlock(w, "setForget", r)
          \/ fresh' = fresh /\ Begin(w, "setForget", [Holding(r, Row(r), plan) EXCEPT !.pw = p, !.code = codes[r].code])
    BY DEF SetForgotten, RowsOf
  <1>3. CASE ResendBlock(w, "setForget", r)
    BY <1>1, <1>3, ResendBlockTyped
  <1>4. CASE fresh' = fresh /\ Begin(w, "setForget", [Holding(r, Row(r), plan) EXCEPT !.pw = p, !.code = codes[r].code])
    <2>1. codes[r] \in Stored(fresh') /\ fresh' \in Nat
      BY <1>4, Readable
    <2> DEFINE dead == Dead(codes[r])
    <2>2. dead \in Stored(fresh')
      BY <2>1, Copied
    <2> HIDE DEF dead
    <2>3. [dead EXCEPT !.done = FALSE] \in Stored(fresh')
      BY <2>1, <2>2, Copied
    <2>4. Row(r) \in Stored(fresh')
      BY <2>3 DEF dead
    <2>5. plan \in Loading /\ "setForget" \in Loaders
      BY PlansTyped DEF Loaders
    <2> HIDE DEF plan, Row
    <2>6. Begin(w, "setForget", WithPassword(Holding(r, Row(r), plan), p, codes[r].code))
      BY <1>4, Zenon DEF WithPassword
    <2> QED BY <1>1, <1>4, <2>4, <2>5, <2>6, HoldingTyped
  <1> QED BY <1>2, <1>3, <1>4

LEMMA RenewTyped ==
  ASSUME IInv, RowsTyped, NEW w \in Worker, Renew(w)
  PROVE  RowsTyped'
  <1> DEFINE j == jobs[w]
             row == NewRow("forget")
             job == [j EXCEPT !.rec = None, !.row = row]
             k == Advance(job)
  <1>1. /\ On(w, "renew") /\ Proceed(w, job)
        /\ UNCHANGED <<flow, left, fresh, users, codes, mail, tokens, sessions, clash>>
    BY DEF Renew, auth, ghosts
  <1>2. /\ UsersIn(users', fresh') /\ CodesIn(codes', fresh') /\ TokensIn(tokens', fresh')
        /\ SessionsIn(sessions', fresh') /\ mail' \subseteq Mail(fresh') /\ clash' \subseteq 1..fresh'
        /\ left' \in Nat /\ Holds(fresh, j)
    BY <1>1 DEF RowsTyped
  <1>3. j.plan = <<"renew", "issue", "saveRow", "deliver">> /\ j.to \in Addr /\ IsJob(j)
    BY <1>1, <1>2, ByHead DEF On, Holds, IInv, JobsOK, JobOK
  <1> HIDE DEF row
  <1>4. IsJob(job) /\ job.plan = j.plan /\ job.to = j.to /\ job.row = row
    BY <1>3 DEF IsJob, Fields
  <1> HIDE DEF job
  <1>5. Len(j.plan) # 1 /\ Tail(j.plan) = <<"issue", "saveRow", "deliver">>
    BY <1>3
  <1>6. k.plan = <<"issue", "saveRow", "deliver">> /\ k.to = j.to /\ k.row = row
    BY <1>4, <1>5, Fieldwise
  <1> HIDE DEF k
  <1>7. /\ "forget" \in Kinds /\ "forget" \in OtpKinds /\ <<"issue", "saveRow", "deliver">> \in Drafting \ Linking
        /\ Head(<<"issue", "saveRow", "deliver">>) \notin {"clear", "create"}
    BY DEF Kinds, CodeKinds, OtpKinds, Drafting, Linking, Coding
  <1>8. Drafts(k)
    <2>1. \E kind \in Kinds : /\ k.row = NewRow(kind)
                              /\ k.plan \in Linking => kind = "link"
                              /\ k.plan \in Coding => kind \in OtpKinds
      BY <1>6, <1>7 DEF row
    <2> QED BY <1>6, <1>7, <2>1, Zenon DEF Drafts
  <1>9. Holds(fresh', k)
    BY <1>3, <1>6, <1>8, Zenon DEF Holds
  <1> QED BY <1>1, <1>2, <1>9, Stays DEF Proceed, k

LEMMA RegistrationTyped ==
  ASSUME IInv, RowsTyped, NEW w \in Worker, RegistrationStep(w)
  PROVE  RowsTyped'
  <1>1. flow.addresses \subseteq Address
    BY FlowsAssumption DEF RowsTyped
  <1>2. \A type \in {"register"} \cup ({"link"} \cap flow.kinds) : type \in {"register", "link"}
    OBVIOUS
  <1>3. CASE \E a \in flow.addresses, type \in {"register"} \cup ({"link"} \cap flow.kinds), p \in Password :
               Register(w, a, type, p)
    BY <1>1, <1>2, <1>3, RegisterTyped
  <1> QED BY <1>3, VerifyTyped, VerifyForgetTyped, ResendTyped, ForgetPasswordTyped, SetForgottenTyped, VerifyLinkTyped,
             RenewTyped DEF RegistrationStep

-----------------------------------------------------------------------------
\* A log that is to be inserted is blank.
LEMMA LogDrafts ==
  ASSUME NEW j, j.plan = <<"issue">>, NEW x \in Kinds, j.row = NewRow(x)
  PROVE  Drafts(j)
  <1>1. <<"issue">> \in Drafting /\ <<"issue">> \notin Linking \cup Coding /\ Head(<<"issue">>) \notin {"clear", "create"}
    BY DEF Drafting, Linking, Coding
  <1> QED BY <1>1, Zenon DEF Drafts

LEMMA OpenWindowTyped ==
  ASSUME IInv, RowsTyped, NEW w \in Worker, NEW u, NEW kind \in LogKinds, OpenWindow(w, u, kind)
  PROVE  RowsTyped'
  <1> DEFINE mine == RowsOf({u}, {kind})
             r == Max(mine)
             row == codes[r]
             blank == NewRow(kind)
             new == [NoJob EXCEPT !.plan = <<"issue">>, !.user = u, !.row = blank]
             old == Block(row)
             closed == [old EXCEPT !.age = "old"]
             opened == [row EXCEPT !.attapts = @ + 1, !.window = "live"]
             plan == <<"saveRow">>
             name == OpenKind[kind]
             k == [new EXCEPT !.kind = name]
  <1>1. UNCHANGED <<flow, fresh, users, codes, mail, tokens, sessions, clash>>
    BY DEF OpenWindow, auth, ghosts
  <1>2. \/ Begin(w, name, new)
        \/ mine # {} /\ Begin(w, name, Holding(r, closed, plan))
        \/ mine # {} /\ Begin(w, name, Holding(r, opened, plan))
    BY DEF OpenWindow
  <1>3. CASE Begin(w, name, new)
    <2> HIDE DEF blank, name
    <2>1. IsJob(new) /\ new.plan = <<"issue">> /\ new.row = blank /\ new.to = NoAddress
      <3>1. NoJob.to = NoAddress /\ IsJob(NoJob)
        BY NoJobOK DEF NoJob
      <3> QED BY <3>1 DEF IsJob, Fields
    <2> HIDE DEF new
    <2>2. k.plan = <<"issue">> /\ k.row = blank /\ k.to = NoAddress
      BY <2>1 DEF IsJob, Fields
    <2> HIDE DEF k
    <2>3. kind \in Kinds /\ NoAddress \in Addr
      BY DEF Kinds, Addr
    <2>4. Drafts(k)
      BY <2>2, <2>3, LogDrafts DEF blank
    <2>5. Holds(fresh', k)
      BY <2>2, <2>3, <2>4, Zenon DEF Holds
    <2> QED BY <1>1, <1>3, <2>5, BeginsTyped DEF k
  <1>4. ASSUME mine # {} PROVE r \in DOMAIN codes /\ closed \in Stored(fresh') /\ opened \in Stored(fresh')
    <2>1. mine \in SUBSET (1..fresh) /\ fresh \in Nat
      BY DEF RowsOf, RowsTyped, CodesIn
    <2>2. r \in mine
      <3> HIDE DEF mine
      <3> QED BY <1>4, <2>1, MaxIsIn
    <2>3. r \in DOMAIN codes
      BY <2>2 DEF RowsOf
    <2> HIDE DEF r
    <2>4. row \in Stored(fresh') /\ fresh' \in Nat
      BY <1>1, <2>3, Readable
    <2> HIDE DEF row
    <2>5. old \in Stored(fresh') /\ opened \in Stored(fresh')
      BY <2>4, Copied
    <2> HIDE DEF old
    <2>6. closed \in Stored(fresh')
      BY <2>4, <2>5, Copied
    <2> QED BY <2>3, <2>5, <2>6
  <1>5. plan \in Saving \ Loading
    BY PlansTyped
  <1> HIDE DEF mine, r, row, closed, opened, plan, name
  <1>6. CASE mine # {} /\ Begin(w, name, Holding(r, closed, plan))
    BY <1>1, <1>4, <1>5, <1>6, HoldingTyped
  <1>7. CASE mine # {} /\ Begin(w, name, Holding(r, opened, plan))
    BY <1>1, <1>4, <1>5, <1>7, HoldingTyped
  <1> QED BY <1>2, <1>3, <1>6, <1>7

LEMMA ChangePasswordTyped ==
  ASSUME IInv, RowsTyped, NEW w \in Worker, NEW u, NEW old, NEW new \in Password, ChangePassword(w, u, old, new)
  PROVE  RowsTyped'
  <1> DEFINE Saves == <<"saveRow">>
             plan == <<"saveUser", "saveRow">>
             Blocked(r) == [Block(codes[r]) EXCEPT !.window = "lapsed"]
             Done(r) == [codes[r] EXCEPT !.done = TRUE, !.window = "lapsed"]
             acct == [users[u] EXCEPT !.pw = new]
  <1>1. UNCHANGED <<flow, fresh, users, codes, mail, tokens, sessions, clash>> /\ u \in DOMAIN users
    BY Zenon DEF ChangePassword, auth, ghosts, Active, Has
  <1>2. PICK r \in DOMAIN codes :
          \/ Begin(w, "changePassword", Holding(r, Blocked(r), Saves))
          \/ Begin(w, "changePassword", Holding(r, Miss(codes[r]), Saves))
          \/ Begin(w, "changePassword", [Holding(r, Done(r), plan) EXCEPT !.acct = acct, !.pw = new])
    BY DEF ChangePassword, Pending, RowsOf
  <1> DEFINE row == codes[r]
             blocked == Block(row)
             done == Done(r)
  <1>3. row \in Stored(fresh') /\ fresh' \in Nat
    BY <1>1, Readable
  <1>4. done \in Stored(fresh') /\ Miss(row) \in Stored(fresh') /\ blocked \in Stored(fresh')
    <2> HIDE DEF row
    <2>1. [row EXCEPT !.done = TRUE, !.window = "lapsed"] \in Stored(fresh')
      BY <1>3, Copied
    <2>2. Miss(row) \in Stored(fresh') /\ blocked \in Stored(fresh')
      BY <1>3, Copied
    <2> QED BY <2>1, <2>2 DEF row
  <1>5. Blocked(r) \in Stored(fresh')
    <2> HIDE DEF blocked
    <2>1. [blocked EXCEPT !.window = "lapsed"] \in Stored(fresh')
      BY <1>3, <1>4, Copied
    <2> QED BY <2>1 DEF blocked
  <1>6. Saves \in Saving \ Loading
    BY PlansTyped
  <1>7. CASE \/ Begin(w, "changePassword", Holding(r, Blocked(r), Saves))
             \/ Begin(w, "changePassword", Holding(r, Miss(codes[r]), Saves))
    <2> HIDE DEF Saves, Blocked
    <2> QED BY <1>1, <1>4, <1>5, <1>6, <1>7, HoldingTyped
  <1>8. CASE Begin(w, "changePassword", [Holding(r, Done(r), plan) EXCEPT !.acct = acct, !.pw = new])
    <2> DEFINE h == Holding(r, done, plan)
               job == [h EXCEPT !.acct = acct, !.pw = new]
               k == [job EXCEPT !.kind = "changePassword"]
               user == codes[r].user
    <2>1. acct \in AcctType
      <3>1. users[u] \in AcctType
        BY <1>1 DEF RowsTyped, UsersIn
      <3> QED BY <3>1 DEF AcctType
    <2>2. user \in 1..fresh' /\ r \in 1..fresh'
      BY <1>1, <1>3 DEF RowsTyped, CodesIn, Stored
    <2>3. Begin(w, "changePassword", job)
      BY <1>8, Zenon
    <2> HIDE DEF done, user, acct, plan
    <2>4. IsJob(h) /\ h.plan = plan /\ h.rec = r /\ h.user = user /\ h.row = done /\ h.to = NoAddress
      <3>1. IsJob(h) /\ h.plan = plan
        BY HoldingOK
      <3>2. h = [NoJob EXCEPT !.plan = plan, !.user = user, !.rec = r, !.row = done]
        BY DEF Holding, user
      <3>3. NoJob.to = NoAddress /\ IsJob(NoJob)
        BY NoJobOK DEF NoJob
      <3> HIDE DEF h
      <3> QED BY <3>1, <3>2, <3>3 DEF IsJob, Fields
    <2> HIDE DEF h
    <2>5. /\ IsJob(job) /\ job.plan = plan /\ job.rec = r /\ job.user = user /\ job.row = done /\ job.to = NoAddress
          /\ job.acct = acct
      BY <2>4 DEF IsJob, Fields
    <2> HIDE DEF job
    <2>6. /\ k.plan = plan /\ k.rec = r /\ k.user = user /\ k.row = done /\ k.to = NoAddress /\ k.acct = acct
      BY <2>5 DEF IsJob, Fields
    <2> HIDE DEF k
    <2>7. plan \in Changing /\ plan \notin Sending \cup Revising \cup Loading /\ NoAddress \in Addr
      BY DEF plan, Changing, Sending, Revising, Loading, Addr
    <2>8. Carries(fresh', k)
      BY <1>4, <2>1, <2>2, <2>6, <2>7, Zenon DEF Carries
    <2>9. Holds(fresh', k)
      BY <2>6, <2>7, <2>8, Zenon DEF Holds
    <2> QED BY <1>1, <2>3, <2>9, BeginsTyped DEF k
  <1> QED BY <1>2, <1>7, <1>8

LEMMA PostEmailTyped ==
  ASSUME IInv, RowsTyped, NEW w \in Worker, NEW u, NEW a \in Address, PostEmail(w, u, a)
  PROVE  RowsTyped'
  <1> DEFINE plan == <<"saveRow", "revise", "saveRow", "deliver">>
             Row(r) == NewCode(codes[r], fresh')
  <1>1. fresh' = fresh + 1 /\ UNCHANGED <<flow, users, codes, mail, tokens, sessions, clash>>
    BY DEF PostEmail, auth, ghosts
  <1>2. PICK r \in DOMAIN codes : Begin(w, "postEmail", [Holding(r, Row(r), plan) EXCEPT !.to = a])
    BY DEF PostEmail, RowsOf
  <1>3. codes[r] \in Stored(fresh') /\ fresh' \in Nat /\ fresh' \in 0..fresh' /\ a \in Addr /\ fresh' # None
    BY <1>1, Readable, AsBefore DEF Addr, RowsTyped, None
  <1>4. Row(r) \in Stored(fresh') /\ Row(r).code # None
    BY <1>3, Coded
  <1>5. plan \in Revising \ Loading
    BY PlansTyped
  <1> HIDE DEF plan, Row
  <1>6. Begin(w, "postEmail", SentTo(Holding(r, Row(r), plan), a))
    BY <1>2, Zenon DEF SentTo
  <1> QED BY <1>1, <1>4, <1>5, <1>6, HoldingTyped

LEMMA VerifyEmailTyped ==
  ASSUME IInv, RowsTyped, NEW w \in Worker, NEW u, NEW c, VerifyEmail(w, u, c)
  PROVE  RowsTyped'
  <1> DEFINE loading == <<"loadUser", "saveUser", "saveRow">>
             saves == <<"saveRow">>
             Missed(r) == TooMany(Miss(codes[r]), [Dead(Block(Miss(codes[r]))) EXCEPT !.code = None])
             Done(r) == [Dead(codes[r]) EXCEPT !.done = TRUE]
  <1>1. UNCHANGED <<flow, fresh, users, codes, mail, tokens, sessions, clash>>
    BY DEF VerifyEmail, auth
  <1>2. PICK r \in DOMAIN codes :
          \/ Begin(w, "verifyEmail", Holding(r, Missed(r), saves))
          \/ Begin(w, "verifyEmail", [Holding(r, Done(r), loading) EXCEPT !.code = c])
    BY DEF VerifyEmail, Pending, RowsOf
  <1>3. codes[r] \in Stored(fresh') /\ fresh' \in Nat
    BY <1>1, Readable
  <1>4. Missed(r) \in Stored(fresh')
    BY <1>3, MissedTyped
  <1> DEFINE dead == Dead(codes[r])
  <1>5. dead \in Stored(fresh')
    BY <1>3, Copied
  <1> HIDE DEF dead
  <1>6. [dead EXCEPT !.done = TRUE] \in Stored(fresh')
    BY <1>3, <1>5, Copied
  <1>7. Done(r) \in Stored(fresh')
    BY <1>6 DEF dead
  <1>8. saves \in Saving \ Loading /\ loading \in Loading /\ "verifyEmail" \in Loaders
    BY PlansTyped DEF Loaders
  <1> HIDE DEF Missed, Done, saves, loading
  <1>9. CASE Begin(w, "verifyEmail", Holding(r, Missed(r), saves))
    BY <1>1, <1>4, <1>8, <1>9, HoldingTyped
  <1>10. CASE Begin(w, "verifyEmail", [Holding(r, Done(r), loading) EXCEPT !.code = c])
    <2>1. Begin(w, "verifyEmail", WithCode(Holding(r, Done(r), loading), c))
      BY <1>10, Zenon DEF WithCode
    <2> QED BY <1>1, <1>7, <1>8, <2>1, HoldingTyped
  <1> QED BY <1>2, <1>9, <1>10

LEMMA ResendEmailTyped ==
  ASSUME IInv, RowsTyped, NEW w \in Worker, NEW u, ResendEmail(w, u)
  PROVE  RowsTyped'
  <1> DEFINE plan == <<"saveRow", "revise", "saveRow", "deliver">>
             saves == <<"saveRow">>
             Spent(r) == [Dead(Block(codes[r])) EXCEPT !.code = None]
             Row(r) == ResentRow(codes[r])
  <1>1. UNCHANGED <<flow, fresh, users, codes, mail, tokens, sessions, clash>>
    BY DEF ResendEmail, auth, ghosts
  <1>2. PICK r \in DOMAIN codes :
          \/ Begin(w, "resendEmail", Holding(r, Spent(r), saves))
          \/ Begin(w, "resendEmail", Holding(r, Row(r), plan))
    BY DEF ResendEmail, Pending, RowsOf, ResentRow
  <1>3. codes[r] \in Stored(fresh') /\ fresh' \in Nat
    BY <1>1, Readable
  <1>4. CASE Begin(w, "resendEmail", Holding(r, Spent(r), saves))
    <2> DEFINE old == Block(codes[r])
               dead == Dead(old)
    <2>1. old \in Stored(fresh')
      BY <1>3, Copied
    <2> HIDE DEF old
    <2>2. dead \in Stored(fresh')
      BY <1>3, <2>1, Copied
    <2> HIDE DEF dead
    <2>3. [dead EXCEPT !.code = None] \in Stored(fresh')
      BY <1>3, <2>2, Copied
    <2>4. Spent(r) \in Stored(fresh')
      BY <2>3 DEF dead, old
    <2>5. saves \in Saving \ Loading
      BY PlansTyped
    <2> HIDE DEF Spent, saves
    <2> QED BY <1>1, <1>4, <2>4, <2>5, HoldingTyped
  <1>5. CASE Begin(w, "resendEmail", Holding(r, Row(r), plan))
    <2>2. Row(r) \in Stored(fresh')
      BY <1>3, ResentTyped
    <2>3. plan \in Revising \ Loading
      BY PlansTyped
    <2> HIDE DEF Row, plan
    <2> QED BY <1>1, <1>5, <2>2, <2>3, HoldingTyped
  <1> QED BY <1>2, <1>4, <1>5

LEMMA ReviseTyped ==
  ASSUME IInv, RowsTyped, NEW w \in Worker, Revise(w)
  PROVE  RowsTyped'
  <1> DEFINE j == jobs[w]
             n == fresh'
             posted2 == PostedRow(j.row, j.to)
             recoded == NewCode(j.row, n)
  <1>1. /\ On(w, "revise") /\ UNCHANGED <<flow, left, users, codes, mail, tokens, sessions, clash>>
        /\ fresh' = fresh \/ fresh' = fresh + 1
    BY DEF Revise, auth, ghosts
  <1>2. \/ j.kind = "postEmail" /\ n = fresh /\ Proceed(w, [j EXCEPT !.row = posted2])
        \/ j.kind = "resendEmail" /\ n = fresh + 1 /\ Proceed(w, [j EXCEPT !.row = recoded])
    BY DEF Revise, PostedRow
  <1>3. /\ UsersIn(users', n) /\ TokensIn(tokens', n) /\ SessionsIn(sessions', n) /\ CodesIn(codes', n)
        /\ mail' \subseteq Mail(n) /\ clash' \subseteq 1..n /\ Holds(n, j) /\ n \in Nat /\ n \in 0..n /\ left' \in Nat
    BY <1>1, AsBefore DEF RowsTyped
  <1>4. Carries(n, j) /\ j.plan = <<"revise", "saveRow", "deliver">> /\ j.to \in Addr
    BY <1>1, <1>3, ByHead DEF On, Holds
  <1>5. IsJob(j)
    BY DEF IInv, JobsOK, JobOK
  <1>6. /\ j.row \in Stored(n) /\ j.user \in 1..n /\ j.rec \in 1..n
        /\ j.kind = "postEmail" => j.row.code # None
    <2>1. j.plan \in Revising
      BY <1>4 DEF Revising
    <2> QED BY <1>4, <2>1, Zenon DEF Carries
  <1>7. /\ posted2 \in Stored(n) /\ posted2.code = j.row.code
        /\ recoded \in Stored(n) /\ recoded.code = n
    BY <1>3, <1>4, <1>6, PostedTyped, Coded
  <1>8. PICK row \in Stored(n) : row.code # None /\ Proceed(w, [j EXCEPT !.row = row])
    <2>1. fresh + 1 # None
      BY DEF None, RowsTyped
    <2> HIDE DEF posted2, recoded
    <2> QED BY <1>2, <1>6, <1>7, <2>1
  <1> DEFINE job == [j EXCEPT !.row = row]
             k == Advance(job)
  <1>9. IsJob(job) /\ job.plan = j.plan /\ job.to = j.to /\ job.user = j.user /\ job.rec = j.rec /\ job.row = row
    BY <1>5 DEF IsJob, Fields
  <1>10. Proceed(w, job)
    BY <1>8
  <1> HIDE DEF job
  <1>11. Len(j.plan) # 1 /\ Tail(j.plan) = <<"saveRow", "deliver">>
    BY <1>4
  <1>12. k.plan = <<"saveRow", "deliver">> /\ k.to = j.to /\ k.user = j.user /\ k.rec = j.rec /\ k.row = row
    BY <1>9, <1>11, Fieldwise
  <1>13. k.plan \in Sending /\ k.plan \notin Revising \cup Loading \cup Changing
    BY <1>12 DEF Sending, Revising, Loading, Changing
  <1> HIDE DEF k
  <1>14. Carries(n, k)
    BY <1>6, <1>8, <1>12, <1>13, Zenon DEF Carries
  <1>15. Holds(n, k)
    BY <1>4, <1>12, <1>14, Zenon DEF Holds
  <1> QED BY <1>1, <1>3, <1>10, <1>15, Stays DEF Proceed, k

LEMMA ChangeTyped ==
  ASSUME IInv, RowsTyped, NEW w \in Worker, ChangeStep(w)
  PROVE  RowsTyped'
  <1>1. flow.addresses \subseteq Address
    BY FlowsAssumption DEF RowsTyped
  <1> QED BY <1>1, OpenWindowTyped, ChangePasswordTyped, PostEmailTyped, VerifyEmailTyped, ResendEmailTyped, ReviseTyped
       DEF ChangeStep

-----------------------------------------------------------------------------
\* A token put on the blacklist; Sessions closed.
LEMMA TokensTyped ==
  ASSUME RowsTyped, NEW t
  PROVE  /\ TokensIn([tokens EXCEPT ![t].black = TRUE], fresh)
         /\ \A ts : SessionsIn(Close(ts), fresh)
         /\ \A ts : TokensIn([x \in DOMAIN tokens |-> [tokens[x] EXCEPT !.black = @ \/ x \in ts]], fresh)
  <1>1. ASSUME NEW x \in Token(fresh), NEW b \in BOOLEAN
        PROVE  [x EXCEPT !.black = b] \in Token(fresh) /\ x.black \in BOOLEAN
    BY <1>1 DEF Token
  <1>2. ASSUME NEW x \in Session(fresh), NEW b \in BOOLEAN
        PROVE  [x EXCEPT !.open = b] \in Session(fresh) /\ x.open \in BOOLEAN
    BY <1>2 DEF Session
  <1>3. TokensIn(tokens, fresh) /\ SessionsIn(sessions, fresh)
    BY DEF RowsTyped
  <1>4. TokensIn([tokens EXCEPT ![t].black = TRUE], fresh)
    BY <1>1, <1>3 DEF TokensIn
  <1>5. ASSUME NEW ts PROVE SessionsIn(Close(ts), fresh)
    <2>1. ASSUME NEW x \in DOMAIN sessions PROVE [sessions[x] EXCEPT !.open = @ /\ x \notin ts] \in Session(fresh)
      <3>1. sessions[x] \in Session(fresh)
        BY <1>3 DEF SessionsIn
      <3> DEFINE s == sessions[x]
                 b == s.open /\ x \notin ts
      <3>2. b \in BOOLEAN
        BY <1>2, <3>1
      <3> HIDE DEF b
      <3>3. [s EXCEPT !.open = b] \in Session(fresh)
        BY <1>2, <3>1, <3>2
      <3> QED BY <3>3 DEF b
    <2> QED BY <2>1 DEF Close, SessionsIn
  <1>6. ASSUME NEW ts PROVE TokensIn([x \in DOMAIN tokens |-> [tokens[x] EXCEPT !.black = @ \/ x \in ts]], fresh)
    <2>1. ASSUME NEW x \in DOMAIN tokens PROVE [tokens[x] EXCEPT !.black = @ \/ x \in ts] \in Token(fresh)
      <3>1. tokens[x] \in Token(fresh)
        BY <1>3 DEF TokensIn
      <3> DEFINE s == tokens[x]
                 b == s.black \/ x \in ts
      <3>2. b \in BOOLEAN
        BY <1>1, <3>1
      <3> HIDE DEF b
      <3>3. [s EXCEPT !.black = b] \in Token(fresh)
        BY <1>1, <3>1, <3>2
      <3> QED BY <3>3 DEF b
    <2> QED BY <1>3, <2>1 DEF TokensIn
  <1> QED BY <1>4, <1>5, <1>6

\* A request of a session begins.
LEMMA SessionBegins ==
  ASSUME IInv, RowsTyped, NEW w \in Worker, NEW kind, NEW job, IsJob(job), job.to = NoAddress,
         job.plan \in Closing \/ (job.plan \in Minting /\ job.user \in 1..fresh),
         Begin(w, kind, job), UNCHANGED <<flow, fresh, users, codes, mail, tokens, sessions, clash>>
  PROVE  RowsTyped'
  <1> DEFINE k == [job EXCEPT !.kind = kind]
  <1>1. k.plan = job.plan /\ k.user = job.user /\ k.to = NoAddress
    BY DEF IsJob, Fields
  <1> HIDE DEF k
  <1>2. NoAddress \in Addr
    BY DEF Addr
  <1>3. Holds(fresh', k)
    BY <1>1, <1>2, Zenon DEF Holds
  <1> QED BY <1>3, BeginsTyped DEF k

LEMMA MintTyped ==
  ASSUME IInv, RowsTyped, NEW w \in Worker, Mint(w)
  PROVE  RowsTyped'
  <1> DEFINE j == jobs[w]
             job == [j EXCEPT !.rec = fresh']
             token == [user |-> j.user, black |-> FALSE, rotated |-> FALSE]
             k == Advance(job)
  <1>1. /\ On(w, "mint") /\ Proceed(w, job) /\ fresh' = fresh + 1 /\ tokens' = Put(tokens, fresh', token)
        /\ UNCHANGED <<flow, left, users, codes, mail, sessions, clash>>
    BY DEF Mint, ghosts
  <1>2. /\ UsersIn(users', fresh') /\ CodesIn(codes', fresh') /\ TokensIn(tokens, fresh') /\ fresh' \in Nat
        /\ SessionsIn(sessions', fresh') /\ mail' \subseteq Mail(fresh') /\ clash' \subseteq 1..fresh'
        /\ left' \in Nat /\ Holds(fresh', j)
    BY <1>1, AsBefore DEF RowsTyped
  <1>3. j.plan = <<"mint", "record">> /\ j.user \in 1..fresh' /\ j.to \in Addr /\ IsJob(j)
    BY <1>1, <1>2, ByHead DEF On, Holds, IInv, JobsOK, JobOK
  <1>4. token \in Token(fresh')
    BY <1>3 DEF Token
  <1>5. fresh' \in 1..fresh'
    BY <1>1 DEF RowsTyped
  <1> HIDE DEF token
  <1>6. TokensIn(tokens', fresh')
    BY <1>1, <1>2, <1>4, <1>5, PutTyped
  <1>7. IsJob(job) /\ job.plan = j.plan /\ job.to = j.to /\ job.user = j.user
    BY <1>3 DEF IsJob, Fields
  <1> HIDE DEF job
  <1>8. Len(job.plan) # 1 /\ Tail(job.plan) = <<"record">>
    <2>1. job.plan = <<"mint", "record">>
      BY <1>3, <1>7
    <2> QED BY <2>1
  <1>9. k.plan = <<"record">> /\ k.to = j.to /\ k.user = j.user
    BY <1>7, <1>8, Fieldwise
  <1>10. <<"record">> \in Minting
    BY DEF Minting
  <1> HIDE DEF k
  <1>11. Holds(fresh', k)
    BY <1>3, <1>9, <1>10, Zenon DEF Holds
  <1> QED BY <1>1, <1>2, <1>6, <1>11, Stays DEF Proceed, k

LEMMA RecordTyped ==
  ASSUME IInv, RowsTyped, NEW w \in Worker, Record(w)
  PROVE  RowsTyped'
  <1> DEFINE j == jobs[w]
             session == [user |-> j.user, open |-> TRUE]
  <1>1. /\ On(w, "record") /\ Proceed(w, j) /\ UNCHANGED <<flow, left, fresh, users, codes, mail, tokens, clash>>
        /\ sessions' = sessions \/ sessions' = Put(sessions, j.rec, session)
    BY DEF Record, ghosts
  <1>2. /\ UsersIn(users', fresh') /\ CodesIn(codes', fresh') /\ TokensIn(tokens', fresh') /\ fresh \in Nat
        /\ SessionsIn(sessions, fresh) /\ mail' \subseteq Mail(fresh') /\ clash' \subseteq 1..fresh'
        /\ Holds(fresh, j)
    BY <1>1 DEF RowsTyped
  <1>3. j.user \in 1..fresh /\ j.plan \in Minting /\ IsJob(j)
    BY <1>1, <1>2, ByHead DEF On, IInv, JobsOK, JobOK
  <1>4. session \in Session(fresh)
    BY <1>3 DEF Session
  <1> HIDE DEF session
  <1>5. SessionsIn(Put(sessions, j.rec, session), fresh)
    BY <1>2, <1>4 DEF SessionsIn, Put
  <1>6. SessionsIn(sessions', fresh') /\ Holds(fresh', j)
    BY <1>1, <1>2, <1>5
  <1> QED BY <1>1, <1>2, <1>3, <1>6, GoesOnTyped

LEMMA RotateTyped ==
  ASSUME IInv, RowsTyped, NEW w \in Worker, Rotate(w)
  PROVE  RowsTyped'
  <1> DEFINE j == jobs[w]
             token == [user |-> j.user, black |-> FALSE, rotated |-> TRUE]
             old == [tokens EXCEPT ![j.rec].black = TRUE]
  <1>1. /\ On(w, "rotate") /\ Proceed(w, j) /\ fresh' = fresh + 1 /\ tokens' = Put(old, fresh', token)
        /\ UNCHANGED <<flow, left, users, codes, mail, sessions, clash>>
    BY DEF Rotate, ghosts
  <1>2. /\ UsersIn(users', fresh') /\ CodesIn(codes', fresh') /\ fresh' \in Nat
        /\ SessionsIn(sessions', fresh') /\ mail' \subseteq Mail(fresh') /\ clash' \subseteq 1..fresh'
        /\ Holds(fresh', j)
    BY <1>1, AsBefore
  <1>3. j.user \in 1..fresh' /\ j.plan \in Minting /\ IsJob(j)
    BY <1>1, <1>2, ByHead DEF On, IInv, JobsOK, JobOK
  <1>4. token \in Token(fresh') /\ fresh' \in 1..fresh'
    BY <1>1, <1>3 DEF Token, RowsTyped
  <1>5. TokensIn(old, fresh')
    <2>1. TokensIn(old, fresh)
      BY TokensTyped
    <2> HIDE DEF old
    <2> QED BY <1>1, <2>1, Wider DEF RowsTyped
  <1> HIDE DEF token, old
  <1>6. TokensIn(tokens', fresh')
    BY <1>1, <1>2, <1>4, <1>5, PutTyped
  <1> QED BY <1>1, <1>2, <1>3, <1>6, GoesOnTyped

LEMMA SessionTyped ==
  ASSUME IInv, RowsTyped, NEW w \in Worker, SessionStep(w)
  PROVE  RowsTyped'
  <1> DEFINE j == jobs[w]
  <1>1. ASSUME NEW plan, NEW user
        PROVE  /\ IsJob([NoJob EXCEPT !.plan = plan, !.user = user])
               /\ [NoJob EXCEPT !.plan = plan, !.user = user].plan = plan
               /\ [NoJob EXCEPT !.plan = plan, !.user = user].user = user
               /\ [NoJob EXCEPT !.plan = plan, !.user = user].to = NoAddress
    <2>1. NoJob.to = NoAddress /\ IsJob(NoJob)
      BY NoJobOK DEF NoJob
    <2> QED BY <2>1 DEF IsJob, Fields
  <1>2. ASSUME NEW u, NEW p, Login(w, u, p) PROVE RowsTyped'
    <2> DEFINE plan == <<"mint", "record">>
               job == [NoJob EXCEPT !.plan = plan, !.user = u]
    <2>1. Begin(w, "login", job) /\ UNCHANGED <<flow, fresh, users, codes, mail, tokens, sessions, clash>>
      BY <1>2, Zenon DEF Login, auth, ghosts
    <2>2. u \in 1..fresh
      BY <1>2 DEF Login, Active, Has, RowsTyped, UsersIn
    <2>3. plan \in Minting
      BY DEF Minting
    <2> HIDE DEF plan
    <2>4. IsJob(job) /\ job.plan = plan /\ job.user = u /\ job.to = NoAddress
      BY <1>1
    <2> HIDE DEF job
    <2> QED BY <2>1, <2>2, <2>3, <2>4, SessionBegins
  <1>3. ASSUME NEW t \in DOMAIN tokens, Refresh(w, t) \/ Logout(w, t) PROVE RowsTyped'
    <2> DEFINE user == tokens[t].user
               Job(plan) == [NoJob EXCEPT !.plan = plan, !.user = user, !.rec = t]
    <2>1. user \in 1..fresh
      BY DEF RowsTyped, TokensIn, Token
    <2>2. ASSUME NEW kind, NEW plan \in Minting \cup Closing, Begin(w, kind, Job(plan)),
                 UNCHANGED <<flow, fresh, users, codes, mail, tokens, sessions, clash>>
          PROVE  RowsTyped'
      <3> DEFINE job == Job(plan)
      <3> HIDE DEF user
      <3>1. IsJob(job) /\ job.plan = plan /\ job.user = user /\ job.to = NoAddress
        <4>1. NoJob.to = NoAddress /\ IsJob(NoJob)
          BY NoJobOK DEF NoJob
        <4> QED BY <4>1 DEF IsJob, Fields
      <3>2. Begin(w, kind, job)
        BY <2>2
      <3> HIDE DEF job
      <3> QED BY <2>1, <2>2, <3>1, <3>2, SessionBegins
    <2>3. CASE Refresh(w, t)
      <3>1. UNCHANGED <<flow, fresh, users, codes, mail, tokens, sessions, clash>>
        BY <2>3 DEF Refresh, auth, ghosts
      <3>2. Begin(w, "refresh", Job(<<"rotate">>))
        BY <2>3, Zenon DEF Refresh
      <3>3. <<"rotate">> \in Minting \cup Closing
        BY DEF Minting
      <3> HIDE DEF Job
      <3> QED BY <2>2, <3>1, <3>2, <3>3
    <2>4. CASE Logout(w, t)
      <3>1. UNCHANGED <<flow, fresh, users, codes, mail, tokens, sessions, clash>>
        BY <2>4 DEF Logout, auth, ghosts
      <3>2. Begin(w, "logout", Job(<<"blacklist", "close">>))
        BY <2>4, Zenon DEF Logout
      <3>3. <<"blacklist", "close">> \in Minting \cup Closing
        BY DEF Closing
      <3> HIDE DEF Job
      <3> QED BY <2>2, <3>1, <3>2, <3>3
    <2> QED BY <1>3, <2>3, <2>4
  <1>4. CASE Blacklist(w) \/ CloseSession(w)
    <2>1. PICK step \in {"blacklist", "close"} : On(w, step) /\ Proceed(w, j)
      BY <1>4 DEF Blacklist, CloseSession
    <2>2. UNCHANGED <<flow, left, fresh, users, codes, mail, clash>>
      BY <1>4 DEF Blacklist, CloseSession, ghosts
    <2>3. TokensIn(tokens', fresh') /\ SessionsIn(sessions', fresh')
      <3>1. \/ tokens' = [tokens EXCEPT ![j.rec].black = TRUE] /\ sessions' = sessions
            \/ tokens' = tokens /\ sessions' = Close({j.rec})
        BY <1>4 DEF Blacklist, CloseSession
      <3>2. TokensIn(tokens, fresh) /\ SessionsIn(sessions, fresh)
        BY DEF RowsTyped
      <3> QED BY <2>2, <3>1, <3>2, TokensTyped
    <2>4. /\ UsersIn(users', fresh') /\ CodesIn(codes', fresh') /\ mail' \subseteq Mail(fresh')
          /\ clash' \subseteq 1..fresh' /\ Holds(fresh', j) /\ IsJob(j)
      BY <2>2 DEF RowsTyped, IInv, JobsOK, JobOK
    <2> QED BY <2>1, <2>2, <2>3, <2>4, GoesOnTyped
  <1>5. ASSUME NEW u, LogoutAll(w, u) PROVE RowsTyped'
    <2> DEFINE ts == {t \in DOMAIN sessions : sessions[t].user = u /\ sessions[t].open}
    <2>1. /\ UNCHANGED <<flow, fresh, users, codes, mail, jobs, clash>> /\ left' \in Nat
          /\ tokens' = [t \in DOMAIN tokens |-> [tokens[t] EXCEPT !.black = @ \/ t \in ts]]
          /\ sessions' = Close(ts)
      BY <1>5 DEF LogoutAll, MayBegin, ghosts, RowsTyped
    <2> HIDE DEF ts
    <2>2. TokensIn(tokens', fresh) /\ SessionsIn(sessions', fresh)
      BY <2>1, TokensTyped
    <2> QED BY <2>1, <2>2 DEF RowsTyped
  <1> QED BY <1>2, <1>3, <1>4, <1>5, MintTyped, RecordTyped, RotateTyped DEF SessionStep

\* Time changes one record.
LEMMA TimeTyped ==
  ASSUME RowsTyped, Time
  PROVE  RowsTyped'
  <1>1. PICK r, row :
          /\ r \in DOMAIN codes
          /\ Pass(r, row)
          /\ \/ row = Dead(codes[r])
             \/ row = [codes[r] EXCEPT !.window = "lapsed"]
             \/ row = [codes[r] EXCEPT !.blocked = FALSE]
             \/ row = [codes[r] EXCEPT !.age = IF @ = "new" THEN "recent" ELSE "old"]
    BY DEF Time, Lapse, Die, Unblock, Age
  <1> DEFINE was == codes[r]
             age == IF was.age = "new" THEN "recent" ELSE "old"
  <1>2. was \in Stored(fresh)
    BY <1>1 DEF RowsTyped, CodesIn
  <1> HIDE DEF was
  <1>3. /\ Dead(was) \in Stored(fresh) /\ [was EXCEPT !.window = "lapsed"] \in Stored(fresh)
        /\ [was EXCEPT !.blocked = FALSE] \in Stored(fresh)
    BY <1>2 DEF Stored, Dead
  <1>4. [was EXCEPT !.age = age] \in Stored(fresh)
    <2>1. age \in {"new", "recent", "old"}
      OBVIOUS
    <2> HIDE DEF age
    <2> QED BY <1>2, <2>1 DEF Stored
  <1>5. row \in Stored(fresh)
    BY <1>1, <1>3, <1>4 DEF was
  <1>6. /\ codes' = [codes EXCEPT ![r] = row]
        /\ UNCHANGED <<flow, left, fresh, users, mail, jobs, tokens, sessions, clash>>
    BY <1>1 DEF Pass, auth, ghosts
  <1>7. CodesIn(codes', fresh)
    BY <1>5, <1>6 DEF RowsTyped, CodesIn
  <1> QED BY <1>6, <1>7 DEF RowsTyped

LEMMA NextTyped == IInv /\ Copies /\ RowsTyped /\ [Next]_vars => RowsTyped'
  <1> SUFFICES ASSUME IInv, Copies, RowsTyped, [Next]_vars PROVE RowsTyped'
    OBVIOUS
  <1>1. CASE UNCHANGED vars
    BY <1>1 DEF vars, RowsTyped
  <1>2. CASE Next
    BY <1>2, RowStepTyped, RegistrationTyped, ChangeTyped, SessionTyped, TimeTyped DEF Next
  <1> QED BY <1>1, <1>2

LEMMA InitTyped == Init => RowsTyped
  <1> SUFFICES ASSUME Init PROVE RowsTyped
    OBVIOUS
  <1> DEFINE n == Len(flow.members)
             Old(i) == [NewRow("register") EXCEPT !.user = i, !.code = n + i, !.window = "dead"]
  <1>1. flow \in Flows /\ left = flow.budget /\ fresh = 2 * n /\ clash = {} /\ tokens = <<>> /\ sessions = <<>>
        /\ jobs = [w \in Worker |-> NoJob]
    BY Zenon DEF Init
  <1>2. PICK p \in Password : users = [i \in 1..n |-> [email |-> flow.members[i], active |-> TRUE, pw |-> p]]
    BY Zenon DEF Init
  <1>3. codes = [r \in n + 1..2 * n |-> Old(r - n)]
    BY Zenon DEF Init
  <1>4. mail = {[to |-> flow.members[i], code |-> n + i, user |-> i, kind |-> "register", again |-> FALSE] : i \in 1..n}
    BY Zenon DEF Init
  <1>5. n \in Nat /\ left \in Nat /\ \A i \in 1..n : flow.members[i] \in Address
    <2>1. flow.members \in Seq(Address) /\ flow.budget \in Nat
      BY <1>1, FlowsAssumption
    <2> QED BY <1>1, <2>1
  <1>6. "register" \in Kinds
    BY DEF Kinds, CodeKinds, OtpKinds
  <1> HIDE DEF n
  <1>7. UsersIn(users, fresh)
    BY <1>1, <1>2, <1>5 DEF UsersIn, AcctType
  <1>8. CodesIn(codes, fresh)
    <2>1. ASSUME NEW i \in 1..n PROVE Old(i) \in Stored(fresh)
      <3> DEFINE row == Filled(NewRow("register"), i, n + i)
      <3>1. i \in 1..fresh /\ n + i \in 0..fresh
        BY <1>1, <1>5
      <3>2. row \in Stored(fresh)
        BY <1>6, <3>1, Drafted
      <3>3. Old(i) = [row EXCEPT !.window = "dead"]
        BY DEF Filled, NewRow
      <3> HIDE DEF row, Old
      <3>4. [row EXCEPT !.window = "dead"] \in Stored(fresh)
        BY <3>2 DEF Stored
      <3> QED BY <3>3, <3>4
    <2>2. \A r \in n + 1..2 * n : r - n \in 1..n /\ r \in 1..fresh
      BY <1>1, <1>5
    <2> HIDE DEF Old
    <2> QED BY <1>3, <2>1, <2>2 DEF CodesIn
  <1>9. mail \subseteq Mail(fresh)
    <2>1. \A i \in 1..n : i \in 1..fresh /\ n + i \in 1..fresh
      BY <1>1, <1>5
    <2>2. ASSUME NEW i \in 1..n
          PROVE  [to |-> flow.members[i], code |-> n + i, user |-> i, kind |-> "register", again |-> FALSE]
                   \in Mail(fresh)
      BY <1>5, <1>6, <2>1 DEF Mail, Addr
    <2> QED BY <1>4, <2>2
  <1>10. TokensIn(tokens, fresh) /\ SessionsIn(sessions, fresh)
    BY <1>1 DEF TokensIn, SessionsIn
  <1>11. \A w \in Worker : Holds(fresh, jobs[w])
    BY <1>1, NoJobHolds
  <1> QED BY <1>1, <1>5, <1>7, <1>8, <1>9, <1>10, <1>11 DEF RowsTyped

\* Whatever requests overlap, die or find their rows gone, every row and every
\* mail is well formed and names drawn identifiers only: a record is inserted
\* with the user it is for, a code is mailed only once it was drawn, and every
\* Session is that of a token.
THEOREM TypeOKHolds == Spec => []TypeOK
  <1>1. IInv /\ Copies /\ RowsTyped => TypeOK
    <2> SUFFICES ASSUME IInv, Copies, RowsTyped PROVE TypeOK
      OBVIOUS
    <2>1. DOMAIN jobs = Worker /\ DOMAIN sessions \subseteq DOMAIN tokens /\ DOMAIN users \subseteq DOMAIN told
      BY DEF IInv, JobsOK, SessionsOK, Copies, ToldOK
    <2> QED BY <2>1 DEF RowsTyped, UsersIn, CodesIn, TokensIn, SessionsIn, TypeOK, Stored, RowType, Token, Mail,
                        Session, SessionType, Addr, Kinds
  <1> QED BY <1>1, InitInv, NextInv, InitCopies, NextCopies, InitTyped, NextTyped, PTL DEF Spec
=============================================================================
