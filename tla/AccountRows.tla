---------------------------- MODULE AccountRows ----------------------------
(***************************************************************************)
(* The rows behind registration, one-time codes, password and e-mail       *)
(* change (apps/users/models.py), and how the views of api/auth/views      *)
(* work on them.                                                           *)
(*                                                                         *)
(* No view opens a transaction: a request reads rows into memory, decides, *)
(* and writes WHOLE rows back, statement by statement, while other         *)
(* requests do the same.  A request in flight is a job: the rows it holds  *)
(* in memory and the plan of statements it has still to run.  A request    *)
(* the code answers with an error and no write is no step at all.          *)
(*                                                                         *)
(* Clock times are kept as what the code tells apart: a code is live,      *)
(* lapsed (by at most five minutes) or dead; a record is new (half an      *)
(* hour), recent (three days) or old; a block is on or off.  They change   *)
(* by the steps of Time.                                                   *)
(***************************************************************************)
EXTENDS Integers, Sequences, FiniteSets, FiniteSetsExt

CONSTANTS Address,     \* e-mail addresses
          NoAddress,   \* the empty string
          Password,    \* passwords that pass the rules for passwords
          Worker,      \* requests that may be in flight at once
          Flows,       \* the mixes of requests that are explored
          MaxWrong,    \* wrong codes forgiven (6 in the code)
          MaxResend,   \* resends before a block (3 in the code)
          MaxOpens     \* re-opened windows before a block (5 in the code)

(* A mix names the users verified before, by address, the addresses that   *)
(* requests use, and how many requests are made.                           *)
ASSUME FlowsAssumption ==
  \A f \in Flows : f.members \in Seq(Address) /\ f.addresses \subseteq Address /\ f.budget \in Nat

ASSUME LimitsAssumption == MaxWrong \in Nat /\ MaxResend \in Nat

VARIABLES flow,      \* the mix of requests of this behaviour; never changes
          left,      \* requests that may still be made: bounds a behaviour
          fresh,     \* the last identifier or code drawn
          users,     \* User rows
          codes,     \* the rows of the four tables of codes and change logs
          mail,      \* mails that have arrived
          jobs,      \* requests in flight
          tokens,    \* refresh tokens: whose, and whether blacklisted
          sessions,  \* Session rows, named by the token in refresh_jti
          told,      \* what the answers have told each user of his account
          clash,     \* rows saved from a copy another request then saved over
          guesses,   \* wrong codes answered, by record and round, while a code was live
          posted     \* the right codes posted, with their records

ghosts == <<told, clash, guesses, posted>>
auth == <<tokens, sessions>>

Wrong == -1
None == 0

OtpKinds == {"register", "forget"}                  \* UserOTPVerifications
CodeKinds == OtpKinds \cup {"link"}                 \* and UserOTPIDVerifications
LogKinds == {"password", "email"}                   \* ChangePasswordLogs, ChangeEmailLogs

(* One record for the four tables.  done is for_forget_password_verified   *)
(* of a forgotten-password code and is_changed of a change log.  A code    *)
(* record is created expired, and without its code.                        *)
NewRow(kind) ==
  [kind |-> kind, user |-> None, code |-> None, window |-> IF kind \in OtpKinds THEN "lapsed" ELSE "live",
   attapts |-> 0, resend |-> 0, blocked |-> FALSE, done |-> FALSE, to |-> NoAddress, age |-> "new"]

NoAcct == [email |-> NoAddress, active |-> FALSE, pw |-> NoAddress]
NoJob == [kind |-> "none", plan |-> <<>>, user |-> None, acct |-> NoAcct, rec |-> None,
          row |-> NewRow("none"), to |-> NoAddress, pw |-> NoAddress, code |-> None]

Put(f, k, v) == [x \in DOMAIN f \cup {k} |-> IF x = k THEN v ELSE f[x]]

Has(u) == u \in DOMAIN users
At(a) == {u \in DOMAIN users : users[u].email = a}
Active(u) == Has(u) /\ users[u].active
RowsOf(us, kinds) == {r \in DOMAIN codes : codes[r].user \in us /\ codes[r].kind \in kinds}
IsLast(r, S) == S # {} /\ r = Max(S)
Live(row) == row.window = "live"
Block(row) == [row EXCEPT !.blocked = TRUE, !.attapts = 0]
Dead(row) == [row EXCEPT !.window = "dead"]
NewCode(row, code) == [row EXCEPT !.code = code, !.window = "live"]
Typed == {m.code : m \in mail} \cup {Wrong}         \* what a user may type

(* What a record's count of wrong codes is about: its code - and, for an   *)
(* e-mail change, the resends asked for, since a resend sets the count back *)
(* before it saves the new code, and may die in between.                   *)
Round(row) == <<row.code, IF row.kind = "email" THEN row.resend ELSE 0>>

-----------------------------------------------------------------------------
(* A request arrives: its first read and the checks on it are one step.    *)
MayBegin(w, kind) ==
  /\ kind \in flow.kinds
  /\ left > 0
  /\ jobs[w].plan = <<>>
  /\ Cardinality({v \in Worker : jobs[v].plan # <<>>}) < flow.width
  /\ left' = left - 1

Begin(w, kind, job) ==
  /\ MayBegin(w, kind)
  /\ jobs' = [jobs EXCEPT ![w] = [job EXCEPT !.kind = kind]]

(* The usual request holds record r of user u, changed in memory to row.   *)
Holding(r, row, plan) ==
  [NoJob EXCEPT !.plan = plan, !.user = codes[r].user, !.rec = r, !.row = row]

On(w, step) == jobs[w].plan # <<>> /\ Head(jobs[w].plan) = step
Advance(job) == IF Len(job.plan) = 1 THEN NoJob ELSE [job EXCEPT !.plan = Tail(@)]
Proceed(w, job) == jobs' = [jobs EXCEPT ![w] = Advance(job)]
Stop(w) == jobs' = [jobs EXCEPT ![w] = NoJob]

(* A user's row goes with everything that refers to it (on_delete=CASCADE).*)
DeleteUser(u) ==
  /\ users' = [v \in DOMAIN users \ {u} |-> users[v]]
  /\ codes' = [r \in {q \in DOMAIN codes : codes[q].user # u} |-> codes[r]]
  /\ sessions' = [t \in {s \in DOMAIN sessions : sessions[s].user # u} |-> sessions[t]]

-----------------------------------------------------------------------------
(* The statements a job runs.                                              *)

(* The registration deletes the inactive user it found at the address.     *)
Clear(w) ==
  /\ On(w, "clear")
  /\ DeleteUser(jobs[w].user)
  /\ Proceed(w, jobs[w])
  /\ UNCHANGED <<flow, left, fresh, mail, tokens, ghosts>>

(* The new user is inserted, unless the address is taken by now.           *)
Create(w) ==
  /\ On(w, "create")
  /\ IF At(jobs[w].to) # {}
     THEN Stop(w) /\ UNCHANGED <<fresh, users, told>>
     ELSE LET new == [email |-> jobs[w].to, active |-> FALSE, pw |-> jobs[w].pw] IN
          /\ fresh' = fresh + 1
          /\ users' = Put(users, fresh', new)
          /\ told' = Put(told, fresh', new)
          /\ Proceed(w, [jobs[w] EXCEPT !.user = fresh'])
  /\ UNCHANGED <<flow, left, codes, mail, auth, clash, guesses, posted>>

(* A record is inserted: a link with its code; a code record without, for  *)
(* generate_code draws the code only then, in memory, to be saved.         *)
Issue(w) ==
  LET job == jobs[w]
      row == [job.row EXCEPT !.user = job.user, !.code = IF job.row.kind = "link" THEN fresh' ELSE None]
      drawn == IF row.kind \in OtpKinds THEN NewCode(row, fresh') ELSE row IN
  /\ On(w, "issue")
  /\ fresh' = fresh + 1
  /\ IF Has(job.user)
     THEN codes' = Put(codes, fresh', row) /\ Proceed(w, [job EXCEPT !.rec = fresh', !.row = drawn])
     ELSE Stop(w) /\ UNCHANGED codes                          \* foreign key
  /\ UNCHANGED <<flow, left, users, mail, auth, ghosts>>

\* Mutant of LoadUser: the new password of a reset is not set.
LoadUserUnchanged(w) ==
  LET job == jobs[w]
      acct == users[job.user] IN
  /\ On(w, "loadUser")
  /\ IF ~Has(job.user)
     THEN Stop(w)
     ELSE Proceed(w, [job EXCEPT
            !.to = acct.email,
            !.acct = CASE job.kind \in {"verify", "link"} -> [acct EXCEPT !.active = TRUE]
                       [] job.kind = "setForget"          -> acct
                       [] job.kind = "verifyEmail"        -> [acct EXCEPT !.email = job.row.to]])
  /\ UNCHANGED <<flow, left, fresh, users, codes, mail, auth, ghosts>>

(* The record's user is read, and changed in memory as the request asks.   *)
LoadUser(w) ==
  LET job == jobs[w]
      acct == users[job.user] IN
  /\ On(w, "loadUser")
  /\ IF ~Has(job.user)
     THEN Stop(w)
     ELSE Proceed(w, [job EXCEPT
            !.to = acct.email,
            !.acct = CASE job.kind \in {"verify", "link"} -> [acct EXCEPT !.active = TRUE]
                       [] job.kind = "setForget"          -> [acct EXCEPT !.pw = job.pw]
                       [] job.kind = "verifyEmail"        -> [acct EXCEPT !.email = job.row.to]])
  /\ UNCHANGED <<flow, left, fresh, users, codes, mail, auth, ghosts>>

HoldsUser(v, u) == jobs[v].user = u /\ On(v, "saveUser")
HoldsRow(v, r) ==
  LET plan == jobs[v].plan IN
  jobs[v].rec = r /\ \E i \in DOMAIN plan : plan[i] = "saveRow" /\ \A k \in 1..i : plan[k] # "renew"

(* User.save(): the whole row is updated, or inserted again if it is gone. *)
SaveUser(w) ==
  LET job == jobs[w]
      u == job.user
      acct == job.acct IN
  /\ On(w, "saveUser")
  /\ IF At(acct.email) \ {u} # {}
     THEN Stop(w) /\ UNCHANGED <<users, told, clash>>         \* the address is unique
     ELSE /\ users' = Put(users, u, acct)
          /\ told' = [told EXCEPT ![u] =
               CASE job.kind \in {"verify", "link"}              -> [@ EXCEPT !.active = TRUE]
                 [] job.kind \in {"setForget", "changePassword"} -> [@ EXCEPT !.pw = job.pw]
                 [] job.kind = "verifyEmail"                     -> [@ EXCEPT !.email = job.row.to]]
          /\ clash' = clash \cup (IF \E v \in Worker \ {w} : HoldsUser(v, u) THEN {u} ELSE {})
          /\ Proceed(w, job)
  /\ UNCHANGED <<flow, left, fresh, codes, mail, auth, guesses, posted>>

(* save() of a record: the whole row again.  If it went with its user, the *)
(* insert fails on the foreign key.  A wrong code is answered now.         *)
SaveRow(w) ==
  LET job == jobs[w]
      r == job.rec
      missed == job.kind \in {"verify", "verifyEmail"} /\ job.code = None
      k == <<r, Round(codes[r])>> IN
  /\ On(w, "saveRow")
  /\ IF ~Has(job.user)
     THEN Stop(w) /\ UNCHANGED <<codes, clash, guesses>>
     ELSE /\ codes' = Put(codes, r, job.row)
          /\ clash' = clash \cup (IF \E v \in Worker \ {w} : HoldsRow(v, r) THEN {r} ELSE {})
          /\ guesses' = IF missed /\ r \in DOMAIN codes /\ Live(codes[r]) /\ codes[r].code # None
                        THEN Put(guesses, k, (IF k \in DOMAIN guesses THEN guesses[k] ELSE 0) + 1)
                        ELSE guesses
          /\ Proceed(w, job)
  /\ UNCHANGED <<flow, left, fresh, users, mail, auth, told, posted>>

\* Mutant of Recipient: the code for a new address goes to the old one.
RecipientPresent(job) == IF job.kind = "register" THEN job.to ELSE users[job.user].email

(* The address the mail of a request goes to.                              *)
Recipient(job) ==
  IF job.kind \in {"register", "postEmail"} THEN job.to ELSE users[job.user].email

(* The mail arrives; or it is queued for Celery and never does; or sending *)
(* raises, which ends the request - a registration after deleting the user *)
(* it made.                                                                *)
Deliver(w) ==
  LET job == jobs[w]
      go == Proceed(w, IF job.kind = "resend" THEN [job EXCEPT !.row.resend = @ + 1] ELSE job) IN
  /\ On(w, "deliver")
  /\ \/ /\ job.kind \notin {"register", "postEmail"} => Has(job.user)
        /\ mail' = mail \cup {[to |-> Recipient(job), code |-> job.row.code, user |-> job.user,
                               kind |-> job.row.kind, again |-> job.kind = "resendEmail"]}
        /\ go
        /\ UNCHANGED <<users, codes, sessions>>
     \/ /\ job.kind \in {"register", "resend", "resendEmail"}
        /\ go
        /\ UNCHANGED <<users, codes, sessions, mail>>
     \/ /\ IF job.kind = "register" THEN DeleteUser(job.user) ELSE UNCHANGED <<users, codes, sessions>>
        /\ Stop(w)
        /\ UNCHANGED mail
  /\ UNCHANGED <<flow, left, fresh, tokens, ghosts>>

(* The process serving a request dies: nothing is left but what was saved. *)
Abandon(w) ==
  /\ jobs[w].plan # <<>>
  /\ Stop(w)
  /\ UNCHANGED <<flow, left, fresh, users, codes, mail, auth, ghosts>>

RowStep(w) ==
  Clear(w) \/ Create(w) \/ Issue(w) \/ LoadUser(w) \/ SaveUser(w) \/ SaveRow(w) \/ Deliver(w) \/ Abandon(w)

-----------------------------------------------------------------------------
(* Time passes for one record.  A block outlasts the window of its code,   *)
(* and a window outlasts a request that holds its record.                  *)
Pass(r, row) ==
  /\ \A w \in Worker : ~HoldsRow(w, r)
  /\ codes' = [codes EXCEPT ![r] = row]
  /\ UNCHANGED <<flow, left, fresh, users, mail, jobs, auth, ghosts>>

Lapse(r) == "lapse" \in flow.time /\ Live(codes[r]) /\ Pass(r, [codes[r] EXCEPT !.window = "lapsed"])
Die(r) ==
  /\ "die" \in flow.time /\ codes[r].kind \in OtpKinds /\ codes[r].window = "lapsed"
  /\ Pass(r, Dead(codes[r]))
Unblock(r) ==
  /\ "unblock" \in flow.time /\ codes[r].blocked /\ ~Live(codes[r])
  /\ Pass(r, [codes[r] EXCEPT !.blocked = FALSE])
Age(r) ==
  /\ "age" \in flow.time /\ codes[r].kind \in LogKinds /\ ~codes[r].done /\ codes[r].age # "old"
  /\ Pass(r, [codes[r] EXCEPT !.age = IF @ = "new" THEN "recent" ELSE "old"])

Time == left > 0 /\ \E r \in DOMAIN codes : Lapse(r) \/ Die(r) \/ Unblock(r) \/ Age(r)
=============================================================================
