------------------------------ MODULE Accounts ------------------------------
(***************************************************************************)
(* The account endpoints together: registration and recovery, changes by   *)
(* signed-in users, and sessions, over the same User rows and in any       *)
(* overlap.                                                                *)
(***************************************************************************)
EXTENDS AccountChanges, Sessions

vars == <<flow, left, fresh, users, codes, mail, jobs, tokens, sessions, told, clash, guesses, posted>>

(* Users 1..n registered and were verified long ago, by codes n+1..2n.     *)
Init ==
  /\ flow \in Flows
  /\ left = flow.budget
  /\ LET n == Len(flow.members)
         OldCode(i) == [NewRow("register") EXCEPT !.user = i, !.code = n + i, !.window = "dead"] IN
     /\ fresh = 2 * n
     /\ \E p \in Password :
          users = [i \in 1..n |-> [email |-> flow.members[i], active |-> TRUE, pw |-> p]]
     /\ codes = [r \in n + 1..2 * n |-> OldCode(r - n)]
     /\ mail = {[to |-> flow.members[i], code |-> n + i, user |-> i, kind |-> "register", again |-> FALSE] :
                 i \in 1..n}
     /\ posted = {<<n + i, n + i>> : i \in 1..n}
  /\ jobs = [w \in Worker |-> NoJob]
  /\ tokens = <<>> /\ sessions = <<>> /\ guesses = <<>>
  /\ told = users
  /\ clash = {}

Next ==
  \/ \E w \in Worker : RowStep(w) \/ RegistrationStep(w) \/ ChangeStep(w) \/ SessionStep(w)
  \/ Time

Spec == Init /\ [][Next]_vars

-----------------------------------------------------------------------------
AcctType == [email : Address \cup {NoAddress}, active : BOOLEAN, pw : Password]
RowType == [kind : CodeKinds \cup LogKinds, user : 1..fresh, code : 0..fresh, window : {"live", "lapsed", "dead"},
            attapts : Nat, resend : Nat, blocked : BOOLEAN, done : BOOLEAN, to : Address \cup {NoAddress},
            age : {"new", "recent", "old"}]
SessionType == [user : 1..fresh, open : BOOLEAN]

(* The rows, the requests in flight and the tokens keep their types, and   *)
(* every row's identifier was drawn.                                       *)
TypeOK ==
  /\ flow \in Flows /\ left \in Nat /\ fresh \in Nat
  /\ DOMAIN users \subseteq 1..fresh /\ users \in [DOMAIN users -> AcctType]
  /\ DOMAIN codes \subseteq 1..fresh /\ codes \in [DOMAIN codes -> RowType]
  /\ mail \subseteq [to : Address \cup {NoAddress}, code : 1..fresh, user : 1..fresh,
                     kind : CodeKinds \cup LogKinds, again : BOOLEAN]
  /\ DOMAIN jobs = Worker
  /\ DOMAIN tokens \subseteq 1..fresh
  /\ tokens \in [DOMAIN tokens -> [user : 1..fresh, black : BOOLEAN, rotated : BOOLEAN]]
  /\ DOMAIN sessions \subseteq DOMAIN tokens /\ sessions \in [DOMAIN sessions -> SessionType]
  /\ DOMAIN users \subseteq DOMAIN told /\ clash \subseteq 1..fresh

(* What an answer told a user about his account (verified, new address,    *)
(* new password) stays true until he changes it again - unless a request   *)
(* saved the user's whole row from a copy it had read before.  Rows are    *)
(* deleted, re-inserted and saved by eight views; only that overlap loses  *)
(* an update.                                                              *)
AcknowledgedKept == \A u \in DOMAIN users \ clash : users[u] = told[u]

(* A code takes at most MaxWrong + 1 wrong guesses while it is live,       *)
(* through resends, re-opened windows and blocks - unless two requests     *)
(* held its record at once, when a count can be lost.  The resend of an    *)
(* e-mail change sets the count back in one save and stores the new code   *)
(* in the next: if it dies in between, the old code takes that many again, *)
(* but at most MaxResend times.                                            *)
GuessesBounded ==
  \A k \in DOMAIN guesses :
    k[1] \notin clash => guesses[k] <= MaxWrong + 1 /\ k[2][2] \in 0..MaxResend

(* A verified account is deleted only by a registration that was under way *)
(* when it was verified: one that had read it unverified, or the one that  *)
(* made it and then could not send the mail.  register_views.py promises   *)
(* "an already-verified email is rejected, never deleted".                 *)
VerifiedKept ==
  [][\A u \in DOMAIN users : users[u].active /\ u \notin DOMAIN users' =>
       \E w \in Worker :
         /\ jobs[w].kind = "register" /\ jobs[w].user = u
         /\ On(w, "clear") => ~jobs[w].acct.active]_vars

(* An account never verified before becomes active only through a code or  *)
(* link mailed to its address for this very row, not one of an earlier     *)
(* registration of the address.                                            *)
ActivatedByMailedCode ==
  [][\A u \in DOMAIN users' : users'[u].active /\ ~told[u].active =>
       \E w \in Worker, m \in mail :
         /\ jobs[w].user = u /\ On(w, "saveUser")
         /\ m.code = jobs[w].code /\ m.user = u /\ m.to = users'[u].email]_vars

(* A user's address changes only to one whose owner typed the code mailed  *)
(* there; or, after a resend, by the code mailed to the present address,   *)
(* to whatever was posted, the empty address included; or back, by a       *)
(* save from a stale copy; or, when another request held the record of the *)
(* change while an address was posted, to the address posted before: the   *)
(* code is saved first and its address only then, so a wrong guess that    *)
(* read the record in between writes the new code back with the old        *)
(* address.                                                                *)
EmailByMailedCode ==
  [][\A u \in DOMAIN users \cap DOMAIN users' :
       users'[u].email # users[u].email =>
         \/ u \in clash'
         \/ \E w \in Worker, m \in mail :
              /\ jobs[w].user = u /\ On(w, "saveUser")
              /\ m.code = jobs[w].code /\ m.user = u /\ m.kind = "email"
              /\ m.to = users'[u].email \/ m.again \/ jobs[w].rec \in clash]_vars

(* A forgotten password is set only on a record whose own code, mailed to  *)
(* this user, was typed.                                                   *)
ResetByMailedCode ==
  [][\A w \in Worker :
       On(w, "saveUser") /\ jobs[w].kind = "setForget" /\ users' # users =>
         \E m \in mail :
           m.user = jobs[w].user /\ m.kind = "forget" /\ <<jobs[w].rec, m.code>> \in posted]_vars

(* A refresh token that still works and whose Session was recorded shows   *)
(* as an open session: what a log-out-everywhere misses, the next one      *)
(* reaches.  (A rotated token has no Session: it is out of reach.)         *)
UsableTokenListed ==
  \A t \in DOMAIN sessions : ~tokens[t].black => sessions[t].open
=============================================================================
