---------------------------- MODULE Registration ----------------------------
(***************************************************************************)
(* Registration, the codes and links that activate an account, resending   *)
(* them, and the forgotten password: register_views.py,                    *)
(* verifications_views.py, resend_code_views.py, forget_password_views.py. *)
(***************************************************************************)
EXTENDS AccountRows

(* A new user gets a link, or a code: that takes a save more.              *)
Making(type) == IF type = "link" THEN <<"create", "issue", "deliver">>
                                 ELSE <<"create", "issue", "saveRow", "deliver">>

\* Mutant of Register: whoever has the address is deleted, verified or not.
RegisterOver(w, a, type, p) ==
  LET old == At(a) IN
  /\ Begin(w, "register", [NoJob EXCEPT
       !.plan = (IF old = {} THEN <<>> ELSE <<"clear">>) \o Making(type),
       !.user = IF old = {} THEN None ELSE CHOOSE u \in old : TRUE,
       !.acct = IF old = {} THEN NoAcct ELSE users[CHOOSE u \in old : TRUE],
       !.row = NewRow(type), !.to = a, !.pw = p])
  /\ UNCHANGED <<flow, fresh, users, codes, mail, auth, ghosts>>

(* An address is registered, with a code or a link.  A verified user is    *)
(* refused; an unverified one will be deleted first.                       *)
Register(w, a, type, p) ==
  LET old == At(a) IN
  /\ \A u \in old : ~users[u].active
  /\ Begin(w, "register", [NoJob EXCEPT
       !.plan = (IF old = {} THEN <<>> ELSE <<"clear">>) \o Making(type),
       !.user = IF old = {} THEN None ELSE CHOOSE u \in old : TRUE,
       !.acct = IF old = {} THEN NoAcct ELSE users[CHOOSE u \in old : TRUE],
       !.row = NewRow(type), !.to = a, !.pw = p])
  /\ UNCHANGED <<flow, fresh, users, codes, mail, auth, ghosts>>

(* A wrong code is counted, on the copy of the record the request holds.   *)
Miss(row) == [row EXCEPT !.attapts = @ + 1]
\* Mutant of TooMany: one wrong code more is forgiven.
TooManyLate(row, blocked) == IF row.attapts > MaxWrong + 1 THEN blocked ELSE row

TooMany(row, blocked) == IF row.attapts > MaxWrong THEN blocked ELSE row

\* Mutant of Verify: any code that was ever mailed will do.
VerifyAny(w, a, c) ==
  \E r \in RowsOf(At(a), {"register"}) :
    /\ c # Wrong
    /\ ~codes[r].blocked /\ Live(codes[r])
    /\ Begin(w, "verify", [Holding(r, Dead(codes[r]), <<"loadUser", "saveUser", "saveRow">>) EXCEPT !.code = c])
    /\ posted' = posted \cup {<<r, c>>}
    /\ UNCHANGED <<flow, fresh, users, codes, mail, auth, told, clash, guesses>>

(* The code of a registration is entered.                                  *)
Verify(w, a, c) ==
  \E r \in RowsOf(At(a), {"register"}) :
    LET row == codes[r]
        missed == Miss(row) IN
    /\ ~row.blocked
    /\ \/ /\ c # row.code
          /\ Begin(w, "verify", Holding(r,
               TooMany(missed, [Dead(Block(missed)) EXCEPT !.code = None]), <<"saveRow">>))
          /\ UNCHANGED posted
       \/ /\ c = row.code
          /\ Live(row)
          /\ Begin(w, "verify", [Holding(r, Dead(row), <<"loadUser", "saveUser", "saveRow">>)
                                 EXCEPT !.code = c])
          /\ posted' = posted \cup {<<r, c>>}
    /\ UNCHANGED <<flow, fresh, users, codes, mail, auth, told, clash, guesses>>

(* The link of a registration is opened.  Its record is not written: the   *)
(* link works until it lapses.                                             *)
VerifyLink(w, c) ==
  \E r \in DOMAIN codes :
    /\ codes[r].kind = "link"
    /\ codes[r].code = c
    /\ Live(codes[r])
    /\ Begin(w, "link", [Holding(r, codes[r], <<"loadUser", "saveUser">>) EXCEPT !.code = c])
    /\ posted' = posted \cup {<<r, c>>}
    /\ UNCHANGED <<flow, fresh, users, codes, mail, auth, told, clash, guesses>>

(* A resend, or a request on a forgotten password, that comes too often    *)
(* blocks the record.                                                      *)
ResendBlock(w, kind, r) ==
  /\ codes[r].resend >= MaxResend
  /\ Begin(w, kind, Holding(r, [Block(codes[r]) EXCEPT !.resend = 0], <<"saveRow">>))
  /\ UNCHANGED <<fresh, posted>>

(* The newest code record of a user, of either kind, gets a new code.      *)
Resend(w, a) ==
  \E r \in RowsOf(At(a), OtpKinds) :
    LET row == codes[r] IN
    /\ IsLast(r, RowsOf(At(a), OtpKinds))
    /\ \/ ResendBlock(w, "resend", r)
       \/ /\ row.resend < MaxResend
          /\ ~row.blocked
          /\ row.window # "dead"
          /\ fresh' = fresh + 1
          /\ Begin(w, "resend", Holding(r, NewCode(row, fresh'), <<"saveRow", "deliver", "saveRow">>))
          /\ UNCHANGED posted
    /\ UNCHANGED <<flow, users, codes, mail, auth, told, clash, guesses>>

(* A forgotten password: a new record of its own, unless the newest one is *)
(* blocked or its code still live.                                         *)
ForgetPassword(w, a) ==
  \E r \in RowsOf(At(a), OtpKinds) :
    LET row == codes[r] IN
    /\ IsLast(r, RowsOf(At(a), OtpKinds))
    /\ ~row.blocked
    /\ \/ ResendBlock(w, "forget", r)
       \/ /\ row.resend < MaxResend
          /\ ~Live(row)
          /\ Begin(w, "forget", Holding(r, [row EXCEPT !.resend = @ + 1], <<"saveRow", "renew", "issue", "saveRow", "deliver">>))
          /\ UNCHANGED <<fresh, posted>>
    /\ UNCHANGED <<flow, users, codes, mail, auth, told, clash, guesses>>

(* ForgetPasswordView.send_otp_code starts a new record for the same user. *)
Renew(w) ==
  /\ On(w, "renew")
  /\ Proceed(w, [jobs[w] EXCEPT !.rec = None, !.row = NewRow("forget")])
  /\ UNCHANGED <<flow, left, fresh, users, codes, mail, auth, ghosts>>

(* The code of a forgotten password is entered.  It is refused while       *)
(* is_code_expired returns a time, that is, while it is live.              *)
VerifyForget(w, a, c) ==
  \E r \in RowsOf(At(a), {"forget"}) :
    LET row == codes[r] IN
    /\ IsLast(r, RowsOf(At(a), {"forget"}))
    /\ ~row.blocked
    /\ \/ ResendBlock(w, "forgetVerify", r)
       \/ /\ row.resend < MaxResend
          /\ ~Live(row)
          /\ c = row.code
          /\ Begin(w, "forgetVerify", Holding(r, [row EXCEPT !.done = TRUE, !.window = "live"], <<"saveRow">>))
          /\ posted' = posted \cup {<<r, c>>}
          /\ UNCHANGED fresh
    /\ UNCHANGED <<flow, users, codes, mail, auth, told, clash, guesses>>

\* Mutant of SetForgotten: the newest record will do, verified or not.
SetForgottenUnverified(w, a, p) ==
  LET all == RowsOf(At(a), {"forget"}) IN
  \E r \in all :
    /\ IsLast(r, all)
    /\ ~codes[r].blocked /\ Live(codes[r])
    /\ Begin(w, "setForget", [Holding(r, Dead(codes[r]), <<"loadUser", "saveUser", "saveRow">>)
                              EXCEPT !.pw = p, !.code = codes[r].code])
    /\ UNCHANGED <<flow, fresh, users, codes, mail, auth, told, clash, guesses, posted>>

(* The new password is set, once, in the half hour after that.             *)
SetForgotten(w, a, p) ==
  LET verified == {r \in RowsOf(At(a), {"forget"}) : codes[r].done} IN
  \E r \in verified :
    LET row == codes[r] IN
    /\ IsLast(r, verified)
    /\ ~row.blocked
    /\ \/ ResendBlock(w, "setForget", r)
       \/ /\ row.resend < MaxResend
          /\ Live(row)
          /\ Begin(w, "setForget", [Holding(r, [Dead(row) EXCEPT !.done = FALSE], <<"loadUser", "saveUser", "saveRow">>)
                                    EXCEPT !.pw = p, !.code = row.code])
          /\ UNCHANGED <<fresh, posted>>
    /\ UNCHANGED <<flow, users, codes, mail, auth, told, clash, guesses>>

RegistrationStep(w) ==
  \/ \E a \in flow.addresses :
       \/ \E type \in {"register"} \cup ({"link"} \cap flow.kinds), p \in Password : Register(w, a, type, p)
       \/ \E c \in Typed : Verify(w, a, c) \/ VerifyForget(w, a, c)
       \/ Resend(w, a) \/ ForgetPassword(w, a)
       \/ \E p \in Password : SetForgotten(w, a, p)
  \/ \E c \in Typed : VerifyLink(w, c)
  \/ Renew(w)
=============================================================================
