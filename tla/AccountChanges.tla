--------------------------- MODULE AccountChanges ---------------------------
(***************************************************************************)
(* A signed-in user changes his password or his e-mail address:            *)
(* change_password_views.py, change_email_views.py, and the halves of      *)
(* verifications_views.py and resend_code_views.py that serve the e-mail   *)
(* change.  Both keep a log row that opens a window of fifteen minutes.    *)
(* The caller u is any active user: the JWT layer has read his row.        *)
(***************************************************************************)
EXTENDS AccountRows, Registration

OpenKind == [password |-> "openPassword", email |-> "openEmail"]

(* GET of either view opens a window, or re-opens the last one.  A block   *)
(* of three days makes the log old by the time it ends.                    *)
OpenWindow(w, u, kind) ==
  LET mine == RowsOf({u}, {kind})
      r == Max(mine)
      row == codes[r]
      new == [NoJob EXCEPT !.plan = <<"issue">>, !.user = u, !.row = NewRow(kind)] IN
  /\ Active(u)
  /\ \/ mine = {} /\ Begin(w, OpenKind[kind], new)
     \/ /\ mine # {}
        /\ ~row.blocked /\ ~Live(row)
        /\ Begin(w, OpenKind[kind],
             CASE row.attapts > MaxOpens -> Holding(r, [Block(row) EXCEPT !.age = "old"], <<"saveRow">>)
               [] row.attapts <= MaxOpens /\ row.age # "old" /\ ~row.done ->
                    Holding(r, [row EXCEPT !.attapts = @ + 1, !.window = "live"], <<"saveRow">>)
               [] OTHER -> new)
  /\ UNCHANGED <<flow, fresh, users, codes, mail, auth, ghosts>>

(* The last log of a kind that has not led to a change yet.                *)
Pending(u, kind) == {r \in RowsOf({u}, {kind}) : ~codes[r].done}

ChangePassword(w, u, old, new) ==
  \E r \in Pending(u, "password") :
    LET row == codes[r] IN
    /\ Active(u)
    /\ old # new
    /\ IsLast(r, Pending(u, "password"))
    /\ Live(row) /\ ~row.blocked
    /\ Begin(w, "changePassword",
         CASE row.attapts > MaxOpens -> Holding(r, [Block(row) EXCEPT !.window = "lapsed"], <<"saveRow">>)
           [] row.attapts <= MaxOpens /\ old # users[u].pw -> Holding(r, Miss(row), <<"saveRow">>)
           [] OTHER -> [Holding(r, [row EXCEPT !.done = TRUE, !.window = "lapsed"], <<"saveUser", "saveRow">>)
                        EXCEPT !.acct = [users[u] EXCEPT !.pw = new], !.pw = new])
    /\ UNCHANGED <<flow, fresh, users, codes, mail, auth, ghosts>>

(* POST of a new address: a code is sent to it.  generate_code saves the   *)
(* record with the new code first, and still the address posted before.    *)
PostEmail(w, u, a) ==
  \E r \in RowsOf({u}, {"email"}) :
    LET row == codes[r] IN
    /\ Active(u)
    /\ IsLast(r, RowsOf({u}, {"email"}))
    /\ Live(row) /\ ~row.blocked
    /\ At(a) = {}
    /\ fresh' = fresh + 1
    /\ Begin(w, "postEmail",
         [Holding(r, NewCode(row, fresh'), <<"saveRow", "revise", "saveRow", "deliver">>) EXCEPT !.to = a])
    /\ UNCHANGED <<flow, users, codes, mail, auth, ghosts>>

(* The code is entered.  The right one makes the posted address the user's.*)
VerifyEmail(w, u, c) ==
  \E r \in Pending(u, "email") :
    LET row == codes[r]
        missed == Miss(row) IN
    /\ Active(u)
    /\ IsLast(r, Pending(u, "email"))
    /\ Live(row) /\ ~row.blocked
    /\ \/ /\ c # row.code
          /\ Begin(w, "verifyEmail", Holding(r,
               TooMany(missed, [Dead(Block(missed)) EXCEPT !.code = None]), <<"saveRow">>))
          /\ UNCHANGED posted
       \/ /\ c = row.code
          /\ Begin(w, "verifyEmail", [Holding(r, [Dead(row) EXCEPT !.done = TRUE],
                                              <<"loadUser", "saveUser", "saveRow">>) EXCEPT !.code = c])
          /\ posted' = posted \cup {<<r, c>>}
    /\ UNCHANGED <<flow, fresh, users, codes, mail, auth, told, clash, guesses>>

(* A new code for the change: it goes to the user's present address.  The  *)
(* record is saved with its count set back first, and still the old code.  *)
ResendEmail(w, u) ==
  \E r \in Pending(u, "email") :
    LET row == codes[r] IN
    /\ Active(u)
    /\ IsLast(r, Pending(u, "email"))
    /\ row.age = "new" /\ ~row.blocked /\ ~Live(row)
    /\ \/ /\ row.resend >= MaxResend
          /\ Begin(w, "resendEmail", Holding(r, [Dead(Block(row)) EXCEPT !.code = None], <<"saveRow">>))
       \/ /\ row.resend < MaxResend
          /\ Begin(w, "resendEmail", Holding(r, [row EXCEPT !.resend = @ + 1, !.attapts = 0],
                                             <<"saveRow", "revise", "saveRow", "deliver">>))
    /\ UNCHANGED <<flow, fresh, users, codes, mail, auth, ghosts>>

(* Either changes its copy of the record again, for the second save.       *)
Revise(w) ==
  LET job == jobs[w] IN
  /\ On(w, "revise")
  /\ \/ /\ job.kind = "postEmail"
        /\ Proceed(w, [job EXCEPT !.row = [job.row EXCEPT !.to = job.to, !.attapts = 1]])
        /\ UNCHANGED fresh
     \/ /\ job.kind = "resendEmail"
        /\ fresh' = fresh + 1
        /\ Proceed(w, [job EXCEPT !.row = NewCode(job.row, fresh')])
  /\ UNCHANGED <<flow, left, users, codes, mail, auth, ghosts>>

ChangeStep(w) ==
  \/ \E u \in DOMAIN users :
       \/ \E kind \in LogKinds : OpenWindow(w, u, kind)
       \/ \E old, new \in Password : ChangePassword(w, u, old, new)
       \/ \E a \in flow.addresses : PostEmail(w, u, a)
       \/ \E c \in Typed : VerifyEmail(w, u, c)
       \/ ResendEmail(w, u)
  \/ Revise(w)
=============================================================================
