------------------------------ MODULE Sessions ------------------------------
(***************************************************************************)
(* Sign-in, token refresh and sign-out: login_views.py and                 *)
(* apps/accounts/services.py and views.py over SimpleJWT's blacklist.      *)
(***************************************************************************)
EXTENDS AccountRows

\* Mutant of Login: the Session is recorded before there is a token.
LoginRecordFirst(w, u, p) ==
  /\ Active(u)
  /\ users[u].pw = p
  /\ Begin(w, "login", [NoJob EXCEPT !.plan = <<"record", "mint">>, !.user = u])
  /\ UNCHANGED <<flow, fresh, users, codes, mail, auth, ghosts>>

(* The right password of an active user starts a session.                  *)
Login(w, u, p) ==
  /\ Active(u)
  /\ users[u].pw = p
  /\ Begin(w, "login", [NoJob EXCEPT !.plan = <<"mint", "record">>, !.user = u])
  /\ UNCHANGED <<flow, fresh, users, codes, mail, auth, ghosts>>

(* RefreshToken.for_user: the token is outstanding before the Session is.  *)
Mint(w) ==
  /\ On(w, "mint")
  /\ fresh' = fresh + 1
  /\ tokens' = Put(tokens, fresh', [user |-> jobs[w].user, black |-> FALSE, rotated |-> FALSE])
  /\ Proceed(w, [jobs[w] EXCEPT !.rec = fresh'])
  /\ UNCHANGED <<flow, left, users, codes, mail, sessions, ghosts>>

(* SessionService.issue: Session and audit row, in one transaction.        *)
Record(w) ==
  LET job == jobs[w] IN
  /\ On(w, "record")
  /\ IF Has(job.user)
     THEN sessions' = Put(sessions, job.rec, [user |-> job.user, open |-> TRUE])
     ELSE UNCHANGED sessions                                  \* foreign key
  /\ Proceed(w, job)
  /\ UNCHANGED <<flow, left, fresh, users, codes, mail, tokens, ghosts>>

(* TokenRefreshView: the token is checked against the blacklist...         *)
Refresh(w, t) ==
  /\ ~tokens[t].black
  /\ Begin(w, "refresh", [NoJob EXCEPT !.plan = <<"rotate">>, !.user = tokens[t].user, !.rec = t])
  /\ UNCHANGED <<flow, fresh, users, codes, mail, auth, ghosts>>

(* ...then put on it and replaced by a new one, which no Session names.    *)
Rotate(w) ==
  LET job == jobs[w] IN
  /\ On(w, "rotate")
  /\ fresh' = fresh + 1
  /\ tokens' = Put([tokens EXCEPT ![job.rec].black = TRUE], fresh',
                 [user |-> job.user, black |-> FALSE, rotated |-> TRUE])
  /\ Proceed(w, job)
  /\ UNCHANGED <<flow, left, users, codes, mail, sessions, ghosts>>

(* LogoutView: a blacklisted token raises TokenError and changes nothing.  *)
Logout(w, t) ==
  /\ ~tokens[t].black
  /\ Active(tokens[t].user)
  /\ Begin(w, "logout", [NoJob EXCEPT !.plan = <<"blacklist", "close">>, !.user = tokens[t].user, !.rec = t])
  /\ UNCHANGED <<flow, fresh, users, codes, mail, auth, ghosts>>

Blacklist(w) ==
  /\ On(w, "blacklist")
  /\ tokens' = [tokens EXCEPT ![jobs[w].rec].black = TRUE]
  /\ Proceed(w, jobs[w])
  /\ UNCHANGED <<flow, left, fresh, users, codes, mail, sessions, ghosts>>

Close(ts) == [t \in DOMAIN sessions |-> [sessions[t] EXCEPT !.open = @ /\ t \notin ts]]

CloseSession(w) ==
  /\ On(w, "close")
  /\ sessions' = Close({jobs[w].rec})
  /\ Proceed(w, jobs[w])
  /\ UNCHANGED <<flow, left, fresh, users, codes, mail, tokens, ghosts>>

\* Mutant of LogoutAll: the tokens are not put on the blacklist.
LogoutAllKeepingTokens(w, u) ==
  LET ts == {t \in DOMAIN sessions : sessions[t].user = u /\ sessions[t].open} IN
  /\ Active(u)
  /\ MayBegin(w, "logoutAll")
  /\ sessions' = Close(ts)
  /\ UNCHANGED <<flow, fresh, users, codes, mail, jobs, tokens, ghosts>>

(* SessionService.logout_all: one transaction, over locked rows.           *)
LogoutAll(w, u) ==
  LET ts == {t \in DOMAIN sessions : sessions[t].user = u /\ sessions[t].open} IN
  /\ Active(u)
  /\ MayBegin(w, "logoutAll")
  /\ tokens' = [t \in DOMAIN tokens |-> [tokens[t] EXCEPT !.black = @ \/ t \in ts]]
  /\ sessions' = Close(ts)
  /\ UNCHANGED <<flow, fresh, users, codes, mail, jobs, ghosts>>

SessionStep(w) ==
  \/ \E u \in DOMAIN users : LogoutAll(w, u) \/ \E p \in Password : Login(w, u, p)
  \/ \E t \in DOMAIN tokens : Refresh(w, t) \/ Logout(w, t)
  \/ Mint(w) \/ Record(w) \/ Rotate(w) \/ Blacklist(w) \/ CloseSession(w)
=============================================================================
