----------------------------- MODULE MCAccounts -----------------------------
(***************************************************************************)
(* The mixes of requests explored.  Each names the kinds of request that   *)
(* are made, how many in all and at once, the addresses used and the       *)
(* users already verified; a behaviour picks one.                          *)
(***************************************************************************)
EXTENDS Accounts, TLC

CONSTANTS ada, bob, first, second, w1, w2

Mix(kinds, budget, width, addresses, members, time) ==
  [kinds |-> kinds, budget |-> budget, width |-> width, addresses |-> addresses, members |-> members,
   time |-> time]

MCFlows ==
  { Mix({"register", "verify", "link"}, 4, 2, {ada}, <<>>, {"lapse"}),
    Mix({"register", "verify", "resend"}, 4, 2, {ada}, <<>>, {"lapse"}),
    Mix({"register", "verify", "resend"}, 5, 1, {ada}, <<>>, {"lapse", "die", "unblock"}),
    Mix({"forget", "forgetVerify", "setForget", "resend"}, 5, 1, {ada}, <<ada>>, {"lapse", "unblock"}),
    Mix({"forget", "forgetVerify", "setForget"}, 4, 2, {ada}, <<ada>>, {"lapse"}),
    Mix({"openEmail", "postEmail", "verifyEmail", "resendEmail"}, 5, 1, {bob}, <<ada>>, {"lapse", "unblock", "age"}),
    Mix({"openEmail", "postEmail", "verifyEmail", "register"}, 4, 2, {bob}, <<ada>>, {"lapse"}),
    Mix({"openEmail", "postEmail", "verifyEmail", "openPassword", "changePassword"}, 5, 2, {bob}, <<ada>>, {}),
    Mix({"openEmail", "verifyEmail", "resendEmail"}, 10, 1, {}, <<ada>>, {"lapse"}),
    Mix({"openPassword", "changePassword"}, 8, 1, {}, <<ada>>, {"lapse", "unblock", "age"}),
    Mix({"login", "refresh", "logout", "logoutAll"}, 6, 2, {}, <<ada>>, {}) }

Symmetry == Permutations(Worker) \cup Permutations(Password)
=============================================================================
