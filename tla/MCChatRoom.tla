----------------------------- MODULE MCChatRoom -----------------------------
(***************************************************************************)
(* The mixes explored: what users do, how often in all, the sockets there  *)
(* are, those connected at the start, and the authors of the messages that *)
(* are in the room by then.  ada has a second socket, ada2.                *)
(***************************************************************************)
EXTENDS ChatRoom, TLC

CONSTANTS ada, bob, ada1, ada2, bob1

MCWho == (ada1 :> ada) @@ (ada2 :> ada) @@ (bob1 :> bob)

Mix(acts, budget, on, later, posted) ==
  [acts |-> acts, budget |-> budget, on |-> on, sockets |-> on \cup later, posted |-> posted]

MCMixes ==
  { Mix({"message", "read", "reaction"}, 2, {ada1}, {bob1}, <<>>),
    Mix({"message", "read"}, 2, {ada1, bob1}, {}, <<>>),
    Mix({"reaction"}, 3, {ada1, bob1}, {}, <<ada>>),
    Mix({"edit", "delete"}, 2, {ada1, ada2}, {bob1}, <<ada>>),
    Mix({"message", "edit", "delete"}, 3, {ada1}, {bob1}, <<>>),
    Mix({"message", "read", "delete"}, 2, {ada1, bob1}, {}, <<>>),
    Mix({"typing", "typing_stop", "recording", "recording_stop", "close"}, 3, {ada1, bob1}, {ada2}, <<>>),
    Mix({"close", "message"}, 3, {ada1}, {ada2, bob1}, <<>>),
    Mix({"close", "message", "typing"}, 3, {ada1, bob1}, {}, <<>>),
    Mix({"restart", "fade", "close", "read"}, 3, {ada1}, {ada2, bob1}, <<bob>>),
    Mix({"voice", "recording", "reaction"}, 3, {ada1}, {bob1}, <<>>),
    Mix({"played", "voice", "recording"}, 3, {ada1, bob1}, {}, <<ada>>) }
=============================================================================
