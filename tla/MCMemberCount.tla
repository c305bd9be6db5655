--------------------------- MODULE MCMemberCount ---------------------------
(***************************************************************************)
(* Overlapping membership operations of a group of three users.            *)
(***************************************************************************)
EXTENDS MemberCount, TLC

CONSTANTS owner, guest, other, w1, w2, w3

\* The workers are alike, and so are the users but the owner.
Alike == Permutations(Workers) \union Permutations(Users \ {owner})
=============================================================================
