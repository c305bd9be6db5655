--------------------------- MODULE MCGroupService ---------------------------
(***************************************************************************)
(* The creator and one more account, one invite row and every role.  Two   *)
(* accounts show every rule: each permission is used by an actor on himself*)
(* or on the other, and the creator may be demoted below the guest.        *)
(***************************************************************************)
EXTENDS GroupService

CONSTANTS owner, guest, link

MCUsers == {owner, guest}
MCGrants == [u \in MCUsers |-> IF u = guest THEN {"kick_members"} ELSE {}]
MCVisibility == {"public", "private", "invite"}
MCMaxUses == {-1, 1}
=============================================================================
