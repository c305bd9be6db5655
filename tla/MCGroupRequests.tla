-------------------------- MODULE MCGroupRequests --------------------------
(***************************************************************************)
(* Overlapping requests on one group.  Each configuration names the        *)
(* operations its workers run.                                             *)
(***************************************************************************)
EXTENDS GroupRequests

CONSTANTS owner, guest, w1, w2, link

MCUsers == {owner, guest}
\* The guest's custom role opens what his rank does not: invites, requests.
MCGrants ==
  [u \in MCUsers |-> IF u = guest THEN {"manage_invites", "approve_requests"} ELSE {}]
=============================================================================
