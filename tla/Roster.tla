------------------------------- MODULE Roster -------------------------------
(***************************************************************************)
(* What services.py promises of Group.member_count ("keeps member_count    *)
(* correct"): the set of active members and the stored count change in one *)
(* step, and the count is the size of the set.                             *)
(***************************************************************************)
EXTENDS FiniteSets

CONSTANTS Users, Owner

VARIABLES active, memberCount

Init == active = {Owner} /\ memberCount = Cardinality(active)

Enter(u) == active' = active \union {u}
Exit(u)  == active' = active \ {u}

Next == /\ \E u \in Users : Enter(u) \/ Exit(u)
        /\ memberCount' = Cardinality(active')

Spec == Init /\ [][Next]_<<active, memberCount>>
=============================================================================
