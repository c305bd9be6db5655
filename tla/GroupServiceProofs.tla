------------------------- MODULE GroupServiceProofs -------------------------
(***************************************************************************)
(* Proofs about GroupService for every set of users and invites, every     *)
(* custom role and every bound.                                            *)
(***************************************************************************)
EXTENDS GroupService, TLAPS

USE OwnerAssumption, GrantsAssumption, InputsAssumption, UsesAssumption

(***************************************************************************)
(* What the permission tables give, once for all steps below.              *)
(***************************************************************************)

\* Ranks are numbers, and the owner's is the only one above an admin's.
LEMMA Ranks ==
  /\ \A r \in Role : ROLE_RANK[r] \in 0..3
  /\ \A r \in Role : r # "owner" => ROLE_RANK[r] <= 2
  /\ ROLE_RANK["admin"] = 2
  /\ ROLE_RANK["owner"] = 3
  BY DEF ROLE_RANK, Role

\* An actor whose custom role does not grant manage_roles holds it only as an
\* active admin or owner.
LEMMA RoleManagers ==
  ASSUME NEW m \in Member, NEW grants \in SUBSET GroupPerm,
         "manage_roles" \notin grants, Can(m, grants, "manage_roles")
  PROVE  IsActive(m) /\ m.role \in {"admin", "owner"}
  <1>1. IsActive(m)
    BY DEF Can, EffectivePermissions
  <1>2. "manage_roles" \in ROLE_DEFAULTS[m.role]
    BY <1>1 DEF Can, EffectivePermissions
  <1>3. m.role \in Role
    BY DEF Member
  <1>4. m.role # "member"
    BY <1>2 DEF ROLE_DEFAULTS, MemberPerms
  <1>5. m.role # "moderator"
    BY <1>2 DEF ROLE_DEFAULTS, ModeratorPerms, MemberPerms
  <1> QED BY <1>1, <1>3, <1>4, <1>5 DEF Role
-----------------------------------------------------------------------------
(* Type correctness *)

\* Changing the status or the role of one row leaves a function of rows.
LEMMA RowUpdates ==
  ASSUME TypeOK, NEW u \in Users
  PROVE  /\ \A s \in Status : SetStatus(u, s) => member' \in [Users -> Member]
         /\ Activate(u) => member' \in [Users -> Member]
         /\ \A r \in Role : [member EXCEPT ![u].role = r] \in [Users -> Member]
         /\ \A b \in BOOLEAN : [member EXCEPT ![u].muted = b] \in [Users -> Member]
  BY DEF TypeOK, SetStatus, Activate, Member, Status

\* The initial state and every step keep the types: in particular max_uses
\* stays a natural number whatever integer the request carried.
LEMMA InitTypeOK == Init => TypeOK
  <1> SUFFICES ASSUME Init PROVE TypeOK
    OBVIOUS
  <1>1. NoInvite \in Invite
    BY DEF NoInvite, Invite, Expiry
  <1>2. /\ NoMember \in Member
        /\ [NoMember EXCEPT !.role = "owner", !.status = "active"] \in Member
    BY DEF NoMember, Member, Role, Status
  <1> QED BY <1>1, <1>2 DEF Init, TypeOK

LEMMA NextTypeOK == TypeOK /\ [Next]_vars => TypeOK'
  <1> SUFFICES ASSUME TypeOK, [Next]_vars PROVE TypeOK'
    OBVIOUS
  <1>1. ASSUME NEW a \in Users, NEW v \in VisibilityInputs, Update(a, v)
        PROVE  TypeOK'
    BY <1>1 DEF TypeOK, Update
  <1>2. ASSUME NEW a \in Users, Delete(a) PROVE TypeOK'
    BY <1>2 DEF TypeOK, Delete
  <1>3. ASSUME NEW u \in Users, JoinPublic(u) PROVE TypeOK'
    BY <1>3, RowUpdates DEF TypeOK, JoinPublic
  <1>4. ASSUME NEW u \in Users, RequestToJoin(u) PROVE TypeOK'
    BY <1>4 DEF TypeOK, RequestToJoin
  <1>5. ASSUME NEW u \in Users, NEW i \in InviteIds, JoinWithInvite(u, i)
        PROVE  TypeOK'
    <2>1. invite' \in [InviteIds -> Invite]
      BY <1>5 DEF TypeOK, JoinWithInvite, Invite
    <2> QED BY <1>5, <2>1, RowUpdates DEF TypeOK, JoinWithInvite
  <1>6. ASSUME NEW u \in Users, Leave(u) PROVE TypeOK'
    BY <1>6, RowUpdates DEF TypeOK, Leave, Status
  <1>7. ASSUME NEW a \in Users, NEW u \in Users, Kick(a, u) \/ Ban(a, u)
        PROVE  TypeOK'
    BY <1>7, RowUpdates DEF TypeOK, Kick, Ban, Moderate, Status
  <1>8. ASSUME NEW a \in Users, NEW u \in Users, Unban(a, u) PROVE TypeOK'
    BY <1>8, RowUpdates DEF TypeOK, Unban, Status
  <1>9. ASSUME NEW a \in Users, NEW u \in Users, Mute(a, u) PROVE TypeOK'
    BY <1>9, RowUpdates DEF TypeOK, Mute
  <1>10. ASSUME NEW a \in Users, NEW u \in Users, NEW r \in RoleInputs,
                SetRole(a, u, r)
         PROVE  TypeOK'
    BY <1>10, RowUpdates DEF TypeOK, SetRole
  <1>11. ASSUME NEW a \in Users, NEW i \in InviteIds, NEW n \in MaxUsesInputs,
                NEW e \in Expiry, CreateInvite(a, i, n, e)
         PROVE  TypeOK'
    <2>1. (IF n < 0 THEN 0 ELSE n) \in Nat
      BY DEF InputsAssumption
    <2>2. invite' \in [InviteIds -> Invite]
      BY <1>11, <2>1 DEF TypeOK, CreateInvite, Invite
    <2> QED BY <1>11, <2>2 DEF TypeOK, CreateInvite
  <1>12. ASSUME NEW a \in Users, NEW i \in InviteIds, RevokeInvite(a, i)
         PROVE  TypeOK'
    BY <1>12 DEF TypeOK, RevokeInvite, Invite
  <1>13. ASSUME RevokeExpiredInvites PROVE TypeOK'
    BY <1>13 DEF TypeOK, RevokeExpiredInvites, Invite
  <1>14. ASSUME NEW a \in Users, NEW u \in Users, ApproveRequest(a, u)
         PROVE  TypeOK'
    BY <1>14, RowUpdates DEF TypeOK, ApproveRequest
  <1>15. ASSUME NEW a \in Users, NEW u \in Users, RejectRequest(a, u)
         PROVE  TypeOK'
    BY <1>15 DEF TypeOK, RejectRequest
  <1>16. ASSUME NEW i \in InviteIds, InviteExpires(i) PROVE TypeOK'
    BY <1>16 DEF TypeOK, InviteExpires, Invite, Expiry
  <1>17. ASSUME NEW u \in Users, MuteLapses(u) PROVE TypeOK'
    BY <1>17, RowUpdates DEF TypeOK, MuteLapses
  <1>18. CASE UNCHANGED vars
    BY <1>18 DEF TypeOK, vars
  <1> QED
    BY <1>1, <1>2, <1>3, <1>4, <1>5, <1>6, <1>7, <1>8, <1>9, <1>10, <1>11,
       <1>12, <1>13, <1>14, <1>15, <1>16, <1>17, <1>18 DEF Next

\* Every reachable state is well typed.
THEOREM TypeCorrect == Spec => []TypeOK
  BY InitTypeOK, NextTypeOK, PTL DEF Spec
-----------------------------------------------------------------------------
(* What a step can do to one membership row *)

\* Only set_role changes a role, and never to "owner"; a row whose role is
\* "owner" keeps its status unless an activation makes it active.
RowStep(u) ==
  \/ /\ member'[u].role = member[u].role
     /\ \/ member'[u].status = member[u].status
        \/ member'[u].status = "active"
        \/ member[u].role # "owner"
        \/ Banned(u)
  \/ \E a \in Users, r \in RoleInputs : SetRole(a, u, r)

LEMMA EveryRowStep ==
  ASSUME TypeOK, [Next]_vars, NEW u \in Users
  PROVE  RowStep(u)
  <1>1. ASSUME UNCHANGED member PROVE RowStep(u)
    BY <1>1 DEF RowStep
  <1>2. ASSUME NEW w \in Users, NEW s \in Status, SetStatus(w, s),
               s = "active" \/ member[w].role # "owner" \/ Banned(w)
        PROVE  RowStep(u)
    BY <1>2 DEF RowStep, SetStatus, TypeOK, Member, Banned
  <1>3. ASSUME NEW w \in Users, Activate(w) PROVE RowStep(u)
    BY <1>3 DEF RowStep, Activate, TypeOK, Member
  <1>4. ASSUME NEW w \in Users, NEW b \in BOOLEAN,
               member' = [member EXCEPT ![w].muted = b]
        PROVE  RowStep(u)
    BY <1>4 DEF RowStep, TypeOK, Member
  <1>5. ASSUME NEW a \in Users, NEW w \in Users, NEW r \in RoleInputs,
               SetRole(a, w, r)
        PROVE  RowStep(u)
    <2>1. CASE w = u
      BY <1>5, <2>1 DEF RowStep
    <2>2. CASE w # u
      BY <1>5, <2>2 DEF RowStep, SetRole, TypeOK, Member
    <2> QED BY <2>1, <2>2
  <1>6. ASSUME NEW w \in Users,
               \/ JoinPublic(w) \/ \E i \in InviteIds : JoinWithInvite(w, i)
               \/ \E a \in Users : ApproveRequest(a, w)
        PROVE  RowStep(u)
    BY <1>3, <1>6 DEF JoinPublic, JoinWithInvite, ApproveRequest
  <1>7. ASSUME NEW w \in Users,
               \/ Leave(w)
               \/ \E a \in Users : Kick(a, w) \/ Ban(a, w) \/ Unban(a, w)
        PROVE  RowStep(u)
    BY <1>2, <1>7 DEF Leave, Kick, Ban, Moderate, Unban, Status
  <1>8. ASSUME NEW w \in Users, MuteLapses(w) \/ \E a \in Users : Mute(a, w)
        PROVE  RowStep(u)
    BY <1>4, <1>8 DEF Mute, MuteLapses
  <1>9. ASSUME \/ \E a \in Users, v \in VisibilityInputs : Update(a, v)
               \/ \E a \in Users : Delete(a)
               \/ \E w \in Users : RequestToJoin(w)
               \/ \E a, w \in Users : RejectRequest(a, w)
        PROVE  RowStep(u)
    BY <1>1, <1>9 DEF Update, Delete, RequestToJoin, RejectRequest
  <1>10. ASSUME \/ \E a \in Users, i \in InviteIds, n \in MaxUsesInputs,
                     e \in Expiry : CreateInvite(a, i, n, e)
                \/ \E a \in Users, i \in InviteIds : RevokeInvite(a, i)
                \/ RevokeExpiredInvites
                \/ \E i \in InviteIds : InviteExpires(i)
         PROVE  RowStep(u)
    BY <1>1, <1>10
       DEF CreateInvite, RevokeInvite, RevokeExpiredInvites, InviteExpires
  <1>11. CASE UNCHANGED vars
    BY <1>1, <1>11 DEF vars
  <1> QED
    BY <1>5, <1>6, <1>7, <1>8, <1>9, <1>10, <1>11 DEF Next

-----------------------------------------------------------------------------
(* The owner *)

\* No reachable state has a second owner, or an owner outside the group:
\* set_role refuses the role "owner", and leave and the moderation operations
\* refuse a row that carries it.
THEOREM OwnerSeatHolds == Spec => []OwnerSeat
  <1>1. Init => OwnerSeat
    BY DEF Init, OwnerSeat, NoMember, Active, IsActive
  <1>2. ASSUME TypeOK, OwnerSeat, [Next]_vars, NEW u \in Users,
               member'[u].role = "owner"
        PROVE  u = Owner /\ Active(u)'
    <2>1. RowStep(u)
      BY <1>2, EveryRowStep
    <2>2. ~ \E a \in Users, r \in RoleInputs : SetRole(a, u, r)
      BY <1>2 DEF SetRole, TypeOK, Member
    <2>3. member[u].role = "owner"
      BY <1>2, <2>1, <2>2 DEF RowStep
    <2>4. u = Owner /\ Active(u) /\ ~Banned(u)
      BY <1>2, <2>3 DEF OwnerSeat, Active, IsActive, Banned
    <2> QED BY <2>1, <2>2, <2>3, <2>4 DEF RowStep, Active, IsActive
  <1>3. TypeOK /\ OwnerSeat /\ [Next]_vars => OwnerSeat'
    BY <1>2 DEF OwnerSeat
  <1> QED BY <1>1, <1>3, TypeCorrect, PTL DEF Spec

\* Once the creator's row has lost the role "owner" no step gives it back,
\* and the group can never be deleted: delete asks for that role, and by
\* OwnerSeat no other row ever has it.
THEOREM OrphanedForeverHolds == Spec => OrphanedForever
  <1>1. ASSUME TypeOK, OwnerSeat, [Next]_vars, member[Owner].role # "owner"
        PROVE  member'[Owner].role # "owner" /\ isDeleted' = isDeleted
    <2>1. member'[Owner].role # "owner"
      BY <1>1, EveryRowStep DEF RowStep, SetRole, TypeOK, Member
    <2>2. \A a \in Users : ~Delete(a)
      BY <1>1 DEF Delete, OwnerSeat
    <2>3. isDeleted' = isDeleted
      BY <1>1, <2>2
         DEF Next, Update, JoinPublic, RequestToJoin, JoinWithInvite, Leave,
             Kick, Ban, Moderate, Unban, Mute, SetRole, CreateInvite,
             RevokeInvite, RevokeExpiredInvites, ApproveRequest,
             RejectRequest, InviteExpires, MuteLapses, vars
    <2> QED BY <2>1, <2>3
  <1>2. TypeOK /\ OwnerSeat /\ [Next]_vars
          => [member[Owner].role # "owner" =>
                member[Owner].role' # "owner" /\ isDeleted' = isDeleted]_vars
    BY <1>1
  <1> QED BY <1>2, TypeCorrect, OwnerSeatHolds, PTL DEF Spec, OrphanedForever
-----------------------------------------------------------------------------
(* Promotions *)

\* A custom role may grant anything but manage_roles.
GrantsRoleManagement == \E u \in Users : "manage_roles" \in CustomGrants[u]

\* While no custom role grants manage_roles, nobody is promoted above every
\* other active member: the assigner is an active admin or owner, the new role
\* at most admin, and an admin does not gain rank by naming himself.
THEOREM PromotionUnderCoverHolds ==
  ASSUME ~GrantsRoleManagement
  PROVE  Spec => PromotionUnderCover
  <1> DEFINE Rise(u) == ROLE_RANK[member[u].role]' > ROLE_RANK[member[u].role]
             Cover(u) == \E a \in Users \ {u} :
                           /\ Active(a)
                           /\ ROLE_RANK[member[a].role] >= ROLE_RANK[member[u].role]'
  <1>1. ASSUME TypeOK, [Next]_vars, NEW u \in Users, Rise(u)
        PROVE  Cover(u)
    <2>1. PICK a \in Users, r \in RoleInputs : SetRole(a, u, r)
      <3>1. member'[u].role # member[u].role
        BY <1>1, Ranks DEF TypeOK, Member
      <3> QED BY <1>1, <3>1, EveryRowStep DEF RowStep
    <2>2. member[a] \in Member /\ CustomGrants[a] \in SUBSET GroupPerm
      BY <1>1 DEF TypeOK
    <2>3. Active(a) /\ member[a].role \in {"admin", "owner"}
      BY <1>1, <2>1, <2>2, RoleManagers
         DEF SetRole, Require, GrantsRoleManagement, Active
    <2>4. member'[u].role = r /\ r \in Role /\ r # "owner"
      BY <1>1, <2>1 DEF SetRole, TypeOK, Member
    <2>5. ROLE_RANK[member'[u].role] <= 2
      BY <2>4, Ranks
    <2>6. ROLE_RANK[member[a].role] >= 2
      BY <2>3, Ranks
    <2>7. ROLE_RANK[member[a].role] \in Int /\ ROLE_RANK[member'[u].role] \in Int
      BY <2>2, <2>4, Ranks DEF Member
    <2>8. a # u
      <3>1. ROLE_RANK[member'[u].role] > ROLE_RANK[member[u].role]
        BY <1>1 DEF ROLE_RANK
      <3> QED BY <2>5, <2>6, <2>7, <3>1
    <2>9. ROLE_RANK[member[a].role] >= ROLE_RANK[member'[u].role]
      BY <2>5, <2>6, <2>7
    <2> QED BY <2>3, <2>8, <2>9 DEF ROLE_RANK
  <1>2. TypeOK /\ [Next]_vars =>
          [\A u \in Users : ROLE_RANK[member[u].role]' > ROLE_RANK[member[u].role] =>
             \E a \in Users \ {u} :
               Active(a) /\ ROLE_RANK[member[a].role] >= ROLE_RANK[member[u].role]']_vars
    BY <1>1
  <1> QED BY <1>2, TypeCorrect, PTL DEF Spec, PromotionUnderCover

-----------------------------------------------------------------------------
(* Invites *)

\* A redeem of a limited invite leaves its count within the limit.
LEMMA RedeemStaysWithinLimit ==
  ASSUME NEW inv \in Invite, inv.maxUses > 0, ~IsExhausted(inv)
  PROVE  inv.uses + 1 <= inv.maxUses
  BY DEF Invite, IsExhausted

\* What a step does to one created invite: limit and creation are fixed, the
\* revocation and a passed expiry are never undone, and a use is counted only
\* while the invite is usable.
InviteStep(i) ==
  /\ invite'[i].created /\ invite'[i].maxUses = invite[i].maxUses
  /\ invite[i].revoked => invite'[i].revoked
  /\ IsExpired(invite[i]) => IsExpired(invite'[i])
  /\ \/ invite'[i].uses = invite[i].uses
     \/ IsUsable(invite[i]) /\ invite'[i].uses = invite[i].uses + 1

LEMMA EveryInviteStep ==
  ASSUME TypeOK, [Next]_vars, NEW i \in InviteIds, invite[i].created
  PROVE  InviteStep(i)
  <1>1. ASSUME UNCHANGED invite PROVE InviteStep(i)
    BY <1>1 DEF InviteStep
  <1>2. ASSUME NEW u \in Users, NEW j \in InviteIds, JoinWithInvite(u, j)
        PROVE  InviteStep(i)
    BY <1>2 DEF JoinWithInvite, InviteStep, TypeOK, Invite, IsExpired
  <1>3. ASSUME NEW a \in Users, NEW j \in InviteIds, NEW n \in MaxUsesInputs,
               NEW e \in Expiry, CreateInvite(a, j, n, e)
        PROVE  InviteStep(i)
    BY <1>3 DEF CreateInvite, InviteStep, TypeOK, IsExpired
  <1>4. ASSUME NEW a \in Users, NEW j \in InviteIds, RevokeInvite(a, j)
        PROVE  InviteStep(i)
    BY <1>4 DEF RevokeInvite, InviteStep, TypeOK, Invite, IsExpired
  <1>5. ASSUME RevokeExpiredInvites PROVE InviteStep(i)
    BY <1>5 DEF RevokeExpiredInvites, InviteStep, TypeOK, Invite, IsExpired
  <1>6. ASSUME NEW j \in InviteIds, InviteExpires(j) PROVE InviteStep(i)
    BY <1>6 DEF InviteExpires, InviteStep, TypeOK, Invite, IsExpired
  <1> QED
    BY <1>1, <1>2, <1>3, <1>4, <1>5, <1>6
       DEF Next, vars, Update, Delete, JoinPublic, RequestToJoin, Leave, Kick,
           Ban, Moderate, Unban, Mute, SetRole, ApproveRequest, RejectRequest,
           MuteLapses

\* No sequence of joins, departures and redeems takes a limited invite past
\* max_uses when redeems do not overlap.
THEOREM InviteWithinLimitHolds == Spec => []InviteWithinLimit
  <1>1. Init => InviteWithinLimit
    BY DEF Init, InviteWithinLimit, NoInvite
  <1>2. ASSUME TypeOK, InviteWithinLimit, [Next]_vars, NEW i \in InviteIds
        PROVE  invite'[i].maxUses > 0 => invite'[i].uses <= invite'[i].maxUses
    <2>1. CASE invite[i].created
      BY <1>2, <2>1, EveryInviteStep, RedeemStaysWithinLimit
         DEF InviteStep, InviteWithinLimit, IsUsable, TypeOK
    <2>2. CASE ~invite[i].created
      <3>1. \/ /\ invite'[i].uses = invite[i].uses
               /\ invite'[i].maxUses = invite[i].maxUses
            \/ invite'[i].uses = 0
        BY <1>2, <2>2
           DEF Next, vars, Update, Delete, JoinPublic, RequestToJoin,
               JoinWithInvite, Leave, Kick, Ban, Moderate, Unban, Mute, SetRole,
               CreateInvite, RevokeInvite, RevokeExpiredInvites,
               ApproveRequest, RejectRequest, InviteExpires, MuteLapses,
               TypeOK, Invite, IsUsable
      <3>2. invite'[i].maxUses \in Nat
        BY <1>2, NextTypeOK DEF TypeOK, Invite
      <3> QED BY <1>2, <3>1, <3>2 DEF InviteWithinLimit
    <2> QED BY <2>1, <2>2
  <1>3. TypeOK /\ InviteWithinLimit /\ [Next]_vars => InviteWithinLimit'
    BY <1>2 DEF InviteWithinLimit
  <1> QED BY <1>1, <1>3, TypeCorrect, PTL DEF Spec

\* A link that is revoked, expired or exhausted stays unusable for ever.
THEOREM InviteNeverRevivesHolds == Spec => InviteNeverRevives
  <1>1. ASSUME TypeOK, [Next]_vars, NEW i \in InviteIds,
               invite[i].created, ~IsUsable(invite[i])
        PROVE  ~IsUsable(invite'[i])
    BY <1>1, EveryInviteStep
       DEF InviteStep, IsUsable, IsExpired, IsExhausted, TypeOK, Invite
  <1>2. TypeOK /\ [Next]_vars =>
          [\A i \in InviteIds :
             invite[i].created /\ ~IsUsable(invite[i]) => ~IsUsable(invite[i]')]_vars
    BY <1>1
  <1> QED BY <1>2, TypeCorrect, PTL DEF Spec, InviteNeverRevives
-----------------------------------------------------------------------------
(* Who enters and who leaves *)

\* The steps that change the status of user u's row: an arrival, a departure
\* of his own, or a decision of a moderator about him.
Arrives(u) ==
  \/ JoinPublic(u)
  \/ \E i \in InviteIds : JoinWithInvite(u, i)
  \/ \E a \in Users : ApproveRequest(a, u)
Departs(u) == Leave(u) \/ \E a \in Users : Kick(a, u) \/ Ban(a, u) \/ Unban(a, u)

LEMMA StatusMoves ==
  ASSUME TypeOK, [Next]_vars, NEW u \in Users, member'[u].status # member[u].status
  PROVE  Arrives(u) \/ Departs(u)
  <1>1. ASSUME NEW w \in Users, NEW s \in Status, SetStatus(w, s) PROVE w = u
    BY <1>1 DEF SetStatus, TypeOK, Member
  <1>2. ASSUME NEW w \in Users, Activate(w) PROVE w = u
    BY <1>2 DEF Activate, TypeOK, Member
  <1>3. ASSUME NEW w \in Users, Arrives(w) PROVE Arrives(u)
    BY <1>2, <1>3 DEF Arrives, JoinPublic, JoinWithInvite, ApproveRequest
  <1>4. ASSUME NEW w \in Users, Departs(w) PROVE Departs(u)
    BY <1>1, <1>4 DEF Departs, Leave, Kick, Ban, Moderate, Unban, Status
  <1>5. ASSUME NEW a \in Users, NEW w \in Users, NEW r \in RoleInputs, SetRole(a, w, r)
        PROVE  FALSE
    BY <1>5 DEF SetRole, TypeOK, Member
  <1>6. ASSUME NEW a \in Users, NEW w \in Users, Mute(a, w) \/ MuteLapses(w)
        PROVE  FALSE
    BY <1>6 DEF Mute, MuteLapses, TypeOK, Member
  <1>7. member' # member
    OBVIOUS
  <1>8. \/ \E w \in Users : Arrives(w) \/ Departs(w) \/ MuteLapses(w)
        \/ \E a, w \in Users : Mute(a, w) \/ \E r \in RoleInputs : SetRole(a, w, r)
    <2>1. /\ \A a \in Users, v \in VisibilityInputs : ~Update(a, v)
          /\ \A a \in Users : ~Delete(a) /\ ~RequestToJoin(a)
          /\ \A a \in Users, i \in InviteIds, n \in MaxUsesInputs, e \in Expiry : ~CreateInvite(a, i, n, e)
      BY <1>7 DEF Update, Delete, RequestToJoin, CreateInvite
    <2>2. /\ \A a \in Users, i \in InviteIds : ~RevokeInvite(a, i)
          /\ ~RevokeExpiredInvites /\ ~UNCHANGED vars
          /\ \A a, w \in Users : ~RejectRequest(a, w)
          /\ \A i \in InviteIds : ~InviteExpires(i)
      BY <1>7 DEF RevokeInvite, RevokeExpiredInvites, RejectRequest, InviteExpires, vars
    <2> QED BY <2>1, <2>2 DEF Next, Arrives, Departs
  <1> QED BY <1>3, <1>4, <1>5, <1>6, <1>8

\* Every entry rests on a live public group, a usable invite charged with it, or
\* an approval of a pending request, whatever sequence of operations led there.
THEOREM EntryIsEarnedHolds == Spec => EntryIsEarned
  <1> DEFINE Earned(u) ==
        \/ ~isDeleted /\ visibility = "public" /\ ~Banned(u)
        \/ /\ ~Banned(u)
           /\ \E i \in InviteIds : IsUsable(invite[i]) /\ invite'[i].uses = invite[i].uses + 1
        \/ request[u] = "pending" /\ request'[u] = "approved"
  <1>1. ASSUME TypeOK, [Next]_vars, NEW u \in Users, ~Active(u), Active(u)'
        PROVE  Earned(u)
    <2>1. member'[u].status = "active" /\ member[u].status # "active"
      BY <1>1 DEF Active, IsActive
    <2>2. ~Departs(u)
      BY <1>1, <2>1 DEF Departs, Leave, Kick, Ban, Moderate, Unban, SetStatus, TypeOK, Member
    <2>3. Arrives(u)
      BY <1>1, <2>1, <2>2, StatusMoves
    <2>4. CASE JoinPublic(u)
      BY <2>4 DEF JoinPublic, Routed
    <2>5. ASSUME NEW i \in InviteIds, JoinWithInvite(u, i) PROVE Earned(u)
      <3>1. invite'[i].uses = invite[i].uses + 1
        BY <1>1, <2>5 DEF JoinWithInvite, TypeOK, Invite
      <3> QED BY <2>5, <3>1 DEF JoinWithInvite
    <2>6. ASSUME NEW a \in Users, ApproveRequest(a, u) PROVE Earned(u)
      BY <1>1, <2>6 DEF ApproveRequest, TypeOK
    <2> QED BY <2>3, <2>4, <2>5, <2>6 DEF Arrives
  <1>2. TypeOK /\ [Next]_vars =>
          [\A u \in Users : ~Active(u) /\ Active(u)' =>
             \/ ~isDeleted /\ visibility = "public" /\ ~Banned(u)
             \/ /\ ~Banned(u)
                /\ \E i \in InviteIds : /\ IsUsable(invite[i])
                                        /\ invite'[i].uses = invite[i].uses + 1
             \/ request[u] = "pending" /\ request'[u] = "approved"]_vars
    BY <1>1
  <1> QED BY <1>2, TypeCorrect, PTL DEF Spec, EntryIsEarned

\* A ban ends only by an active member who may ban or approve: joins refuse the
\* banned, and the other operations want an active row.
THEOREM BanLiftedByModeratorOnlyHolds == Spec => BanLiftedByModeratorOnly
  <1> DEFINE Moderated == \E a \in Users : Require(a, "ban_members") \/ Require(a, "approve_requests")
  <1>1. ASSUME TypeOK, [Next]_vars, NEW u \in Users, Banned(u), ~Banned(u)'
        PROVE  Moderated
    <2>1. member'[u].status # member[u].status /\ ~Active(u)
      BY <1>1 DEF Banned, Active, IsActive
    <2>2. Arrives(u) \/ Departs(u)
      BY <1>1, <2>1, StatusMoves
    <2> QED
      BY <1>1, <2>1, <2>2
         DEF Arrives, Departs, JoinPublic, JoinWithInvite, ApproveRequest, Leave, Kick,
             Ban, Moderate, Unban
  <1>2. TypeOK /\ [Next]_vars =>
          [\A u \in Users : Banned(u) /\ ~Banned(u)' =>
             \E a \in Users : \/ Require(a, "ban_members")
                             \/ Require(a, "approve_requests")]_vars
    BY <1>1
  <1> QED BY <1>2, TypeCorrect, PTL DEF Spec, BanLiftedByModeratorOnly

-----------------------------------------------------------------------------
(* The tombstone *)

\* The steps that need no live group.
Unrouted ==
  \/ \E u \in Users, i \in InviteIds : JoinWithInvite(u, i)
  \/ \E a, u \in Users : Unban(a, u)
  \/ \E a \in Users, i \in InviteIds : RevokeInvite(a, i)
  \/ RevokeExpiredInvites
  \/ \E i \in InviteIds : InviteExpires(i)
  \/ \E u \in Users : MuteLapses(u)
  \/ UNCHANGED vars

LEMMA OnlyUnrouted ==
  ASSUME isDeleted, [Next]_vars
  PROVE  Unrouted
  BY DEF Next, Unrouted, Routed, Update, Delete, JoinPublic, RequestToJoin, Leave, Kick, Ban,
         Moderate, Mute, SetRole, CreateInvite, ApproveRequest, RejectRequest

\* A deleted group stays deleted, nobody is put out of it, ranked or asked for
\* again, and no invite is made: only invites made before still admit members.
THEOREM DeletedGroupSealedHolds == Spec => DeletedGroupSealed
  <1> DEFINE RowSealed(u) == member'[u].role = member[u].role /\ (Active(u) => Active(u)')
             InviteSealed(i) == ~invite[i].created => ~invite'[i].created
  <1>1. ASSUME TypeOK, [Next]_vars, isDeleted PROVE isDeleted' /\ StaysShut
    <2>0. Unrouted
      BY <1>1, OnlyUnrouted
    <2>1. isDeleted' /\ visibility' = visibility /\ request' = request
      BY <1>1, <2>0
         DEF Unrouted, JoinWithInvite, Unban, RevokeInvite, RevokeExpiredInvites,
             InviteExpires, MuteLapses, vars
    <2>2. ASSUME NEW u \in Users PROVE RowSealed(u)
      <3>1. CASE UNCHANGED member
        BY <3>1 DEF Active, IsActive
      <3>2. ASSUME NEW w \in Users, NEW i \in InviteIds, JoinWithInvite(w, i) PROVE RowSealed(u)
        BY <1>1, <3>2 DEF JoinWithInvite, Activate, TypeOK, Member, Active, IsActive
      <3>3. ASSUME NEW a \in Users, NEW w \in Users, Unban(a, w) PROVE RowSealed(u)
        BY <1>1, <3>3 DEF Unban, SetStatus, Banned, TypeOK, Member, Active, IsActive
      <3>4. ASSUME NEW w \in Users, MuteLapses(w) PROVE RowSealed(u)
        BY <1>1, <3>4 DEF MuteLapses, TypeOK, Member, Active, IsActive
      <3> QED
        BY <2>0, <3>1, <3>2, <3>3, <3>4
           DEF Unrouted, RevokeInvite, RevokeExpiredInvites, InviteExpires, vars
    <2>3. ASSUME NEW i \in InviteIds, ~invite[i].created PROVE ~invite'[i].created
      <3>1. ASSUME NEW u \in Users, NEW j \in InviteIds, JoinWithInvite(u, j) PROVE ~invite'[i].created
        BY <1>1, <2>3, <3>1 DEF JoinWithInvite, TypeOK, Invite, IsUsable
      <3>3. ASSUME NEW a \in Users, NEW j \in InviteIds, RevokeInvite(a, j) PROVE ~invite'[i].created
        BY <1>1, <2>3, <3>3 DEF RevokeInvite, TypeOK, Invite
      <3>4. ASSUME NEW j \in InviteIds, InviteExpires(j) PROVE ~invite'[i].created
        BY <1>1, <2>3, <3>4 DEF InviteExpires, TypeOK, Invite
      <3>2. CASE RevokeExpiredInvites
        BY <1>1, <2>3, <3>2 DEF RevokeExpiredInvites, TypeOK, Invite
      <3> QED BY <2>0, <2>3, <3>1, <3>2, <3>3, <3>4 DEF Unrouted, Unban, MuteLapses, vars
    <2> QED BY <2>1, <2>2, <2>3 DEF StaysShut
  <1>2. TypeOK /\ [Next]_vars => [isDeleted => isDeleted' /\ StaysShut]_vars
    BY <1>1
  <1> QED BY <1>2, TypeCorrect, PTL DEF Spec, DeletedGroupSealed
=============================================================================
