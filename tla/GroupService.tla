---------------------------- MODULE GroupService ----------------------------
(***************************************************************************)
(* One chat group under GroupService (src/apps/groups/services.py), each   *)
(* request taken as one atomic step.  The module says what the service     *)
(* promises when requests do not overlap; GroupRequests lets them overlap. *)
(*                                                                         *)
(* A request the service refuses (an exception) changes nothing and is a   *)
(* stuttering step.  Audit rows and realtime broadcasts are written and    *)
(* never read back by the service, and member_count has a module of its    *)
(* own (MemberCount).                                                      *)
(***************************************************************************)
EXTENDS GroupPermissions, FiniteSets

CONSTANTS
  Users,             \* accounts that send requests
  Owner,             \* Group.owner, the creator
  InviteIds,         \* invite rows the group may ever have
  CustomGrants,      \* [user -> permissions of the member's custom role]
  VisibilityInputs,  \* values of `visibility` requests carry
  RoleInputs,        \* values of `role` requests carry
  MaxUsesInputs,     \* values of `max_uses` requests carry
  UsesBound          \* bound on the uses of one unlimited invite

ASSUME OwnerAssumption == Owner \in Users
ASSUME GrantsAssumption == CustomGrants \in [Users -> SUBSET GroupPerm]
ASSUME InputsAssumption ==
  /\ VisibilityInputs \subseteq {"public", "private", "invite"}
  /\ RoleInputs \subseteq Role
  /\ MaxUsesInputs \subseteq Int
ASSUME UsesAssumption == UsesBound \in Nat

VARIABLES
  visibility,  \* Group.visibility
  isDeleted,   \* Group.is_deleted
  member,      \* the GroupMember row of each user (status "none": no row)
  invite,      \* the Invite rows
  request      \* status of the latest JoinRequest row of each user

vars == <<visibility, isDeleted, member, invite, request>>

Expiry == {"never", "future", "past"}   \* Invite.expires_at against the clock

Member == [role : Role, status : Status, muted : BOOLEAN]
Invite == [created : BOOLEAN, maxUses : Nat, uses : Nat,
           expiry : Expiry, revoked : BOOLEAN]

\* get_or_create and the model defaults: a new row has role "member".
NoMember == [role |-> "member", status |-> "none", muted |-> FALSE]
NoInvite == [created |-> FALSE, maxUses |-> 0, uses |-> 0,
             expiry |-> "never", revoked |-> FALSE]

TypeOK ==
  /\ visibility \in {"public", "private", "invite"}
  /\ isDeleted \in BOOLEAN
  /\ member \in [Users -> Member]
  /\ invite \in [InviteIds -> Invite]
  /\ request \in [Users -> {"none", "pending", "approved", "rejected"}]

\* GroupService.create has committed: the creator owns the group.
Init ==
  /\ visibility \in VisibilityInputs
  /\ isDeleted = FALSE
  /\ member = [u \in Users |->
       IF u = Owner THEN [NoMember EXCEPT !.role = "owner", !.status = "active"]
                    ELSE NoMember]
  /\ invite = [i \in InviteIds |-> NoInvite]
  /\ request = [u \in Users |-> "none"]

-----------------------------------------------------------------------------
(* Guards the operations share *)

Active(u) == IsActive(member[u])
Banned(u) == member[u].status = "banned"

\* _require: the actor is an active member holding the permission.
Require(a, perm) == Can(member[a], CustomGrants[a], perm)

\* Operations on a URL with the group's slug look it up among live groups.
Routed == ~isDeleted

IsExpired(inv) == inv.expiry = "past"
\* Mutant of IsExhausted: off by one.
IsOverdrawn(inv) == inv.maxUses > 0 /\ inv.uses > inv.maxUses
IsExhausted(inv) == inv.maxUses > 0 /\ inv.uses >= inv.maxUses
IsUsable(inv) ==
  inv.created /\ ~(inv.revoked \/ IsExpired(inv) \/ IsExhausted(inv))

\* _activate: the status becomes active, the role and the mute are kept.
\* Mutant of Activate: the role is reset to what the group's owner field says.
ActivateReseated(u) ==
  member' = [member EXCEPT ![u].status = "active",
                           ![u].role = IF u = Owner THEN "owner" ELSE @]
Activate(u) == member' = [member EXCEPT ![u].status = "active"]

SetStatus(u, s) == member' = [member EXCEPT ![u].status = s]

-----------------------------------------------------------------------------
(* Lifecycle *)

Update(a, v) ==
  /\ Routed
  /\ Require(a, "manage_group")
  /\ visibility' = v
  /\ UNCHANGED <<isDeleted, member, invite, request>>

\* Only the role is read: the row's status is not.
Delete(a) ==
  /\ Routed
  /\ member[a].role = "owner"
  /\ isDeleted' = TRUE
  /\ UNCHANGED <<visibility, member, invite, request>>

-----------------------------------------------------------------------------
(* Membership *)

\* Mutant of JoinPublic: the ban check is missing.
JoinPublicUnchecked(u) ==
  /\ Routed
  /\ visibility = "public"
  /\ ~Active(u)
  /\ Activate(u)
  /\ UNCHANGED <<visibility, isDeleted, invite, request>>

JoinPublic(u) ==
  /\ Routed
  /\ visibility = "public"
  /\ ~Banned(u)
  /\ ~Active(u)
  /\ Activate(u)
  /\ UNCHANGED <<visibility, isDeleted, invite, request>>

\* join on a private group: one pending request per user.
RequestToJoin(u) ==
  /\ Routed
  /\ visibility = "private"
  /\ ~Banned(u)
  /\ ~Active(u)
  /\ request' = [request EXCEPT ![u] = "pending"]
  /\ UNCHANGED <<visibility, isDeleted, member, invite>>

\* join_with_invite reads the group through the invite's foreign key, so a
\* tombstoned group still admits members.
JoinWithInvite(u, i) ==
  /\ IsUsable(invite[i])
  /\ invite[i].uses < UsesBound
  /\ ~Banned(u)
  /\ ~Active(u)
  /\ Activate(u)
  /\ invite' = [invite EXCEPT ![i].uses = @ + 1]
  /\ UNCHANGED <<visibility, isDeleted, request>>

\* Mutant of Leave: the group is looked up among all rows.
LeaveAnyGroup(u) ==
  /\ Active(u)
  /\ member[u].role # "owner"
  /\ SetStatus(u, "left")
  /\ UNCHANGED <<visibility, isDeleted, invite, request>>

Leave(u) ==
  /\ Routed
  /\ Active(u)
  /\ member[u].role # "owner"
  /\ SetStatus(u, "left")
  /\ UNCHANGED <<visibility, isDeleted, invite, request>>

-----------------------------------------------------------------------------
(* Moderation *)

Moderate(a, u, perm, s) ==
  /\ Routed
  /\ Require(a, perm)
  /\ Active(u)
  /\ member[u].role # "owner"
  /\ Outranks(member[a], member[u])
  /\ SetStatus(u, s)
  /\ UNCHANGED <<visibility, isDeleted, invite, request>>

Kick(a, u) == Moderate(a, u, "kick_members", "kicked")
Ban(a, u)  == Moderate(a, u, "ban_members", "banned")

\* No URL leads to unban: its caller already holds the group.
Unban(a, u) ==
  /\ Require(a, "ban_members")
  /\ Banned(u)
  /\ SetStatus(u, "left")
  /\ UNCHANGED <<visibility, isDeleted, invite, request>>

\* mute compares no ranks, and any number of minutes becomes at least one.
Mute(a, u) ==
  /\ Routed
  /\ Require(a, "mute_members")
  /\ Active(u)
  /\ member' = [member EXCEPT ![u].muted = TRUE]
  /\ UNCHANGED <<visibility, isDeleted, invite, request>>

\* Mutant of SetRole: any role name is accepted, the owner's included.
SetAnyRole(a, u, r) ==
  /\ Routed
  /\ Require(a, "manage_roles")
  /\ Active(u)
  /\ Outranks(member[a], member[u]) \/ a = Owner
  /\ member' = [member EXCEPT ![u].role = r]
  /\ UNCHANGED <<visibility, isDeleted, invite, request>>

\* Group.owner may change any row, his own included.
SetRole(a, u, r) ==
  /\ Routed
  /\ Require(a, "manage_roles")
  /\ r # "owner"
  /\ Active(u)
  /\ Outranks(member[a], member[u]) \/ a = Owner
  /\ member' = [member EXCEPT ![u].role = r]
  /\ UNCHANGED <<visibility, isDeleted, invite, request>>

-----------------------------------------------------------------------------
(* Invites *)

\* Mutant of CreateInvite: max_uses is stored as it came.
CreateInviteRaw(a, i, n, e) ==
  /\ Routed
  /\ Require(a, "manage_invites")
  /\ ~invite[i].created
  /\ invite' = [invite EXCEPT ![i] =
       [created |-> TRUE, maxUses |-> n, uses |-> 0, expiry |-> e, revoked |-> FALSE]]
  /\ UNCHANGED <<visibility, isDeleted, member, request>>

CreateInvite(a, i, n, e) ==
  /\ Routed
  /\ Require(a, "manage_invites")
  /\ ~invite[i].created
  /\ invite' = [invite EXCEPT ![i] =
       [created |-> TRUE, maxUses |-> IF n < 0 THEN 0 ELSE n, uses |-> 0,
        expiry |-> e, revoked |-> FALSE]]
  /\ UNCHANGED <<visibility, isDeleted, member, request>>

\* No URL leads to revoke_invite either.
RevokeInvite(a, i) ==
  /\ invite[i].created
  /\ Require(a, "manage_invites")
  /\ invite' = [invite EXCEPT ![i].revoked = TRUE]
  /\ UNCHANGED <<visibility, isDeleted, member, request>>

\* Mutant of RevokeExpiredInvites: the flag is recomputed for every link.
RecomputeRevoked ==
  /\ invite' = [i \in InviteIds |-> [invite[i] EXCEPT !.revoked = IsExpired(invite[i])]]
  /\ UNCHANGED <<visibility, isDeleted, member, request>>

\* Celery task groups.revoke_expired_invites, whenever it is called.
RevokeExpiredInvites ==
  /\ invite' = [i \in InviteIds |->
       IF invite[i].created /\ IsExpired(invite[i])
         THEN [invite[i] EXCEPT !.revoked = TRUE] ELSE invite[i]]
  /\ UNCHANGED <<visibility, isDeleted, member, request>>

-----------------------------------------------------------------------------
(* Join requests *)

\* Mutant of ApproveRequest: a decided request can be approved again.
ApproveAnyRequest(a, u) ==
  /\ Routed
  /\ Require(a, "approve_requests")
  /\ request[u] # "none"
  /\ Activate(u)
  /\ request' = [request EXCEPT ![u] = "approved"]
  /\ UNCHANGED <<visibility, isDeleted, invite>>

\* The requester's present row is not looked at: a ban made since is lifted.
ApproveRequest(a, u) ==
  /\ Routed
  /\ Require(a, "approve_requests")
  /\ request[u] = "pending"
  /\ Activate(u)
  /\ request' = [request EXCEPT ![u] = "approved"]
  /\ UNCHANGED <<visibility, isDeleted, invite>>

RejectRequest(a, u) ==
  /\ Routed
  /\ Require(a, "approve_requests")
  /\ request[u] = "pending"
  /\ request' = [request EXCEPT ![u] = "rejected"]
  /\ UNCHANGED <<visibility, isDeleted, member, invite>>

-----------------------------------------------------------------------------
(* The clock *)

InviteExpires(i) ==
  /\ invite[i].expiry = "future"
  /\ invite' = [invite EXCEPT ![i].expiry = "past"]
  /\ UNCHANGED <<visibility, isDeleted, member, request>>

MuteLapses(u) ==
  /\ member[u].muted
  /\ member' = [member EXCEPT ![u].muted = FALSE]
  /\ UNCHANGED <<visibility, isDeleted, invite, request>>

-----------------------------------------------------------------------------
Next ==
  \/ \E a \in Users, v \in VisibilityInputs : Update(a, v)
  \/ \E a \in Users : Delete(a)
  \/ \E u \in Users : JoinPublic(u)
  \/ \E u \in Users : RequestToJoin(u)
  \/ \E u \in Users, i \in InviteIds : JoinWithInvite(u, i)
  \/ \E u \in Users : Leave(u)
  \/ \E a, u \in Users : Kick(a, u)
  \/ \E a, u \in Users : Ban(a, u)
  \/ \E a, u \in Users : Unban(a, u)
  \/ \E a, u \in Users : Mute(a, u)
  \/ \E a, u \in Users, r \in RoleInputs : SetRole(a, u, r)
  \/ \E a \in Users, i \in InviteIds, n \in MaxUsesInputs, e \in Expiry :
       CreateInvite(a, i, n, e)
  \/ \E a \in Users, i \in InviteIds : RevokeInvite(a, i)
  \/ RevokeExpiredInvites
  \/ \E a, u \in Users : ApproveRequest(a, u)
  \/ \E a, u \in Users : RejectRequest(a, u)
  \/ \E i \in InviteIds : InviteExpires(i)
  \/ \E u \in Users : MuteLapses(u)

Spec == Init /\ [][Next]_vars
-----------------------------------------------------------------------------
(* Safety *)

\* The role "owner" sits on the creator's row only, and that row is active:
\* no sequence of set_role, leave, kick, ban and rejoin yields a second owner
\* or an owner outside the group.
OwnerSeat ==
  \A u \in Users : member[u].role = "owner" => u = Owner /\ Active(u)

\* A limited invite never admits more users than max_uses (is_exhausted is
\* read on every redeem), however often the same users leave and return.
InviteWithinLimit ==
  \A i \in InviteIds : invite[i].maxUses > 0 => invite[i].uses <= invite[i].maxUses

\* Once a link is not usable (revoked, expired or exhausted) nothing makes it
\* usable again: no operation of the service raises the limit, moves the
\* expiry or clears is_revoked.
InviteNeverRevives ==
  [][\A i \in InviteIds :
       invite[i].created /\ ~IsUsable(invite[i]) => ~IsUsable(invite[i]')]_vars

\* Someone outside becomes a member only by joining a live public group while
\* not banned, by spending one use of a usable invite while not banned, or by
\* the approval of a pending request.  This is what join, join_with_invite
\* and approve_request amount to together.
EntryIsEarned ==
  [][\A u \in Users : ~Active(u) /\ Active(u)' =>
       \/ ~isDeleted /\ visibility = "public" /\ ~Banned(u)
       \/ /\ ~Banned(u)
          /\ \E i \in InviteIds : /\ IsUsable(invite[i])
                                  /\ invite'[i].uses = invite[i].uses + 1
       \/ request[u] = "pending" /\ request'[u] = "approved"]_vars

\* A ban ends only while some active member may ban or approve: without one,
\* no route (public join, invite, change of visibility) lets the user back.
BanLiftedByModeratorOnly ==
  [][\A u \in Users : Banned(u) /\ ~Banned(u)' =>
       \E a \in Users : \/ Require(a, "ban_members")
                       \/ Require(a, "approve_requests")]_vars

\* When the owner has demoted himself (set_role lets Group.owner change any
\* row), the group can never be deleted again and never has an owner again.
OrphanedForever ==
  [][member[Owner].role # "owner" =>
       member[Owner].role' # "owner" /\ isDeleted' = isDeleted]_vars

\* Nobody rises above every other active member: a promotion gives a rank some
\* other active member already holds.  True while no custom role grants
\* manage_roles, because then only admins and the owner assign roles.
PromotionUnderCover ==
  [][\A u \in Users : ROLE_RANK[member[u].role]' > ROLE_RANK[member[u].role] =>
       \E a \in Users \ {u} :
         Active(a) /\ ROLE_RANK[member[a].role] >= ROLE_RANK[member[u].role]']_vars

\* The step neither puts anybody out, nor ranks or asks for anybody, nor makes
\* an invite.
StaysShut ==
  /\ visibility' = visibility /\ request' = request
  /\ \A u \in Users : /\ member[u].role' = member[u].role
                      /\ Active(u) => Active(u)'
  /\ \A i \in InviteIds : ~invite[i].created => ~invite'[i].created

\* A tombstone stays one, and under it the roster only grows: settings, roles
\* and requests are frozen, nobody active is let out, and the only way in is
\* an invite made before the deletion.
DeletedGroupSealed == [][isDeleted => isDeleted' /\ StaysShut]_vars

-----------------------------------------------------------------------------
(* What the repository says and the code does not do *)

\* services.py:198: "Owners must transfer ownership before leaving."  No
\* operation transfers ownership, so the creator should stay in the group.
OwnerNeverLeaves == Active(Owner)
=============================================================================
