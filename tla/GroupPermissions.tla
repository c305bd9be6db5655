-------------------------- MODULE GroupPermissions --------------------------
(***************************************************************************)
(* Who may do what in a group: the permission sets of the four role tiers, *)
(* the union with a custom role's grants, and the rank order the moderation*)
(* checks use (src/apps/groups/permissions.py).  A membership row is a     *)
(* record with fields role and status; a custom role is only the set of    *)
(* permissions it grants.                                                  *)
(***************************************************************************)
EXTENDS Integers

Role == {"owner", "admin", "moderator", "member"}

\* "none" stands for "no GroupMember row": the code's `existing is None`.
Status == {"none", "active", "left", "kicked", "banned"}

GroupPerm ==
  {"send_messages", "delete_messages", "pin_messages", "post_announcement",
   "invite_members", "manage_invites", "kick_members", "ban_members",
   "mute_members", "manage_roles", "manage_group", "delete_group",
   "approve_requests"}

MemberPerms == {"send_messages", "invite_members"}

\* Mutant of ModeratorPerms: moderators may assign roles.
RoleManagingModerators ==
  MemberPerms \union
    {"delete_messages", "pin_messages", "mute_members", "kick_members",
     "manage_roles"}

ModeratorPerms ==
  MemberPerms \union
    {"delete_messages", "pin_messages", "mute_members", "kick_members"}

AdminPerms ==
  ModeratorPerms \union
    {"ban_members", "manage_roles", "manage_group", "manage_invites",
     "post_announcement", "approve_requests"}

OwnerPerms == AdminPerms \union {"delete_group"}

ROLE_DEFAULTS ==
  [owner |-> OwnerPerms, admin |-> AdminPerms,
   moderator |-> ModeratorPerms, member |-> MemberPerms]

ROLE_RANK == [member |-> 0, moderator |-> 1, admin |-> 2, owner |-> 3]

IsActive(m) == m.status = "active"

\* grants is what the row's custom role adds (the empty set without one).
EffectivePermissions(m, grants) ==
  IF IsActive(m) THEN ROLE_DEFAULTS[m.role] \union grants ELSE {}

Can(m, grants, perm) == perm \in EffectivePermissions(m, grants)

Outranks(actor, target) == ROLE_RANK[actor.role] > ROLE_RANK[target.role]
=============================================================================
