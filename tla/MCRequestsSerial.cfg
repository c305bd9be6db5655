CONSTANTS
  owner = owner
  guest = guest
  w1 = w1
  w2 = w2
  link = link
  Workers = {w1}
  Users <- MCUsers
  Owner = owner
  Link = link
  CustomGrants <- MCGrants
  RowIds = {1, 2}
  Ops = {"join", "redeem", "leave", "kick", "ban", "unban", "set_role", "create_invite", "revoke_invite", "approve", "reject", "update", "delete"}
  VisibilityInputs = {"public", "private", "invite"}
  RoleInputs = {"admin", "member"}
  MaxUsesInputs = {1}
  UsesBound = 2
SPECIFICATION Spec
INVARIANTS TypeOK
PROPERTIES ImplementsGroupService
