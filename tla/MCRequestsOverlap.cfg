CONSTANTS
  owner = owner
  guest = guest
  w1 = w1
  w2 = w2
  link = link
  Workers = {w1, w2}
  Users <- MCUsers
  Owner = owner
  Link = link
  CustomGrants <- MCGrants
  RowIds = {1, 2}
  Ops = {"join", "redeem", "leave", "kick", "ban", "unban", "set_role", "create_invite", "update", "delete"}
  VisibilityInputs = {"public"}
  RoleInputs = {"admin", "owner"}
  MaxUsesInputs = {1}
  UsesBound = 3
SPECIFICATION Spec
INVARIANTS OwnerSeat OverdraftBounded
PROPERTIES SettledBanHolds SealedForever
