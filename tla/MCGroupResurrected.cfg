CONSTANTS
  owner = owner
  guest = guest
  w1 = w1
  w2 = w2
  link = link
  Workers = {w1, w2}
  Users <- MCUsers
  Owner = owner
  Link = link
  CustomGrants <- MCGrants
  RowIds = {1}
  Ops = {"update", "delete"}
  VisibilityInputs = {"public"}
  RoleInputs = {"member"}
  MaxUsesInputs = {0}
  UsesBound = 1
SPECIFICATION Spec
PROPERTIES TombstoneStays
