CONSTANTS
  owner = owner
  guest = guest
  link = link
  Users <- MCUsers
  Owner = owner
  InviteIds = {link}
  CustomGrants <- MCGrants
  VisibilityInputs <- MCVisibility
  RoleInputs = {"owner", "admin", "moderator", "member"}
  MaxUsesInputs <- MCMaxUses
  UsesBound = 2
SPECIFICATION Spec
INVARIANTS TypeOK OwnerSeat InviteWithinLimit
PROPERTIES InviteNeverRevives EntryIsEarned BanLiftedByModeratorOnly OrphanedForever PromotionUnderCover DeletedGroupSealed
