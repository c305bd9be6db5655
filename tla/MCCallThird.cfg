CONSTANTS
  ann = ann
  bob = bob
  cas = cas
  NoUser = NoUser
  Users = {ann, bob, cas}
  Tabs = {ann, bob, cas}
  UserOf <- MCUserOf
  CallIds = {1, 2}
  Leaving = {ann}
  Expiring = {}
SPECIFICATION Spec
INVARIANTS PeerNotLeftHanging
