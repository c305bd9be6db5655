CONSTANTS
  ann = ann
  bob = bob
  cas = cas
  NoUser = NoUser
  Users = {ann, bob}
  Tabs = {ann, bob}
  UserOf <- MCUserOf
  CallIds = {1, 2}
  Leaving = {ann}
  Expiring = {bob}
SPECIFICATION Spec
INVARIANTS TypeOK BusyWithOwnCall DeclinedNeverStarted NoDeadRing PeerNotLeftHanging
