CONSTANTS
  owner = owner
  guest = guest
  other = other
  w1 = w1
  w2 = w2
  w3 = w3
  NoWorker = NoWorker
  Workers = {w1, w2}
  Users = {owner, guest, other}
  Owner = owner
  Kinds = {"join"}
  CrashKinds = {}
SPECIFICATION Spec
INVARIANTS QuietCountExact
