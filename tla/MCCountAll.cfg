CONSTANTS
  owner = owner
  guest = guest
  other = other
  w1 = w1
  w2 = w2
  w3 = w3
  NoWorker = NoWorker
  Workers = {w1, w2}
  Users = {owner, guest}
  Owner = owner
  Kinds = {"tx", "join", "unban", "touch", "update"}
  CrashKinds = {"tx", "insert", "touch", "update"}
SPECIFICATION FairSpec
INVARIANTS CountUnderLock
PROPERTIES ChangeRepairsCount EveryRequestEnds
