CONSTANTS
  ada = ada
  bob = bob
  ada1 = ada1
  ada2 = ada2
  bob1 = bob1
  Person = {ada, bob}
  Socket = {ada1, ada2, bob1}
  Who <- MCWho
  Long = {2, 3}
  Mixes <- MCMixes
SPECIFICATION Spec
INVARIANTS TypeOK NoMessageMissed PagesFollowRows ReceiptsEarned PresenceTrue
PROPERTY TicksNeverGoBack
CHECK_DEADLOCK FALSE
