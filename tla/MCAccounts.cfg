CONSTANTS
  ada = ada
  bob = bob
  w1 = w1
  w2 = w2
  NoAddress = NoAddress
  Address = {ada, bob}
  first = first
  second = second
  Password = {first, second}
  Worker = {w1, w2}
  Flows <- MCFlows
  MaxWrong = 1
  MaxResend = 1
  MaxOpens = 1
SPECIFICATION Spec
SYMMETRY Symmetry
INVARIANTS TypeOK AcknowledgedKept GuessesBounded UsableTokenListed
PROPERTIES VerifiedKept ActivatedByMailedCode EmailByMailedCode ResetByMailedCode
CHECK_DEADLOCK FALSE
