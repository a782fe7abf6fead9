SPECIFICATION Spec
CONSTANTS
  Workers = {p1, p2}
  Attempts = {a}
  Ipfs = {}
  TooLarge = {}
  MaxCalls = 3
  MaxSealPolls = 1
  Faults = {"lost", "lag", "provider"}
PROPERTY UnknownIsReconciled
CHECK_DEADLOCK FALSE
