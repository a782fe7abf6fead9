SPECIFICATION Spec
CONSTANTS
  Workers = {p1, p2}
  Attempts = {a}
  Ipfs = {}
  TooLarge = {}
  MaxCalls = 3
  MaxSealPolls = 1
  Faults = {"crash", "expire", "lag"}
INVARIANTS OneCreate
CHECK_DEADLOCK FALSE
