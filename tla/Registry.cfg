SPECIFICATION RegistrySpec
CONSTANTS
  Workers = {w1, w2}
  Calls = {w1, w2}
  Kinds = {"claim", "revalidate", "reconcile", "revoke"}
  Owners = {"x", "y"}
  MaxBlocks = 2
  MaxCalls = 3
INVARIANTS ScannedIsFinal ClaimedByOwner NothingSkipped PassedIsEmbedded
CHECK_DEADLOCK FALSE
