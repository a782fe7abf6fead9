SPECIFICATION MCSpec
CONSTANTS
  Hashes = {h1, h2, h3}
  NoHash = NoHash
  Tabs = {t1, t2}
  NoTab = NoTab
  Slots = {r1, r2}
  LastStep = 3
  Watched = {1, 2, 3}
  MaxFaults = 1
SYMMETRY Symmetry
INVARIANTS TypeOK AtMostOneSend ConfirmedIsOnChain FundedProjection
PROPERTY ImplementsHireProtocol
