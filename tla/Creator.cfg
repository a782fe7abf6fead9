SPECIFICATION CreatorSpec
CONSTANTS
  Workers = {w1, w2}
  Tabs = {t1, t2}
  None = None
  Unset = Unset
  Sessions = {t1, t2}
  Requests = {w1, w2}
  Observation = 1
  Lifetime = 3
  MaxAuthorityTime = 3
  Wallets = {t1, t2}
  Nonces = {"n"}
  Calls = {w1, w2}
  ChallengeTtl = 1
  SessionTtl = 2
  MaxAge = 1
  MaxTime = 2
  MaxSessions = 2
INVARIANTS DeployedOnce SignedOnce ReconciledIsFinal
  SessionIsEarned UsedAuthorityIsLive OneFirstAction
SYMMETRY Symmetry
CHECK_DEADLOCK FALSE
