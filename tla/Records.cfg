SPECIFICATION RecordsSpec
CONSTANTS
  Callers = {p1, p2}
  None = None
  Missing = None
  Jobs = {"j1", "j2"}
  Keys = {"k1", "k2", "k3"}
  Requests = {p1, p2}
  Ops = {"create", "update", "revoke"}
  MaxRequests = 4
  Attempts = {"a"}
  Publications = {"a"}
  Ipfs = {"i"}
  TooLarge = {"z"}
  MaxPublications = 4
  MaxSealPolls = 2
  Faults = {"lost", "lag"}
  Policies <- AskedPolicies
  Actions <- AskedActions
  Used <- ChargedBefore
  Destinations = {"local-test-only", "aws-secrets-manager"}
  Attestors = {"simulation", "authorized-live-adapter"}
  MaxAge = 1
  MaxLifetime = 3
  MaxSpend = 2
  MaxTime = 3
  MaxAttempts = 2
  Environments = {"hackathon", "preview"}
  MaxFiles = 2
INVARIANTS VerifiedEvidence OneCreate ReceiptIsOurs OneVerifiedReview PaidOnce PassedIsTrue EvidenceIsSettled
PROPERTY ImplementsContract
CONSTRAINT KeysInOrder
CHECK_DEADLOCK FALSE
