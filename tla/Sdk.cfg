\* The reference worker submits (scene "submit"), a crash may stop a worker or a
\* request; three actions of the repository, two of them overlapping, up to the
\* expiry of the job.  MC_Sdk gives the constants of the other scenes.
SPECIFICATION SdkSpec
CONSTANTS
  Procs = {p1, p2}
  Hashes = {"create", "submit", "settle", "claim_refund"}
  NoHash = NoHash
  TxHashes = {"create", "submit", "settle", "claim_refund", "public", "hire0"}
  NoTx = NoTx
  ServiceKinds = {}
  WorkerKinds = {"submit"}
  BrowserKinds = {}
  SellerKinds = {}
  PublicVerdicts = {}
  StartState = "funded"
  MaxCrashes = 1
  Keys = {1, 2, 3}
  Lead = 1
  Horizon = 4
  Expiry = 3
  MinBudget = 1
  MaxBudget = 2
  InputDefects = {"none", "other pin"}
  MaxTime = 3
  MaxWaiting = 2
  None = None
INVARIANTS OneSend ReconciledIsProjected ProjectionAgrees SubmittedOnce OnePostPerJob CursorMissesNothing JobIsItsEvents
PROPERTY ApprovalSurvives
CONSTRAINT KeysInOrder
SYMMETRY Symmetry
CHECK_DEADLOCK FALSE
