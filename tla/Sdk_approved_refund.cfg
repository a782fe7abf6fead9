\* The worker submits, the buyer may approve, the job expires and the buyer claims
\* the refund; one process that reconciles for ever, no crash.
CONSTANTS
  Hashes = {"create", "submit", "settle", "claim_refund"}
  NoHash = NoHash
  TxHashes = {"create", "submit", "settle", "claim_refund", "public", "hire0"}
  NoTx = NoTx
  Procs = {p1}
  ServiceKinds = {"claim_refund"}
  WorkerKinds = {"submit"}
  BrowserKinds = {}
  SellerKinds = {}
  PublicVerdicts = {}
  StartState = "funded"
  MaxCrashes = 0
SPECIFICATION FairSpec
PROPERTY RefundIsProjected
CHECK_DEADLOCK FALSE
