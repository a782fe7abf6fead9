SPECIFICATION Spec
CONSTANTS
  Hashes = {h1, h2, h3}
  NoHash = NoHash
  NoTab = NoTab
  NoTx = NoTx
  Requests = {r1}
  None = None
PROPERTIES FundingProjected SubmissionIsSettled FinalIsScanned FinalIsRegistered
CHECK_DEADLOCK FALSE
