SPECIFICATION RejectionSpec
CONSTANTS
  Hashes = {h1, h2, h3}
  NoHash = NoHash
  Tabs = {t1, t2}
  NoTab = NoTab
  Slots = {r1, r2}
  LastStep = 3
  Watched = {}
  MaxFaults = 1
INVARIANT RejectedStepStaysResumable
