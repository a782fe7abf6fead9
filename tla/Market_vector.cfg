SPECIFICATION MarketSpec
CONSTANTS
  Runs = {r1}
  Docs = {"d", "e"}
  Services = {"a"}
  Advertises <- BothAdvertise
  Explicit = {"d", "e"}
  Answers = {"healthy", "rejected"}
  Reviews = {TRUE, FALSE}
  Takedowns <- Moderations
  Sink = FALSE
  Reading = FALSE
  MaxAge = 1
  MaxTime = 0
  MaxVersions = 3
  None = None
  MaxRequests = 2
  Sellers = {"s"}
  Reference = "r"
  Deployments <- LiveProcess
  Asks <- SearchAndDetail
  Changes <- TakedownAndCapacity
  Ttl = 1
  FreshFor = 1
  Slots = 1
  LastTime = 2
  MaxLoads = 2
  MaxChanges = 1
  Nothing = Nothing
INVARIANT VectorHasCategory
CHECK_DEADLOCK FALSE
