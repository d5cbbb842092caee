SPECIFICATION Spec
CONSTANTS
  local = local
  remote = remote
  Id = {i1}
  Chan = {remote}
  None = None
  MaxRcpt = 3
  Conc <- TwoEach
  NumJobs = 2
  PqAddFails = FALSE
  MaxFaults = 2
INVARIANTS OneDelivery TwiceOnlyExcused Accounted
PROPERTY RemovedWhenDone
