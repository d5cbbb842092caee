SPECIFICATION Spec
CONSTANTS
  local = local
  remote = remote
  Id = {i1}
  Chan = {remote}
  None = None
  MaxRcpt = 1
  Conc <- TwoEach
  NumJobs = 2
  PqAddFails = TRUE
  MaxFaults = 2
INVARIANT PqChanComment
