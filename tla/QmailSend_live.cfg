SPECIFICATION FairSpec
CONSTANTS
  local = local
  remote = remote
  Id = {i1}
  Chan = {local, remote}
  None = None
  MaxRcpt = 1
  Conc <- OneEach
  NumJobs = 2
  PqAddFails = TRUE
  MaxFaults = 2
INVARIANTS OnePlace
PROPERTY EachEnds
