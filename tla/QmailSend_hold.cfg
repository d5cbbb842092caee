SPECIFICATION FairSpec
CONSTANTS
  local = local
  remote = remote
  Id = {i1}
  Chan = {local, remote}
  None = None
  MaxRcpt = 1
  Conc <- NoLocal
  NumJobs = 1
  PqAddFails = FALSE
  MaxFaults = 0
PROPERTY OthersGoOn
CHECK_DEADLOCK FALSE
