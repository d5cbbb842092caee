SPECIFICATION MailSpec
CONSTANTS
  Id = {i1, i2, i3, i4}
  None = None
  lifetime = 2
  chanskip = 1
  SLEEP_SYSFAIL = 1
  HighBit = 1
  NumJobs = 1
  MaxBirth = 1
  MaxTime = 5
  MaxCut = 1
  Text <- MCText
  Rcpt <- MCRcpt
  Good = {1}
  databytes = 2
  Delivery = {d1, d2}
  Nobody = Nobody
  Cmds <- MCCmds
  Parts = 2
  MaxLocalDeath = 1
  MaxTry = 2
SYMMETRY Symmetry
INVARIANTS HeapRight OnceMore SmtpSafe LocalSafe
PROPERTY NotAtOnce
CHECK_DEADLOCK FALSE
