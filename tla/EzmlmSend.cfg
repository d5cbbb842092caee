SPECIFICATION EzmlmSendSpec
CONSTANTS
  Post = {"p1", "p2"}
  Admin = {"q1"}
  Addr = {"a", "b", "c"}
  FileOf <- TwoFiles
  File = {1, 2}
  LastFile = 2
  MaxNum = 2
  MaxSendDeath = 1
INVARIANT ExecMeansWhole
CHECK_DEADLOCK FALSE
