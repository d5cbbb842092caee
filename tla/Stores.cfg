SPECIFICATION StoresSpec
CONSTANTS
  p1 = p1
  p2 = p2
  Remote = {p1, p2}
  Ip = {a1, a2}
  NoIp = NoIp
  Record = {1, 2}
  Gap = 1
  Hold <- MCHold
  Weight = 1
  MaxCount = 2
  MaxTcptoTime = 3
  Mail = {1}
  Session = {s1, s2}
  Alarm = 1
  OldFile = 2
  MaxClock = 3
  MaxCrash = 1
  Ino = {1, 2, 3, 4, 5, 6}
  Size = 3
  Tail0 = 1
  Num = 2
  MaxBuf = 2
  MaxText = 4
  MaxLogDeath = 1
  Key = {1, 2, 3}
  KeyLen <- MCKeyLen
  KeyHash <- MCKeyHash
  Data = {1, 2}
  DataLen <- MCDataLen
  cachesize = 128
  MaxDepth = 1
  Ttl = {1, 3}
  MaxTtl = 1
  MaxNow = 2
  MaxClient = 3
  QKey = {k1, k2}
  Post = {"p1", "p2"}
  Admin = {"q1", "q2"}
  Addr = {"a", "b", "c"}
  FileOf <- MCFileOf
  File = {1, 2}
  LastFile = 2
  MaxNum = 3
  MaxSendDeath = 1
  MaxBounceDeath = 1
  Store = {"post"}
  Click = {"c1", "c2"}
  Cleaner = "clean"
  Base = {1, 2}
  MaxModFault = 2
  Person = {"m", "x"}
  Mod = {"m"}
  List = {"list", "digest"}
  Option <- MCOption
  Valid = 1
  Text = {"t1", "t2", "t3"}
  Editor = {"e1", "e2"}
  EditValid = 1
  MaxCookie = 2
  MaxDate = 2
  MaxEditDeath = 1
INVARIANTS TcptoSafe MaildirSafe MultilogSafe CacheSafe QmergeSafe EzmlmSendSafe TwentyDays ModerateSafe ManageSafe
CHECK_DEADLOCK FALSE
