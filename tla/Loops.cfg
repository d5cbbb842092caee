SPECIFICATION LoopsSpec
CONSTANTS
  Msg = {m1, m2}
  HASNAMEDPIPEBUG1 = FALSE
  MaxFaults = 2
  Kid = {1, 2}
  MaxCmd = 1
  ForkFails = TRUE
  Slot = {1, 2}
  truncreport = 1
  Notice = 1
  MaxText = 1
  MaxDel = 2
  Client = {1, 2, 3, 4}
  limit = 2
  Servers = 2
  Bytes = 2
  Nature = {"unusable", "works", "truncates", "udp only", "fails", "refuses", "silent"}
  MaxLevel = 3
  MaxNs = 2
  MaxServers = 2
  MaxAlias = 2
  MaxLoop = 8
  Dir = {1, 2}
  LogDir = {1}
  SERVICES = 2
  MaxFail = 1
INVARIANTS NoMissedWakeup SuperviseSafe SpawnSafe CountTrue TransmitSafe QuerySafe SvscanSafe
PROPERTY WaitEnds
CHECK_DEADLOCK FALSE
