SPECIFICATION FairSpec
CONSTANTS
  Id = {i1}
  Msg = {m1}
  Chan = {local, remote}
  None = None
  DEATH = 1
  Slack = 0
  OSSIFIED = 2
  MaxFaults = 2
PROPERTIES QueuedEnds LeftoversGo
