SPECIFICATION OrphanSpec
CONSTANTS
  Id = {i1}
  Msg = {m1, m2}
  Chan = {local}
  None = None
  DEATH = 1
  Slack = 0
  OSSIFIED = 2
  MaxFaults = 1
INVARIANT NeverLost
