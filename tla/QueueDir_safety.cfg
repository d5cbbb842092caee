SPECIFICATION Spec
CONSTANTS
  Id = {i1}
  Msg = {m1, m2}
  Chan = {local, remote}
  None = None
  DEATH = 1
  Slack = 0
  OSSIFIED = 2
  MaxFaults = 2
SYMMETRY Symmetry
INVARIANTS QueueStates FreshNumber OneOwner QueuedIntact NoLoss NoRedelivery PqMeaning Remembered
PROPERTIES CleanupSafe ImplementsLife
