SPECIFICATION SuperviseFair
CONSTANTS
  Kid = {1, 2}
  MaxCmd = 1
  ForkFails = TRUE
PROPERTY ComesUp
CHECK_DEADLOCK FALSE
