CONSTANTS
  a = a
  b = b
  NoMsg = NoMsg
  Node <- MCNode
  Mate <- MCMate
  Slot = {1, 2}
  D = 1
  MaxUiLag = 1
  Prompt = TRUE
  Faults = {"lose", "duplicate", "crash", "sendto"}
  MaxFaults = 1
  MaxInc = 1
  MaxData = 0
SPECIFICATION FairSpec

PROPERTIES SurvivorTakesOver ConflictIsReported ShutdownEnds
