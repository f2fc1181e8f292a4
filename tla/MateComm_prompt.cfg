CONSTANTS
  a = a
  b = b
  NoMsg = NoMsg
  Node <- MCNode
  Mate <- MCMate
  Slot = {1, 2}
  D = 2
  MaxUiLag = 0
  Prompt = TRUE
  Faults = {"crash", "select", "sendto", "bind", "thread"}
  MaxFaults = 2
  MaxInc = 2
  MaxData = 1
SPECIFICATION Spec
SYMMETRY Stations
INVARIANTS OneMaster
PROPERTIES NoFalseTakeover
