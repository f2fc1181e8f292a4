CONSTANTS
  a = a
  b = b
  NoMsg = NoMsg
  Node <- MCNode
  Mate <- MCMate
  Slot = {1}
  D = 1
  MaxUiLag = 1
  Prompt = FALSE
  Faults = {"lose", "crash", "bind", "select", "sendto"}
  MaxFaults = 1
  MaxInc = 2
  MaxData = 0
SPECIFICATION Spec
SYMMETRY Stations
INVARIANTS NeverOverstated ConflictIsReal ObjectOutlivesThread KeepAliveGap
