CONSTANTS
  Window = {w1, w2, w3}
  Process = {p1,p2}
  None = None
  Runs = 2
  Polls = 2
  Requests = 2
  Prompt = {TRUE, FALSE}
  Offset <- SomeOffsets
  MaxLost = 2
SPECIFICATION DesktopSpec
INVARIANTS StartsRemembered ClosedByAsking WheelRests
PROPERTIES CloseAllTerminates
CHECK_DEADLOCK FALSE
