CONSTANTS
  DCTSIZE = 2
  LastCoef = 3
  Jobs <- MCSeparate
SPECIFICATION Spec
INVARIANTS TargetShown
CHECK_DEADLOCK FALSE
