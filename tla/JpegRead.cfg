CONSTANTS
  DCTSIZE = 2
  LastCoef = 3
  Jobs <- MCJobs
SPECIFICATION Spec
INVARIANTS RowsComplete SurvivorsInPlace
PROPERTIES DecoderEnds
CHECK_DEADLOCK FALSE
