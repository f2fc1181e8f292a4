CONSTANTS
  DCTSIZE = 2
  LastCoef = 3
  Images <- MCImages
  Later <- MCLater
  MaxImages = 2
  Suspends = TRUE
SPECIFICATION Spec
INVARIANTS TablesSuffice
PROPERTIES Refines Finishes
CHECK_DEADLOCK FALSE
