CONSTANTS
  LCtrl = LCtrl
  RCtrl = RCtrl
  LShift = LShift
  RShift = RShift
  Other = Other
  Move = Move
  NoFile = NoFile
  Touch = {LCtrl, RCtrl, Move}
  Failures = {"write", "hook"}
  W = 3
  Prep = 1
  Linger = 1
  MaxLag = 2
  MaxRec = 2
  MaxRun = 2
SPECIFICATION Spec
INVARIANTS LastRecordIsState
PROPERTIES OnePressOneStep PlaybackPace
