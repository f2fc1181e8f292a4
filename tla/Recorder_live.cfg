CONSTANTS
  LCtrl = LCtrl
  RCtrl = RCtrl
  LShift = LShift
  RShift = RShift
  Other = Other
  Move = Move
  NoFile = NoFile
  Touch = {LCtrl, RCtrl, LShift, RShift}
  Failures = {}
  W = 2
  Prep = 0
  Linger = 1
  MaxLag = 1
  MaxRec = 2
  MaxRun = 2
SPECIFICATION FairSpec
PROPERTIES PlaybackNeverRecords ReplaysForever ExitHappens
