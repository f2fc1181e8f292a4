CONSTANTS
  plain = plain
  browser = browser
  Plain = {plain}
  Browser = {browser}
  Form = Form
  None = None
  MinSize <- Sizes
  Screen <- Monitor
  Base = 4
  Region <- Start
  Gap <- Gaps
  Grip <- Grips
  MaxMoves = 3
  MaxNet = 2
  MaxCopies = 1
  MaxKeys = 2
SPECIFICATION FairSpec
INVARIANTS LearntIsTrue OneJump ShowsLast
PROPERTIES FullScreenReached
CHECK_DEADLOCK FALSE
