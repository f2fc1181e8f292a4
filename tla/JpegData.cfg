CONSTANTS
  RowValue = {0, 1}
  Zero = 0
  MaxRows = 4
  MaxAccess = 2
  Align = 2
  Header = 4
  Manager = 6
  Control = 3
  first_pool_slop <- FirstSlop
  extra_pool_slop <- ExtraSlop
  MIN_SLOP = 2
  MAX_ALLOC_CHUNK = 16
  MaxFiles = 1
  Limits = {30, 60}
  Sizes = {1, 5}
  Arrays <- SomeArrays
  Rooms = {10, 100}
  MaxArrays = 2
  MaxBlocks = 4
SPECIFICATION DataSpec
INVARIANTS PoolsSound CodesReadBack ColoursFit SamplesComeBack
PROPERTIES ImplementsArray ShareFits
CHECK_DEADLOCK FALSE
