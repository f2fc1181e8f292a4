CONSTANTS
  B = 8
  MaxDigits = 2
  Byte = {0, 1, 2, 3}
  FF = 3
  modulus_len = 6
  Overhead = 4
  Base = 4
  Radix = 8
  Keys <- SomeKeys
SPECIFICATION CryptoSpec
INVARIANTS Exact ComputesExactly RoundTrip OnlyPadded
PROPERTIES ImplementsPadding
CHECK_DEADLOCK FALSE
