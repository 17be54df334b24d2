SPECIFICATION Spec
CONSTANTS
  Base = 4
  aBase = 2
  aDigitLog = 2
  aDigits = 2
  pDigits = 1
  MaxDigits = 3
  MaxText = 5
  MaxPower = 6
  Cells = {1, 2, 3}
  Sizes = {1, 2}
  CacheSize = 2
  CacheLimit = 1
  RefLimit = 16
  MaxCalls = 1
  MaxPending = 2
  Composites = {91, 1333, 1517, 2021, 2491, 3127, 961, 3599}
  Multipliers = {1, 2, 5}
  BaseSizes = {3, 6}
  PrimeLimit = 60
  EarlyAborts <- Aborts
  MaxCount = 12
CHECK_DEADLOCK FALSE
INVARIANTS
  ArithmeticExact
  TextExact
  MemorySound
  RelationsSound
PROPERTY
  PcfracEnds
