SPECIFICATION MemorySpec
CONSTANTS
  PageSize = 4096
  Page = 8192
  Sizes = {256}
  Bytes = {0, 255}
CHECK_DEADLOCK FALSE
INVARIANT DeallocFindsBusy
