SPECIFICATION Spec
CONSTANTS
  PageSize = 4096
  Pages = {8192, 12288, 16384, 20480}
  CacheSizes = {300, 400}
  StartSize = 1
  GrowRate = 1
  MaxGrowRate = 1
  MallocPtrs = {40960, 45056}
  RequestSizes = {300, 301, 500}
  Values = {"written"}
  MaxHeld = 3
  MaxInits = 2
CHECK_DEADLOCK FALSE
INVARIANTS
  SmallocTypeOK
  PoolsApart
  HeldAreBusy
  NoOverflowNoNull
PROPERTY
  ImplementsHeap
