SPECIFICATION Spec
CONSTANTS
  PageSize = 4096
  Pages = {8192, 12288, 16384, 20480}
  AllocationSize = 300
  StartSize = 2
  GrowRate = 2
  MaxGrowRate = 1
CHECK_DEADLOCK FALSE
INVARIANTS
  PoolTypeOK
  ListIntact
  PoolLiveAreBusy
  BalanceCountsSlabs
  AllocateNeverNull
  WildOnlyWithoutMemory
PROPERTY
  ImplementsBlockAllocator
