SPECIFICATION Spec
CONSTANTS
  PageSize = 4096
  Pages = {8192, 12288, 16384, 20480}
  AllocationSize = 300
  StartSize = 3
  GrowRate = 1
  MaxGrowRate = 1
CHECK_DEADLOCK FALSE
PROPERTY GrowsOnlyWhenFull
