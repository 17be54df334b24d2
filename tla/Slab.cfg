SPECIFICATION Spec
CONSTANTS
  PageSize = 4096
  Page = 8192
  Sizes = {160, 201, 256, 300, 500, 900}
CHECK_DEADLOCK FALSE
INVARIANTS
  TypeOK
  FreelistIntact
  LiveAreBusy
  NullMeansFull
  BuffersDisjointInPage
  WildOnlyBelowTwoBuffers
PROPERTY
  ImplementsSlotAllocator
