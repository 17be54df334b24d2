SPECIFICATION Spec
CONSTANTS
  PageSize = 4096
  Page = 8192
  Sizes = {300, 500}
CHECK_DEADLOCK FALSE
INVARIANT StartExists
