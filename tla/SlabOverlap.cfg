SPECIFICATION Spec
CONSTANTS
  PageSize = 4096
  Page = 8192
  Sizes = {256}
CHECK_DEADLOCK FALSE
INVARIANT DataBehindBufctls
