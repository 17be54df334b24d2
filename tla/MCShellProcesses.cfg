SPECIFICATION ProcessesSpec
CONSTANTS
  Pids = {1, 2}
  Processes = {1, 2}
  TabGrow = 1
  Low = 2
  MaxFd = 10
  Files = {"a"}
  MaxFrames = 2
  SigOrder <- Order
  MaxDepth = 2
  Names = {"a"}
  Values = {1, 2}
  LineLength = 1
  MaxFiles = 2
  MaxTexts = 2
  Paths <- PathValues
  defpath <- AbsPath
  Dirs = {"d1", "d2"}
  Functions = {1, 2, 3}
  MaxRunning = 2
CHECK_DEADLOCK FALSE
INVARIANTS
  JobsSound
  DescriptorsSound
  TrapsSound
  AliasesSound
  CommandsSound
PROPERTIES
  WaitEnds
  RedirectionsUndone
  UngotComesBack
