SPECIFICATION ShellSpec
CONSTANTS
  Ids = {1, 2}
  Align = 2
  MinSize = 4
  MinGrow = 2
  Lengths = {1, 3}
  MarkLengths = {0, 1, 4}
  MaxObjects = 1
  MaxMarks = 2
  MaxLeft = 4
  VarNames = {"x"}
  VarTexts = 2
  MaxLocals = 2
  MaxSaved = 2
  Levels = {1, 2}
  Rare = {"not", "or", "until", "for", "case", "redir", "background", "dot"}
  MaxNest = 2
  Characters = {"a", "b", "c", "m", "q", "x", "-", "+", "?", ":"}
  Lists <- ListValues
  OwnLists <- OwnListValues
  CommandLines <- CommandLineValues
  optstr <- Letter
  Addresses = {1, 2, 3, 4}
  MaxFunctions = 1
  Tree <- TreeValue
  Dests <- DestValues
  CDPATHs <- CDPATHValues
  Leaf <- LeafValue
CHECK_DEADLOCK FALSE
INVARIANTS
  StackSound
  VariablesSound
  ControlSound
  ParametersSound
  DirectorySound
PROPERTIES
  LocalsRestored
  SkipsArrive
  LogicalIsPhysical
