SPECIFICATION Spec
CONSTANTS
  a = a
  b = b
  i1 = i1
  i2 = i2
  i3 = i3
  main = main
  NoEntry = NoEntry
  NoReg = NoReg
  NoTask = NoTask
  AnyPort = AnyPort
  Names = {a, b}
  Files = {"k1"}
  Modes = {"open", "enforce"}
  Ports = {1, 2}
  Entries = {i1, i2}
  Tasks = {main}
  Main = main
  NamesOf <- EveryName
  Foreign = {2}
  Crashes = {"serving", "restoring"}
  DiskFails = TRUE
INVARIANTS
  
  LimitSurvives
  
 
SYMMETRY Interchangeable
