SPECIFICATION Spec
CONSTANTS
  a = a
  b = b
  Ids = {a, b}
  Limits = {1, 2}
  MaxCreates = 2
  Histories <- SameOrNot
CHECK_DEADLOCK FALSE
INVARIANTS
  ShellInv
  ProcessLimit
PROPERTIES
  ImplementsShellStream
  OwnEntryOnly
  ImplementsPtys
