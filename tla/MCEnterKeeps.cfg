SPECIFICATION MCSpec
CONSTANTS
  Shells = {s1}
  Assignments <- MCAssignments
  OverrideLists <- MCOverrideLists
  Environments <- MCEnvironments
  InitialFiles <- MCInitialFiles
  Filters = {0, 11}
  TypedKeys <- MCTypedKeys
  MaxCommands = 2
  MaxTyped = 1
  MaxFaults = 1
  MaxStarts = 1
  Missing <- MCMissing
  Garbled <- MCGarbled
  NotWritten = NotWritten
  Down = Down
  Refused = Refused
  Processes = {p1}
  Owners = {anthropic}
  Keys = {k1}
  MaxVaultSteps = 1
  Absent = Absent
  Plain = Plain
  Torn = Torn
INVARIANTS EnterKeeps
CHECK_DEADLOCK FALSE
