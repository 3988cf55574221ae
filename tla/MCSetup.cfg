SPECIFICATION MCSpec
CONSTANTS
  Shells = {s1, s2}
  Assignments <- MCAssignments
  OverrideLists <- MCOverrideLists
  Environments <- MCEnvironments
  InitialFiles <- MCInitialFiles
  Filters = {0, 11}
  TypedKeys <- MCTypedKeys
  MaxCommands = 3
  MaxTyped = 1
  MaxFaults = 1
  MaxStarts = 1
  Missing <- MCMissing
  Garbled <- MCGarbled
  NotWritten = NotWritten
  Down = Down
  Refused = Refused
  Processes = {p1, p2}
  Owners = {anthropic, openai}
  Keys = {k1}
  MaxVaultSteps = 4
  Absent = Absent
  Plain = Plain
  Torn = Torn
INVARIANTS TypeOK WizardFileLoads EnterKeepsWhatIsThere ReportedKeysStay
PROPERTIES OnlyOverlapsLose ReportedSettingsReachServer
SYMMETRY Symmetry
CHECK_DEADLOCK FALSE
