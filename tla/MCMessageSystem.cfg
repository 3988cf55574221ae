SPECIFICATION Spec
CONSTANTS
  PreserveTurns = 2
  MinTurns = 3
  WindowTurns = 2
  WindowSlack = 1
  SemanticKeep = 2
  SemanticMin = 3
  MaxMessages = 6
PROPERTY SemanticKeepsSystem
CHECK_DEADLOCK FALSE
