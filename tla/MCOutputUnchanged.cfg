SPECIFICATION ChatSpec
CONSTANTS
  Models = {{"claude", "/"}, {"gpt-"}}
  MaxPieces = 2
  MaxAsked = 1
  MaxSplits = 1
INVARIANT OutputUnchanged
CHECK_DEADLOCK FALSE
