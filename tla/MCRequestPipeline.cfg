SPECIFICATION MCSpec
CONSTANTS
  PreserveTurns = 2
  MinTurns = 3
  WindowTurns = 2
  WindowSlack = 1
  SemanticKeep = 3
  SemanticMin = 4
  MaxMessages = 7
  Width = 4
  Ages = {1, 2, 8}
  BaseLevels <- MCBaseLevels
  Sizes <- MCSizes
  Absent = Absent
  Unreadable = Unreadable
  Traces = {overflow, timeout}
  Excerpts = {excerpt}
  MaxTraces = 1
  MaxAgentMessages = 5
  ResultSizes = {2, 3}
  ToolTurns = 1
  ThoughtTurns = 1
  WindowAt = 4
  SlidingTurns = 2
  WindowToolTurns = 2
  WindowThoughtTurns = 1
  Slack = 0
  SummaryOf = 2
  RecentTurns = 1
  ContextLengths = {3, 5, 9}
  None = None
  Models = {{"claude", "/"}, {"gpt-"}}
  MaxPieces = 3
  MaxAsked = 2
  MaxSplits = 2
  Texts = {a, b}
  MaxRules = 3
  NoMatch = NoMatch
INVARIANTS TypeOK ResultsHaveUses ContextKeepsPairs CallsStayAnswered OrphansOnlyAtTheCut InOrderOnce LatestTurnsSurvive NewestTurnsIntactIfAlternating PlaceholdersPoint PrefilterIsExact LossIsLocal RequestsTellWhatWasSaid
PROPERTIES PrefixStaysCached CutStaysCut PrefixStays LevelNeverFalls
SYMMETRY Symmetry
CHECK_DEADLOCK FALSE
