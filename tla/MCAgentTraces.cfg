SPECIFICATION AgentSpec
CONSTANTS
  Traces = {t1, t2}
  Excerpts = {excerpt}
  ToolTurns = 1
  ThoughtTurns = 1
  SlidingTurns = 2
  WindowToolTurns = 2
  WindowThoughtTurns = 1
  Slack = 0
  SummaryOf = 2
  RecentTurns = 1
  ContextLengths = {9}
  WindowAt = 4
  MaxAgentMessages = 3
  ResultSizes = {2, 3}
  MaxTraces = 2
  None = None
INVARIANT PlaceholdersAlwaysPoint
CHECK_DEADLOCK FALSE
