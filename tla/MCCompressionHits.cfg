SPECIFICATION Spec
CONSTANTS
  a = a
  b = b
  grow = grow
  huge = huge
  r1 = r1
  r2 = r2
  s1 = s1
  s2 = s2
  Requests = {r1, r2}
  Settings = {s1}
  Texts <- MCTexts
  WorkLists <- MCWorkLists
  Capacity = 2
  RuleHits <- MCRuleHits
  Growing <- MCGrowing
  Uncacheable = {huge}
  MaxUsize = 7
INVARIANT EntryHitsAreTheTexts
CHECK_DEADLOCK FALSE
