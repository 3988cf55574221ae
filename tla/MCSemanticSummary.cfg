SPECIFICATION Spec
CONSTANTS
  ask = ask
  ASK = ASK
  tool = tool
  u1 = u1
  u2 = u2
  r1 = r1
  r2 = r2
  r3 = r3
  None = None
  Requests = {r1, r2}
  Scopes = {u1, u2}
  Systems <- MCSystems
  Histories <- MCHistories
  Norm <- MCNorm
  Jobs <- MCJobs
  MaxEntries = 2
INVARIANT SummaryCoversHistory
CHECK_DEADLOCK FALSE
