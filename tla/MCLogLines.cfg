SPECIFICATION MCSpec
CONSTANTS
  r1 = r1
  r2 = r2
  r3 = r3
  Requests = {r1, r2}
  Compresses = {r1}
  Amount <- MCAmount
  MaxCrashes = 0
  Options = {on, off}
  DefaultOption = on
  MaxEvents = 0
  NotStored = NotStored
INVARIANT OneJsonPerLine
CHECK_DEADLOCK FALSE
