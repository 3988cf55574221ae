SPECIFICATION MCSpec
CONSTANTS
  r1 = r1
  r2 = r2
  r3 = r3
  Requests = {r1, r2, r3}
  Compresses = {r1}
  Amount <- MCAmount
  MaxCrashes = 1
  Options = {on, off}
  DefaultOption = on
  MaxEvents = 7
  NotStored = NotStored
INVARIANTS CountedWhole LinesAreRequests CountersCoverTheLog StorageKeepsUp
CHECK_DEADLOCK FALSE
