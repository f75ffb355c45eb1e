\* The results of s1 are never answered; the loop sends one result at a time.
SPECIFICATION FairSpec
CONSTANTS
  Attempts = {a1, s1}
  Stuck = {s1}
  HandlerCalls = 0
  MaxTasks = 1
  MaxStarts = 1
  Capacity = 2
  MaxRows = 4
  Batch = 1
PROPERTIES ReportsLeave
CHECK_DEADLOCK FALSE
