\* An attempt dispatched again while the first report of a failed start still waits.
SPECIFICATION Spec
CONSTANTS
  Attempts = {a1}
  Stuck = {}
  HandlerCalls = 0
  MaxTasks = 2
  MaxStarts = 1
  Capacity = 1
  MaxRows = 3
  Batch = 1
PROPERTIES OwnersResultStored
CHECK_DEADLOCK FALSE
