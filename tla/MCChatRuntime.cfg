\* One attempt, dispatched twice, with two calls at once, over two process starts.
SPECIFICATION Spec
CONSTANTS
  Attempts = {a1}
  Stuck = {}
  HandlerCalls = 2
  MaxTasks = 2
  MaxStarts = 2
  Capacity = 1
  MaxRows = 3
  Batch = 1
INVARIANTS ReportsInv HandledOnce PaidIsReported StoredAnswerKept
\* The last process ends.
CHECK_DEADLOCK FALSE
