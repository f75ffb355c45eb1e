\* Two callers compete for one permit; each may retry its request once.
SPECIFICATION Spec
CONSTANTS
  job = job
  Callers = {c1, c2}
  Jobs = {job}
  JobOf <- OneJob
  Permits = 1
  MaxRetries = 1
  Tries = 1
SYMMETRY CallerSymmetry
INVARIANTS IInv
PROPERTIES CloseDecidedOnce ImplementsContract
CHECK_DEADLOCK FALSE
