\* Two slots and three jobs that may run for ever, in a process that is started
\* twice; two executions of one job in either mode whose text may be edited once; one
\* comparison of two batches; three validations in two slots, and one of two requests.
SPECIFICATION WorkersSpec
CONSTANTS
  Jobs = {j1, j2, j3}
  Concurrency = 2
  MaxIterations = 0
  MaxStarts = 2
  None = None
  MaxClaims = 2
  MaxSource = 2
  Modes = {"CONFIRMED_ONLY", "ORDERED_PROVISIONAL"}
  Reviews = {"AUTOMATIC", "MANUAL"}
  Batches <- MCBatches
  MaxContextAttempts = 2
  Inspections = {i1, i2, i3}
  JobSlots = 2
  Requests = {r1, r2}
  MaxCancels = 2
INVARIANTS SchedulerInv OrderedKeepsOneRun ComparedBeforeNextDomain BuiltOnWhatStands SavedInv RunnerInv LedgerInv HttpClosedLast
PROPERTIES StoppedStartsNothing SavedRowsFrozen StoppedWorkerStaysSilent ImplementsStages WorkersProgress
\* The job, or the last process, ends.
CHECK_DEADLOCK FALSE
