\* Two callers on one permit whose ledger posts are lost, repeated and answered late.
SPECIFICATION FairSpec
CONSTANTS
  job = job
  Callers = {c1, c2}
  Jobs = {job}
  JobOf <- OneJob
  Permits = 1
  MaxRetries = 0
  Tries = 2
PROPERTIES ReservationsClose CallersEnd
CHECK_DEADLOCK FALSE
