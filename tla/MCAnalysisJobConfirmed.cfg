\* Two executions of one job in the unordered mode, whose writes are unfenced.
SPECIFICATION Spec
CONSTANTS
  MaxClaims = 2
  MaxSource = 2
  Modes = {"CONFIRMED_ONLY"}
  Reviews = {"MANUAL"}
INVARIANTS NoDuplicateCandidates
\* The job ends.
CHECK_DEADLOCK FALSE
