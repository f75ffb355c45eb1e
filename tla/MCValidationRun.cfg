\* Two executions of a job with two planner segments, two questions and a typo segment.
SPECIFICATION FairSpec
CONSTANTS
  NumSegments = 2
  NumQuestions = 2
  NumTypos = 1
  JudgeConcurrency = 2
  MaxClaims = 2
  Overlap = FALSE
INVARIANTS ReportIsTrue NothingPublishedTwice
PROPERTIES DecisionsStay StoppedIsQuiet RunsEnd
\* The job ends.
CHECK_DEADLOCK FALSE
