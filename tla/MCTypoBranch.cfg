\* Two cores of two code points each, two executions.
SPECIFICATION TypoSpec
CONSTANTS
  TextLength = 4
  CoreChars = 2
  ContextChars = 1
  MaxTypoRuns = 2
PROPERTIES PublishedSegmentsResume
\* The last execution ends.
CHECK_DEADLOCK FALSE
