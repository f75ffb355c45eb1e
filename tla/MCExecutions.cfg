\* One job of three world settings, one rejected batch of three, one relationship job
\* claimed up to three times, one question of three parts, three questions of a
\* validation for two judges, a typo branch of three segments in two executions, every
\* episode of up to six characters, and a host that is set up by two rollouts.
SPECIFICATION ExecutionsSpec
CONSTANTS
  Sources = {1, 2, 3}
  Unit <- MCUnit
  Paths = {"root", "child", "other", "last", "scope"}
  Within <- MCWithin
  Footprints <- MCFootprints
  MaxRows = 3
  MaxRecoveryCalls = 2
  Workers = {w1, w2}
  MaxClaims = 3
  Settings = {1, 2, 3}
  MaxWorldAttempts = 2
  MaxResets = 1
  Parts = {1, 2, 3}
  Drafts <- MCDrafts
  MaxTools = 12
  MaxCalls = 9
  MaxModelCalls = 8
  MaxTries = 2
  MaxGroups = 3
  MaxSteps = 2
  MaxAnswers = 2
  Receipt = 2
  ReadLimit = 3
  MaxLength = 6
  ChunkTarget = 2
  ChunkMax = 3
  ChunkMin = 1
  WholeMax = 4
  TargetTokens = 6
  OverlapTokens = 2
  WindowSize = 5
  UnitChars = 2
  Questions = {1, 2, 3}
  Queries = {"same", "change", "last"}
  NoQuery = ""
  TargetQuery <- MCTargetQuery
  ChangeQuery <- MCChangeQuery
  FollowUps <- MCFollowUps
  JudgeSlots = 2
  MaxJudgeCalls = 3
  MaxLookups = 3
  MaxModel = 7
  TextLength = 5
  CoreChars = 2
  ContextChars = 1
  MaxTypoRuns = 2
  Rollouts = {k1, k2}
  NoRollout = NoRollout
  MaxEdits = 2
INVARIANTS RecoveryInv ResumesFrozen WithinLimits JudgingInv TypoInv SlicesCover BootstrapInv
PROPERTIES ClosedInTurn AnsweredStays
\* Every execution ends.
CHECK_DEADLOCK FALSE
