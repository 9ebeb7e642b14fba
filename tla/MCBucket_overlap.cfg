CONSTANTS
  Event = {1, 2, 3}
  QueueSize = 2
  MaxBatch = 2
  PageLimit = 1
  Retention = 1
  MaxAt = 2
  NumLimit = 3
  WindowLimit = 2
  Cond <- Conds
  Inside <- MadeOf
  Accepted <- Validate
  InMemory <- Match
  InSQL <- Selects
  RuleId = {1, 2}
  Tag = {"t"}
  Channel = {"c"}
  RuleBody <- Bodies
  Raw <- Raws
  Technique = {"T1"}
  Handler = {h1, h2}
  MaxRuleEdits = 3
  MaxReadErrors = 1
  Feed = {f1, f2}
  RefreshEvery = 1
  RetryMin = 1
  CheckEvery = 2
  MaxFeedFaults = 2
  MaxConfigEdits = 1
  MaxRestarts = 1
  Width = 3
  InternalPrefixes <- Internal_
  SpecialPrefixes <- Special_
  Category <- CategoryMC
  ScanCap = 2
  SampleIds = 1
  DrillLimit = 2
  ListLimit = 2
  MaxId = 5
  MaxTriage = 1
SPECIFICATION MCSpec
INVARIANT ContainsAny
CHECK_DEADLOCK FALSE
