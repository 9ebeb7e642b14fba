CONSTANTS
  i = i
  a = a
  r = r
  Configs = {i, a, r}
  Initial = i
  Refused = {r}
  NotRead = NotRead
  PipeCap = 2
SPECIFICATION FairSpec
INVARIANTS
  VerdictIsOurs
  RunsInstalled
  RefusalRestores
PROPERTIES
  ApplyAnswers
  ShutdownReturns
