CONSTANTS
  i = i
  a = a
  r = r
  Configs = {i, a, r}
  Initial = i
  Refused = {r}
  NotRead = NotRead
  PipeCap = 3
SPECIFICATION Spec
PROPERTIES
  RefusedNotArchived
