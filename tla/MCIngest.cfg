SPECIFICATION FairSpec
CONSTANTS
  Conns = {c1, c2}
  Records = {a, b, m, p, u}
  Malformed = {m}
  Unsourced = {u}
  Poison = {p}
  None = None
  QueueDepth = 1
  BatchSize = 2
  MaxCopies = 2
INVARIANTS
  OnePlace
  ShownInOrder
PROPERTIES
  Implements
  RunReturns
  QueuedSettles
