CONSTANTS
  few = few
  many = many
  p1 = p1
  p2 = p2
  p3 = p3
  k1 = k1
  k2 = k2
  Procs = {p1, p2, p3}
  Runs = {k1, k2}
  Cfgs = {few, many}
  Limit <- MCLimit
  MaxSent = 1
  NoRun = NoRun
SPECIFICATION FairSpec
INVARIANTS
  OneRun
  DeletedQuiet
PROPERTIES
  CancelledExits
  DeleteEnds
CHECK_DEADLOCK FALSE
