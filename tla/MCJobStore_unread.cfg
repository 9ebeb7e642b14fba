CONSTANTS
  p1 = p1
  p2 = p2
  j1 = j1
  j2 = j2
  c1 = c1
  c2 = c2
  Procs = {p1}
  Jobs = {j1, j2}
  Cfgs = {c1, c2}
  Absent = Absent
  MaxChanges = 3
  MaxRestarts = 1
SPECIFICATION Spec
PROPERTY
  LastingStays
CHECK_DEADLOCK FALSE
