CONSTANTS
  User = {ann, bob}
  Root = ann
  Role = {"viewer", "admin"}
  Proc = {p1, p2}
  Watched = {1}
  MaxToken = 2
  MaxTime = 2
  MaxEdits = 2
  Idles = {1, 2}
  CacheTTL = 1
  RecheckEvery = 1
  Source = {s1, s2}
  Attempt = {a1, a2}
  SourceMax = 2
  SourceWindow = 1
  AccountMax = 3
  AccountWindow = 2
  MaxNow = 3
  Member = {"a", "w"}
  FirstRole <- RolesMC
  Saver = {h1, h2}
  MaxBuckets = 1
  MaxSaves = 2
  MaxAccountEdits = 1
SYMMETRY Symmetric
SPECIFICATION MCSpec
INVARIANTS
  CacheLag
  TailLag
  SessionsEnd
  SharesReplaced
  GuessesBounded
CHECK_DEADLOCK FALSE
