CONSTANTS
  Graphs <- GraphsMC
  Configs = {"minimal", "same", "other"}
  Conf <- ConfMC
  Minimal = "minimal"
  NoGraph = "none"
  Keep = 2
  MaxHistory = 4
  NotifyNode = {n1, n2}
  Rate = {1, 2}
  NotifyQueue = 1
  Minute = 1
  MaxGraphs = 2
  MaxDatagrams = 3
  MaxNotifyTime = 1
  Viewer = {v1, v2}
  RingSize = 2
  SubBuffer = 1
  MaxSeq = 4
  Ident <- IdentMC
  Shares <- SharesMC
  HttpPort = 2
  Condition = {"severity", "program"}
SYMMETRY Symmetric
SPECIFICATION MCSpec
INVARIANTS
  InStep
  NotifyCounted
  TapOnce
  ConfigFaithful
CHECK_DEADLOCK FALSE
