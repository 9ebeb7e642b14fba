SPECIFICATION Spec
CONSTANTS
  Graphs <- GraphsMC
  Configs = {"minimal", "same", "other"}
  Conf <- ConfMC
  Minimal = "minimal"
  NoGraph = "none"
  Keep = 2
  MaxHistory = 4
INVARIANT InstalledIsKnown
