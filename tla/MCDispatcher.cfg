CONSTANTS
  d1 = d1
  d2 = d2
  c1 = c1
  w1 = w1
  w2 = w2
  tick = tick
  api = api
  Deliveries = {d1, d2}
  Channels = {c1}
  ChannelOf <- OneChannel
  Workers = {w1, w2}
  Reloaders = {tick, api}
  Ticker = tick
  QueueDepth = 1
  Rate = 1
  MaxEdits = 1
  None = None
SPECIFICATION FairSpec
INVARIANTS
  OneFate
  RateHeld
PROPERTIES
  QueuedHandled
  CatchesUp
CHECK_DEADLOCK FALSE
