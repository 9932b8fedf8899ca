SPECIFICATION FairSpec
CONSTANTS
  w1 = w1
  w2 = w2
  w3 = w3
  v1 = v1
  Streams = {"s1"}
  Channels = {"0"}
  Workers <- TwoWorkers
  Viewers = {v1}
  SignalCap = 2
  MaxGen = 1
  MaxReloads = 1
  ApiCalls = {"StreamDelete", "ChannelDelete", "ChannelReload"}
PROPERTIES DeletedStops OnDemandReleased ReloadReconnects
CHECK_DEADLOCK FALSE
