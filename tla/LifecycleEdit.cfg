SPECIFICATION Spec
CONSTANTS
  w1 = w1
  w2 = w2
  w3 = w3
  v1 = v1
  Streams = {"s1"}
  Channels = {"0"}
  Workers <- TwoWorkers
  Viewers = {v1}
  SignalCap = 1
  MaxGen = 2
  MaxReloads = 1
  ApiCalls = {"StreamAdd", "StreamEdit", "StreamDelete", "StreamReload",
              "ChannelAdd", "ChannelEdit", "ChannelDelete", "ChannelReload", "StopAll"}
CONSTRAINT QuietShutdown
SYMMETRY WorkerSymmetry
INVARIANTS SingleWorker WorkerBudget LockHasWorker OnlineMeansSession StopsOnlyForReplaced FreezeNeedsReloads
CHECK_DEADLOCK FALSE
