SPECIFICATION MCSpec
CONSTANTS
  Flows = {h1, h2}
  Quantum = 3
  Limit = 3
  DropBatchSize = 2
  MaxPackets = 4
  MinBytes = 1
  Target = 1
  Interval = 2
  Gaps = {1}
  Sizes = {2}
  MaxArrivals = 4
  PacketSizes = {1, 2}
  MaxTxBufferSize = 2
  Holders = 1
  Segments = 7
  InitialWindow = 3
  MaxWindow = 4
  Word = 64
  Wrap = 64
INVARIANTS CountsAgree ListsMatchStatus CoupledAlike EveryByteTraced EchoTruthful EveryMarkCounts
PROPERTIES NoStarvation
CHECK_DEADLOCK FALSE
