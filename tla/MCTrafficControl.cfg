\* Queue discs and their device: four installations.
SPECIFICATION InstallSpec
CONSTANTS
  TxQueue = {1, 2}
  Disc = {1, 2}
  DiscOf <- MCDiscOf
  Quota = 2
  DiscLimit = 3
  TxLimit = 2
  WakeAt = 1
  FlowControl = TRUE
  MaxArrivals = 6
  ChildDiscOf <- MCChildDiscOf
  ChildLimit = 2
  ChildArrivals = 4
  SingleQueue = 1
  SingleTxLimit = 1
  SingleWakeAt = 0
INVARIANTS
  AllTypeOK
  RunOnce
  Accounting
  AllNoStall
  QuotaRespected
  AllRequeuesNeedBoth
  AllNoOverflow
PROPERTIES
  InOrder
  Drains
\* Arrivals are bounded: the model stops where the system would go on.
CHECK_DEADLOCK FALSE
