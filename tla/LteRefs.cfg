INIT LteInit
NEXT LteNext
CONSTANTS
  MaxArrivals = 3
  PacketSizes = {1}
  MaxTxBufferSize = 2
  Holders = 1
  Word = 64
INVARIANT KeptWhileReferred
CHECK_DEADLOCK FALSE
