SPECIFICATION Spec
CONSTANTS
  Modulus = 8
  StartSNs <- MCStartSNs
  MaxLI = 2
  SduSizes = {1, 3}
  Opportunities = {2, 3, 10}
  MaxTxBufferSize = 5
  MaxSdus = 3
  Spread = 2
  MaxAwait = 1
  Duplicates = TRUE
INVARIANTS RlcTypeOK NoAliasing NeverStranded
PROPERTIES PromiseKept EverythingSent GapsClose
CHECK_DEADLOCK FALSE
