INIT MCInit
NEXT MCNext
CONSTANTS
  MaxSims = 3
  MaxLines = 12
  MaxRows = 2
  Traces <- MCTraces
INVARIANTS PlotHonest CompareHonest EveryLookupFinds ApiComplete
PROPERTIES RowsAligned FreshRows
CHECK_DEADLOCK FALSE
