INIT Init
NEXT Next
INVARIANT DumpPlots
CHECK_DEADLOCK FALSE
