INIT Init
NEXT Next
INVARIANT LabelsTrue
CHECK_DEADLOCK FALSE
