INIT Init
NEXT Next
INVARIANT LegendsTrue
CHECK_DEADLOCK FALSE
