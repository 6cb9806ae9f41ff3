\* Mario's death ends it: no check for deadlock.
SPECIFICATION PiesSpec
CONSTANT MarioStart = 233
INVARIANT PiesAreDeadly
CHECK_DEADLOCK FALSE
