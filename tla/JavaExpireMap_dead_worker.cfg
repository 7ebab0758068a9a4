\* Is every overdue entry eventually removed while the map is not shut down?
\* One key and one timeout suffice for a re-put to share a deadline.  The map
\* may stop: callers are not obliged to call, and a dead worker does nothing.
CONSTANTS
    k1 = k1
    k2 = k2
    Keys <- MCOneKey
    Timeouts = {1}
    MaxIdle = 2
    AddDelMax0 = 2
    MaxTime = 2
    MaxPending = 4
SPECIFICATION FairSpec
PROPERTY ExpiredEventuallyRemoved
CHECK_DEADLOCK FALSE
