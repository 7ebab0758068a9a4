\* A Put during the purger's publish window is never scheduled.
CONSTANTS
    k1 = k1
    k2 = k2
    c1 = c1
    c2 = c2
    Keys <- MCKeys
    Clients <- MCOneClient
    Timeouts = {1, 2}
    MaxTime = 2
    MaxLog = 2
    MaxCacheSize = 2
    PendingRatio = 1
    PendingMax = 1

SPECIFICATION Spec

PROPERTY OverdueEventuallyEvicted

\* Behaviours end where the clock, log and size bounds stop the clients.
CHECK_DEADLOCK FALSE
