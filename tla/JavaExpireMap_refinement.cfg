\* Does the Java ExpireMap implement the ExpireMapIntf contract?  Callers may
\* stop calling, and a dead worker then does nothing, so the map may stop.
CONSTANTS
    k1 = k1
    k2 = k2
    Keys <- MCKeys
    Timeouts = {0, 1, 2}
    MaxIdle = 2
    AddDelMax0 = 2
    MaxTime = 3
    MaxPending = 4
SPECIFICATION Spec
PROPERTY ImplementsExpireMap
CHECK_DEADLOCK FALSE
