\* Safety of the Go cache: two clients, three ticks, a log of three records.
CONSTANTS
    k1 = k1
    k2 = k2
    c1 = c1
    c2 = c2
    Keys <- MCKeys
    Clients <- MCClients
    Timeouts = {1, 2}
    MaxTime = 3
    MaxLog = 3
    MaxCacheSize = 2
    PendingRatio = 1
    PendingMax = 1

SPECIFICATION Spec

INVARIANT TypeOK
INVARIANT LiveEntryScheduled
INVARIANT LadderWellFormed

\* Behaviours end where the clock, log and size bounds stop the clients.
CHECK_DEADLOCK FALSE
