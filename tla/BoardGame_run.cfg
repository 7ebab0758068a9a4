\* Every board of up to three rows and two columns read from stdin under its
\* own header, a header off by one in either count, or an unreadable one,
\* with and without -s; and the generator piped into the solver for a 2x5
\* board (every rock pattern), a zero size and a flag that does not scan.
CONSTANTS
    MaxRows = 3
    MaxCols = 2
    BadHeader = BadHeader
    None = None
    GenFlags <- MCGenFlags
SPECIFICATION Spec
INVARIANT TypeOK
INVARIANT RunMatchesReference
INVARIANT GeneratedBoardReadBack
CHECK_DEADLOCK FALSE
