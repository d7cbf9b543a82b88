SPECIFICATION FairSpec
CONSTANTS
    Conns = {c1, c2}
    Overlapping = FALSE
    Kicked = FALSE
PROPERTIES
    BackOnline
    BackTold
    GoneIsTold
\* the browser opens no third connection
CHECK_DEADLOCK FALSE
