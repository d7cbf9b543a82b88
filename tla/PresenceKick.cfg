SPECIFICATION Spec
CONSTANTS
    Conns = {c1, c2}
    Overlapping = TRUE
    Kicked = TRUE
INVARIANTS
    TypeOK
    NothingLeftBehind
    ServedIsRegistered
SYMMETRY Symmetry
\* the browser opens no third connection
CHECK_DEADLOCK FALSE
