SPECIFICATION Spec
CONSTANTS
    Players <- TwoPlayers
    Owner = 1
    None = None
    Songs = 2
    Ranks <- OneRank
    AnswerCap = 1
    Polite = TRUE
    Inflight = 2
    Requests <- Skipping
INVARIANTS TypeOK NoAnswerAhead
PROPERTY ImplementsLock
CHECK_DEADLOCK FALSE
