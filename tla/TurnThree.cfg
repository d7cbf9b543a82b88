SPECIFICATION Spec
CONSTANTS
    Players <- ThreePlayers
    Owner = 1
    None = None
    Songs = 1
    Ranks <- OneRank
    AnswerCap = 1
    Polite = TRUE
    Inflight = 2
    Requests <- Answering
INVARIANT ReservedIsQueued
CHECK_DEADLOCK FALSE
