SPECIFICATION FairSpec
CONSTANTS
    Players <- TwoPlayers
    Owner = 1
    None = None
    Songs = 1
    Ranks <- OneRank
    AnswerCap = 1
    Polite = TRUE
    Inflight = 2
    Requests <- Controlling
INVARIANT ReservedIsQueued
PROPERTY AttemptSeatsSomeone
CHECK_DEADLOCK FALSE
