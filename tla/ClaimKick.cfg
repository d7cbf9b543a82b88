SPECIFICATION Spec
CONSTANTS
    Players <- TwoPlayers
    Owner = 1
    None = None
    Songs = 1
    Ranks <- OneRank
    AnswerCap = 1
    Polite = TRUE
    Inflight = 2
    Requests <- Kicking
INVARIANT KickReleasesTurn
CHECK_DEADLOCK FALSE
