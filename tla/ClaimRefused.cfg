SPECIFICATION Spec
CONSTANTS
    Players <- TwoPlayers
    Owner = 1
    None = None
    Songs = 1
    Ranks <- OneRank
    AnswerCap = 1
    Polite = TRUE
    Inflight = 2
    Requests <- Answering
PROPERTY RefusedHasNoPlace
CHECK_DEADLOCK FALSE
