SPECIFICATION Spec
CONSTANTS
    Players <- TwoPlayers
    Owner = 1
    None = None
    Songs = 1
    Ranks <- TwoRanks
    AnswerCap = 2
    Polite = TRUE
    Inflight = 2
    Requests <- Answering
INVARIANT OneEntryEach
CHECK_DEADLOCK FALSE
