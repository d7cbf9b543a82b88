SPECIFICATION Spec
CONSTANTS
    Players <- TwoPlayers
    Owner = 1
    Starters <- TwoPlayers
    Updates <- NoUpdates
    None = None
    Songs = 2
    Points <- ZeroOrOne
    JudgeCap = 2
PROPERTY LegalRoomMoves
