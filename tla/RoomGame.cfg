SPECIFICATION FairSpec
CONSTANTS
    Players <- TwoPlayers
    Owner = 1
    Starters <- OnlyOwner
    Updates <- PutBack
    None = None
    Songs = 2
    Points <- ZeroOrOne
    JudgeCap = 2
INVARIANTS TypeOK ScoresFollowAnswers TotalsRunOn PlaysCurrentSong FinalIsStored
PROPERTIES ImplementsGame NewSongHidden EndAnnounced
