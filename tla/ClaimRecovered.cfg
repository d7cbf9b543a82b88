SPECIFICATION Spec
CONSTANTS
    Owner = o
    Players = {o, p}
    Requests = {p}
    Songs = 2
    MaxTokens = 3
    Faults = 1
INVARIANT RecoveredOpens
