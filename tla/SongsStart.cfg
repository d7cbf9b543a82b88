SPECIFICATION FairSpec
CONSTANTS
    Songs = {1, 2}
    Requests = {r1, r2}
    Kinds = {"insert", "remove", "shuffle"}
    NewOrders = {}
    Ahead = 1
    None = None
    Absent = Absent
    Unknown = Unknown
    WithGame = TRUE
PROPERTIES
    RequestsEnd
    GameCanStart
CHECK_DEADLOCK FALSE
