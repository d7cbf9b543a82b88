SPECIFICATION Spec
CONSTANTS
    Songs = {1, 2, 3}
    Requests = {r1, r2}
    Kinds = {"append", "insert", "remove", "batch", "clear", "shuffle"}
    NewOrders = {1, 2}
    Ahead = 2
    None = None
    Absent = Absent
    Unknown = Unknown
    WithGame = FALSE
SYMMETRY Symmetry
INVARIANTS
    TypeOK
    EverySongQueued
    FirstSongsAsked
PROPERTIES
    UndisturbedOrder
