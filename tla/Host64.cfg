SPECIFICATION Spec
CONSTANTS
    Thread = {t1, t2}
    Path = {"core", "ini"}
    Handle = {1, 2}
    FtMax = 3
    MaxOpens = 4
    Asker = {t1, t2}
    Ticker = tick
    MaxInits = 1
    Patience = 2
    MaxFrames = 1
INVARIANTS
    ReadsNamedRight
    AccessorFindsBoard
PROPERTIES
    BoardStaysUp
    StallsReported
