SPECIFICATION ReaderSpec
CONSTANTS
    ini = ini
    n1 = n1
    Thread = {t1}
    Message <- MCMessage
    FIFO = 64
    OutRoom = 3
    ReplyLen = 2
    Length = {1, 3}
    MaxSent = 2
    MaxReads = 2
    MaxQueued = 1
    Option <- MCOption
    Com = {1, 4}
    File = {ini}
    Native = {n1}
    Sectors = 2
    PerSector = 2
    Uid = {u1, u2}
    Datum = {d1}
    Zero = zero
    Trailer = trailer
    Dwell = 2
    MaxBoots = 3
    Faults = {"read", "open", "short", "cut"}
    Absent = absent
    Short = short
    None = None
INVARIANTS
    CommandsInOrder
    RepliesInOrder
    UidAgrees
    FileIsCard
    TouchedIsGranted
PROPERTIES
    ReadEnds
