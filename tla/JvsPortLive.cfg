SPECIFICATION LiveSpec
CONSTANTS
    w1 = w1
    w2 = w2
    None = None
    Thread = {t1, t2}
    Read = {r1, r2}
    Write = {w1}
    Silent = {}
    MayExit = {t2}
    MayFail = {r1}
    Length = {1, 2}
    MaxReply = 1
    Capacity = 2
    Timeouts <- MCTimeouts
    Modulus = 4
    Fallback = 1
    FIFO_SIZE = 4
    Byte = {b1, b2}
    NoByte = noByte
    Request = {1, 2, 3}
INVARIANT
    WaitingIsWritten
PROPERTIES
    ReadEnds
    ShortAfterOwnWait
    ImplementsFifo
