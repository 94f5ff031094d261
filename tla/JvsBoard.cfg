SPECIFICATION BoardSpec
CONSTANTS
    None = None
    Slots = 2
    Packet <- MCPackets
    Broadcast = 255
    Room = 176
    Longest = 254
    CountModulus = 2
    MaxPresses = 3
    MaxReturns = 1
    Modulus = 8
    SYNC = 6
    ESCAPE = 4
    BodySize = 8
    FIFO_SIZE = 30
    Message <- MCMessages
    Dest = {0}
    Datum = {4, 6}
    DataLength = {0, 3}
    Damaged <- MCDamaged
    Noise <- MCNoise
    Chunk = {1, 20}
    MaxSent = 3
    MaxLine = 12
    Aborts = TRUE
INVARIANTS
    CoinsAccounted
    CoinsFromEdges
    EveryCommandReported
    CountsAgree
    WireTyped
    HandledInOrder
    NothingHeldBack
    BackInStep
