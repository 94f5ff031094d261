SPECIFICATION Spec
CONSTANTS
    w1 = w1
    w2 = w2
    None = None
    Thread = {t1, t2}
    Read = {r1, r2}
    Write = {w1, w2}
    Silent <- LastWriteSilent
    MayExit = {t2}
    MayFail = {r1, w1}
    Length = {1, 2}
    MaxReply = 2
    Capacity = 2
    Timeouts = {}
    Modulus = 4
    Fallback = 1
INVARIANTS
    CompletedOnItsThread
    CompletedOnce
    NoCompletionLost
    BytesInOrder
