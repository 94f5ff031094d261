SPECIFICATION Spec
CONSTANTS
    Client = {c1, c2, c3}
    Viewer = {v1, v2}
    HeadLen = 2
    BodyLen = 2
    ViewLen = 2
    MayPause = {c1, v1}
    MayLeave = {c2, v2}
    MayFail = {}
    Loader = {"a", "b"}
    Cell = {1, 2}
    Dll = {"d1", "d2"}
    MaxRuns = 0
    Window = {w1, w2, o}
    Own = {w1, w2}
    MaxCaught = 3
    Hub = {"a", "b"}
    Port = {1, 2}
    Empty <- MCEmpty
    HubHandle = {"h", "k"}
    Chains = 2
    Siblings = 1
    MaxScans = 2
CHECK_DEADLOCK FALSE
INVARIANT
    ServerStays
