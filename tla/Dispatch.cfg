SPECIFICATION Spec
CONSTANTS
    forwarded = forwarded
    unknown = unknown
    wrapping = wrapping
    written = written
    bare = bare
    unwinding = unwinding
    leaving = leaving
    absent = absent
    initterm = initterm
    initterm_e = initterm_e
    method = method
    Guest = {1, 2, 3}
    Lifted = {1, 2}
    Import = {forwarded, unknown, wrapping, written, bare, unwinding, leaving, absent, initterm, initterm_e}
    Native = {method}
    Highest = 4
    Pops <- MCPops
    Purge <- MCPurge
    Handler <- MCHandler
    InitTable <- MCInitTable
    Page <- MCPage
    Bindings = 2
    CacheSize = 1
    Entry = 1
    MaxDepth = 5
CHECK_DEADLOCK FALSE
INVARIANTS
    TypeOK
    BoundAnswered
    Balanced
