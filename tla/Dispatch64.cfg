SPECIFICATION Spec
CONSTANTS
    Thread = {t1, t2}
    Main = t1
    Entry = "start"
    Plain = {"start", "f"}
    Logged = {"logged"}
    Gap = {"gap"}
    Answered = {"answered"}
    Forwarded = {"import"}
    Walker = {"initterm"}
    CsMax = 2
    DumpMax = 2
    StallMax = 1
    TcMax = 1
    MaxFrames = 6
    MaxNest = 2
    MaxCalls = 6
INVARIANTS
    StackBalanced
    CrashReportTrue
