SPECIFICATION FairSpec
CONSTANTS
    N = 1
    Pid = {p1, p2}
    NoPid = NoPid
    Helper = {h1}
    Policies = {"never", "on-failure"}
    EventCap = 2
    CrunMayFail = TRUE
    Console = TRUE
PROPERTIES
    ShutdownCompletes
    IndexedExitHandled
