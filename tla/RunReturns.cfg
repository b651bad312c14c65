SPECIFICATION FairSpec
CONSTANTS
    N = 1
    Pid = {p1, p2}
    NoPid = NoPid
    Helper = {}
    Policies = {"never", "on-failure"}
    EventCap = 4
    CrunMayFail = FALSE
    Console = TRUE
PROPERTY
    RunUnblocks
