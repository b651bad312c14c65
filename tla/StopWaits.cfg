SPECIFICATION Spec
CONSTANTS
    N = 1
    Pid = {p1, p2}
    NoPid = NoPid
    Helper = {}
    Policies = {"never", "on-failure", "always"}
    EventCap = 4
    CrunMayFail = FALSE
    Console = TRUE
PROPERTY
    StopWaitsForContainers
