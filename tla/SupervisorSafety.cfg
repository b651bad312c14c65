SPECIFICATION Spec
CONSTANTS
    N = 2
    Pid = {p1, p2}
    NoPid = NoPid
    Helper = {}
    Policies = {"never", "on-failure"}
    EventCap = 2
    CrunMayFail = TRUE
    Console = TRUE
SYMMETRY PidSymmetry
INVARIANTS
    TypeOK
    ClosedAtMostOnce
    IndexAccounted
    ConsumerDeletesOnlyExited
    NilReturnAfterExits
PROPERTY
    ImplementsLifecycle
