SPECIFICATION Spec
CONSTANTS
    Unset = Unset
    Absent = Absent
    Broken = Broken
    ByName = ByName
    Bits = 4
    DefaultEnv <- MCDefaultEnv
    Host <- CubeFSHosts
    MayFail = FALSE
CHECK_DEADLOCK FALSE
INVARIANT
    CubeFSBoots
