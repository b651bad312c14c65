SPECIFICATION FairSpec
CONSTANTS
    Unset = Unset
    Absent = Absent
    Broken = Broken
    ByName = ByName
    Bits = 4
    DefaultEnv <- MCDefaultEnv
    Host <- MCHost
    MayFail = TRUE
CHECK_DEADLOCK FALSE
INVARIANTS
    TypeOK
    StartsWhenSound
    RunsAsSpecified
    RootfsShown
    NetworkAsSpecified
PROPERTIES
    BootEnds
    UsesNetworkAsModelled
