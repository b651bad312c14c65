SPECIFICATION FairSpec
CONSTANTS
    Caller = {t1, t2}
    NoCaller = NoCaller
    Share = {a, b}
    MountPoint = {x, y}
    Client = {c1, c2}
    NoClient = NoClient
    MayFail = TRUE
INVARIANTS
    TypeOK
    ClientsAccounted
    OneClientPerShare
PROPERTIES
    TornDown
    CallsReturn
