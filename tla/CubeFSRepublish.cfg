SPECIFICATION RepublishSpec
CONSTANTS
    Caller = {t1}
    NoCaller = NoCaller
    Share = {a}
    MountPoint = {x}
    Client = {c1, c2}
    NoClient = NoClient
    MayFail = FALSE
PROPERTY
    RepublishReestablishes
