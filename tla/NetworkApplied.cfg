SPECIFICATION Spec
CONSTANTS
    Caller = {c1, c2}
    Iface = {"eth0", "wg0"}
    Unset = Unset
    Broken = Broken
    Kernels <- MCKernels
    Batches <- MCBatches
    MayFail = TRUE
CHECK_DEADLOCK FALSE
INVARIANTS
    TypeOK
    ApplyConfigures
    KeysCleaned
    NewestOverlay
    OverlayReachable
PROPERTIES
    RepeatIsHarmless
    RejectedUntouched
