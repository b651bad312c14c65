SPECIFICATION Spec
CONSTANTS
    Proc = {p1, p2, p3}
    Status = {ok}
    EventCap = 2
    SigCap = 1
INVARIANTS
    TypeOK
    NoStrandedZombie
PROPERTIES
    EveryZombieCollected
    ImplementsService
