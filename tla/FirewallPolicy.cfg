SPECIFICATION Spec
CONSTANTS
    Applier = {a1, a2}
    NoApplier = NoApplier
    Host = {1, 2}
    Port = {0, 1, 2}
    Ruleset <- MCRuleset
    Unset = Unset
    BadCidr = BadCidr
    NoPolicy = NoPolicy
    MaxDrops = 2
INVARIANTS
    TypeOK
    PolicyAsApplied
    ValidatedAsDocumented
    EveryDropCounted
    StatusAccurate
