\* Registration, undo failures and the history limit: few options, all items.
SPECIFICATION Spec
CONSTANTS
    sword = sword
    swordOfFire = swordOfFire
    shield = shield
    tonic = tonic
    ferocity = ferocity
    vigil = vigil
    echo = echo
    attackDamage = attackDamage
    health = health
    shout = shout
    NoOption = NoOption
    Items = {sword, swordOfFire, shield, tonic}
    VariantRoot <- MCVariantRoot
    FormTypeOf <- MCFormTypeOf
    Excluded = {}
    Nameless = {tonic}
    Options = {vigil}
    OptionDef <- MCOptionDef
    ActorValues = {health}
    ShoutRecovery = {}
    Magnitude <- MCMagnitude
    OtherSources = {1000, 310}
    EarnedBefore <- MCEarnedBefore
    UndoHistoryLimit = 2
    MaxUInt = 1000000
    MaxHave = 1
    MaxActionId = 4
INVARIANTS
    TypeOK
    HistoryMatchesRegistry
    ActionIdsAreFresh
    PointsAreRegistryWorth
PROPERTIES
    ConsumptionIsPaired
