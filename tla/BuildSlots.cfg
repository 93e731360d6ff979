\* Options becoming eligible and ineligible under registrations and undos.
SPECIFICATION Spec
CONSTANTS
    sword = sword
    swordOfFire = swordOfFire
    shield = shield
    tonic = tonic
    ferocity = ferocity
    vigil = vigil
    echo = echo
    attackDamage = attackDamage
    health = health
    shout = shout
    NoOption = NoOption
    Items = {sword, tonic}
    VariantRoot <- MCVariantRoot
    FormTypeOf <- MCFormTypeOf
    Excluded = {}
    Nameless = {}
    Options = {ferocity, vigil, echo}
    OptionDef <- MCOptionDef
    ActorValues = {attackDamage, health, shout}
    ShoutRecovery = {shout}
    Magnitude <- MCMagnitude
    OtherSources = {1000, 310}
    EarnedBefore <- MCEarnedBefore
    UndoHistoryLimit = 2
    MaxUInt = 1000000
    MaxHave = 1
    MaxActionId = 2
INVARIANTS
    SlotsStayEligible
    NoModifierLeaks
    EffectsMatchBuild
PROPERTIES
