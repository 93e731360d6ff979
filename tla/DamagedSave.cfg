\* Records cut or lost while a migration may be pending.
SPECIFICATION SaveSpec
CONSTANTS
    sword = sword
    shield = shield
    ferocity = ferocity
    vigil = vigil
    oldVigil = oldVigil
    damage = damage
    health = health
    smithing = smithing
    NoOption = NoOption
    NoSave = NoSave
    Items = {shield}
    VariantRoot <- MCVariantRoot
    FormTypeOf <- MCFormTypeOf
    Excluded = {}
    Nameless = {}
    Options = {vigil}
    OptionDef <- MCOptionDef
    ActorValues = {smithing}
    ShoutRecovery = {}
    Magnitude <- MCMagnitude
    OtherSources = {1000}
    EarnedBefore <- MCEarnedBefore
    UndoHistoryLimit = 2
    MaxUInt = 1000000
    MaxHave = 1
    MaxActionId = 2
    LoadableEffects = {smithing}
    RewardCap <- MCRewardCap
    NoCap <- MCNoCap
    SkillValues <- MCSkillValues
    LegacyDelta <- MCLegacyDelta
    Successor <- MCNoSuccessor
    OlderSaves <- MCPendingSaves
    Damages <- MCDamages
    Removable = {}
    RefundCalls = TRUE
INVARIANTS
    SaveTypeOK
    IdsStayFreshAfterDamage
    SlotsEmptyUntilComplete
PROPERTIES
    UndoTakesARegistration
