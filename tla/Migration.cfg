\* Saves of older versions, with loads in which the player is not available.
SPECIFICATION SaveSpec
CONSTANTS
    sword = sword
    shield = shield
    ferocity = ferocity
    vigil = vigil
    oldVigil = oldVigil
    damage = damage
    health = health
    smithing = smithing
    NoOption = NoOption
    NoSave = NoSave
    Items = {sword, shield}
    VariantRoot <- MCVariantRoot
    FormTypeOf <- MCFormTypeOf
    Excluded = {}
    Nameless = {}
    Options = {vigil}
    OptionDef <- MCOptionDef
    ActorValues = {health, smithing}
    ShoutRecovery = {}
    Magnitude <- MCMagnitude
    OtherSources = {1000}
    EarnedBefore <- MCEarnedBefore
    UndoHistoryLimit = 2
    MaxUInt = 1000000
    MaxHave = 1
    MaxActionId = 2
    LoadableEffects = {health, smithing}
    RewardCap <- MCRewardCap
    NoCap <- MCNoCap
    SkillValues <- MCSkillValues
    LegacyDelta <- MCLegacyDelta
    Successor <- MCSuccessor
    OlderSaves <- MCOlderSaves
    Damages <- MCWhole
    Removable = {sword}
    RefundCalls = FALSE
INVARIANTS
    LegacyRewardsGoOnce
PROPERTIES
    MigrationKeepsProgress
