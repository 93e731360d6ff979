\* Undamaged saves of this version: a load brings the saved game back.
SPECIFICATION SaveSpec
CONSTANTS
    sword = sword
    shield = shield
    ferocity = ferocity
    vigil = vigil
    oldVigil = oldVigil
    damage = damage
    health = health
    smithing = smithing
    NoOption = NoOption
    NoSave = NoSave
    Items = {sword, shield}
    VariantRoot <- MCVariantRoot
    FormTypeOf <- MCFormTypeOf
    Excluded = {}
    Nameless = {}
    Options = {ferocity}
    OptionDef <- MCOptionDef
    ActorValues = {damage}
    ShoutRecovery = {}
    Magnitude <- MCMagnitude
    OtherSources = {1000}
    EarnedBefore <- MCEarnedBefore
    UndoHistoryLimit = 2
    MaxUInt = 1000000
    MaxHave = 1
    MaxActionId = 2
    LoadableEffects = {damage}
    RewardCap <- MCNoCaps
    NoCap <- MCNoCap
    SkillValues <- MCSkillValues
    LegacyDelta <- MCLegacyDelta
    Successor <- MCNoSuccessor
    OlderSaves = {}
    Damages <- MCWhole
    Removable = {}
    RefundCalls = FALSE
INVARIANTS
    PlayedGameIsSound
PROPERTIES
    ImplementsSavedGame
