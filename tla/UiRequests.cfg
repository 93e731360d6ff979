\* Registrations, undos and build changes overtaking each other, an item with a
\* variant, one undo remembered, the task interface gone for a while.
SPECIFICATION UiSpec
CONSTANTS
    shield = shield
    shieldOfFire = shieldOfFire
    vigil = vigil
    health = health
    NoOption = NoOption
    NoList = NoList
    Items = {shield, shieldOfFire}
    EntryOrder <- MCEntryOrder
    ZeroEntries = {shieldOfFire}
    VariantRoot <- MCVariantRoot
    FormTypeOf <- MCFormTypeOf
    Excluded = {}
    Nameless = {}
    Options = {vigil}
    OptionDef <- MCOptionDef
    ActorValues = {health}
    ShoutRecovery = {}
    Magnitude <- MCMagnitude
    OtherSources = {1000}
    EarnedBefore <- MCEarnedBefore
    UndoHistoryLimit = 1
    MaxUInt = 1000000
    MaxHave = 1
    MaxActionId = 3
    RequestedSlots = {"Attack1", "Defense1", "Wildcard1"}
    MaxRequests = 3
    MaxOutages = 1
CHECK_DEADLOCK FALSE
INVARIANTS
    QuietUiIsCurrent
    NothingRegisteredIsOffered
PROPERTIES
    UndoHitsWhatWasShown
