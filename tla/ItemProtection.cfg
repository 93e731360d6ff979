\* A variant with worn and favourite copies, of an item that quests hold and the
\* museum tracks, under settings that change.  The variant has its base's name
\* or, while it counts as itself, none.
SPECIFICATION ProtSpec
CONSTANTS
    sword = sword
    swordOfFire = swordOfFire
    NoOption = NoOption
    NoList = NoList
    Items = {sword, swordOfFire}
    EntryOrder <- MCEntryOrder
    ZeroEntries = {}
    VariantRoot <- MCVariantRoot
    VariantBase <- MCVariantBase
    Template <- MCTemplate
    FormTypeOf <- MCFormTypeOf
    Excluded = {}
    Nameless = {swordOfFire}
    Options = {}
    OptionDef <- MCOptionDef
    ActorValues = {}
    ShoutRecovery = {}
    Magnitude <- MCMagnitude
    OtherSources = {1000}
    EarnedBefore <- MCEarnedBefore
    TccChoices = {TRUE}
    Tracked = {sword}
    Entries <- MCEntriesOf
    SettingsChoices <- MCProtecting
    Questable = {sword}
    GuardLife = 1
    ListLife = 0
    UndoHistoryLimit = 1
    MaxUInt = 1000
    MaxHave = 1
    MaxActionId = 1
INVARIANTS
    OffersAreRecent
    ListAgreesWithRegistration
PROPERTIES
    QuestItemsSurvive
    MarkedCopiesSurvive
