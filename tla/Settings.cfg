\* Two requests, a failing file operation, a load, and crashes at any point.
SPECIFICATION Spec
CONSTANTS
    standard = standard
    first = first
    second = second
    Values = {standard, first, second}
    Default = standard
    None = None
    Missing = Missing
    Torn = Torn
    MaxRequests = 2
    MaxFailures = 1
    MaxStuckTmps = 1
    MaxLoads = 1
    MaxCrashes = 2
CHECK_DEADLOCK FALSE
INVARIANTS
    SettledSettingsAgree
    SettledUiShowsMemory
PROPERTIES
    FileIsDurable
    SettledUnlessLoading
