\* Presses of the hotkey, closes with and without destruction, a load.
SPECIFICATION Spec
CONSTANTS
    MaxViews = 2
    MaxToggles = 3
    MaxLoads = 1
    MaxCloseAttempts = 2
    MaxFocusAttempts = 2
    MaxRefusals = 1
    MaxIgnored = 1
    DestroyChoices = {TRUE, FALSE}
CHECK_DEADLOCK FALSE
INVARIANTS
    NoViewIsLost
    ArmedFocusIsPending
    LoadingShowsNoUi
    QuietFlagsAreTrue
PROPERTIES
    JoinEnds
    ClosedUiLosesFocus
    OpenedUiGetsFocus
