SPECIFICATION Spec
CONSTANTS
    h1 = h1
    h2 = h2
    sword = sword
    swordOfFire = swordOfFire
    Handlers = {h1, h2}
    Items = {sword, swordOfFire}
    KeyOf <- MCKeyOf
    Debounce = 3
    Throttle = 2
    MaxStall = 1
SYMMETRY Threads
INVARIANTS
    MarksAreKept
    NoSecondNotice
