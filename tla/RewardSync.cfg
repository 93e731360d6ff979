SPECIFICATION Spec
CONSTANTS
    carry = carry
    resist = resist
    health = health
    rate = rate
    shout = shout
    damage = damage
    ActorValues = {carry, resist, health, rate, shout, damage}
    CarryWeight = {carry}
    Sticky = {health}
    Shout = {shout}
    AttackDamage = {damage}
    Opaque = {rate}
    Buffable = {carry, resist}
    Cap <- MCCap
    ShoutBase = 5
    ShoutFloor = 3
    PassCount = 5
    MinMissingStreak = 2
    MaxAttempts = 2
    Games <- MCGames
    MaxRequests = 2
    MaxRefusals = 1
    MaxPauses = 1
    MaxLoads = 1
    MaxBuffs = 1
CHECK_DEADLOCK FALSE
INVARIANTS
    OneRunPerSlot
    CorrectedOncePerRun
PROPERTIES
    ResyncStopsAtTotal
    RequestsAreServed
