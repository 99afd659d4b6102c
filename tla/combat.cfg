SPECIFICATION Spec
CONSTANTS
    None = None
    MaxHealth = 3
    MaxPoise = 2
    MaxStamina = 2
    Damages = {1, 2}
    HeavyOvershoot = 1
    ParryWindow = 2
    SwingTicks <- Durations
    DashTicks = 2
    PlayTicks <- Plays
    SwingCost = 1
    DodgeCost = 2
    Gaits = {"idle", "walk_forward"}
    MaxStrikes = 2
INVARIANTS
    TypeOK
    TagsFollowSlots
PROPERTIES
    PlaysOut
    LonePostPlays
CHECK_DEADLOCK FALSE
