CONSTANTS
    N = 3
    Up = {1, 2}
    Byz = {}
    MaxHeight = 2
    MaxView = 2
    MaxCopies = 2
    MaxCrashes = 1
    Delivery = {"again", "sync"}
SPECIFICATION Spec
INVARIANTS
    TypeOK
    OneFallbackPerView
    OneViewChangePerSlot
CHECK_DEADLOCK FALSE
