CONSTANTS
    N = 3
    Up = {0, 1, 2}
    Byz = {}
    MaxHeight = 1
    MaxView = 1
    MaxCopies = 1
    MaxCrashes = 0
    Delivery = {"late"}
SPECIFICATION Spec
INVARIANTS
    SingleBlockPerHeight
CHECK_DEADLOCK FALSE
