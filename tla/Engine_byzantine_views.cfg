CONSTANTS
    N = 4
    Up = {0, 2}
    Byz = {1}
    MaxHeight = 1
    MaxView = 1
    MaxCopies = 1
    MaxCrashes = 1
    Delivery = {}
SPECIFICATION Spec
INVARIANTS
    HonestNeverAccused
    
CHECK_DEADLOCK FALSE
