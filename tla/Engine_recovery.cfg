CONSTANTS
    N = 3
    Up = {0, 2}
    Byz = {}
    MaxHeight = 2
    MaxView = 2
    MaxCopies = 1
    MaxCrashes = 0
    Delivery = {"slow", "qc", "echo", "late"}
SPECIFICATION FairSpec
PROPERTIES
    RecoveryProgress
CHECK_DEADLOCK FALSE
