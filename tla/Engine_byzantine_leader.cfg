CONSTANTS
    N = 4
    Up = {0, 2}
    Byz = {1}
    MaxHeight = 1
    MaxView = 0
    MaxCopies = 2
    MaxCrashes = 1
    Delivery = {}
SPECIFICATION Spec
INVARIANTS
    AgreementWithinView
PROPERTIES
    VotingSpec
CHECK_DEADLOCK FALSE
