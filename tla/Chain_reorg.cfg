SPECIFICATION MCSpec
CONSTANTS
    Blocks <- MCBlocks
    SlotOf <- MCSlotOf
    ParentOf <- MCParentOf
    ProposerOf <- MCProposerOf
    TouchedBy <- MCTouchedBy
    GasOf <- MCSteadyGas
    Keys <- MCKeys
    Proposers = {"p", "q"}
    Accounts = {"x", "y"}
    GAS_TARGET = 2
    GENESIS_BASE_FEE = 1
    MIN_BASE_FEE = 1
    ADJUSTMENT_DIVISOR = 8
    MaxUndoDepth = 4
    Peers = {v2, v3, v4}
    Inputs = {"qc", "gossip", "checkpoint"}
    MaxRestarts = 1
    Watchers = {w1, w2}
    Offences <- MCOffences
    Committee = {"y", "z"}
    RETENTION = 1
    MaxTick = 3
    MaxProposals = 2
    MaxCrashes = 1
INVARIANTS   AcceptedIsKept PunishedOnce
PROPERTIES FinalizedHeadersStay
SYMMETRY ValidatorSymmetry
CHECK_DEADLOCK FALSE
