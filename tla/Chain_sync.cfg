SPECIFICATION MCSpec
CONSTANTS
    Blocks <- MCTwoSlots
    SlotOf <- MCSlotOf
    ParentOf <- MCParentOf
    ProposerOf <- MCProposerOf
    TouchedBy <- MCTouchedBy
    GasOf <- MCSteadyGas
    Keys <- MCKeys
    Proposers = {"p", "q"}
    Accounts = {"x", "y"}
    GAS_TARGET = 2
    GENESIS_BASE_FEE = 1
    MIN_BASE_FEE = 1
    ADJUSTMENT_DIVISOR = 8
    MaxUndoDepth = 4
    Peers = {v2, v3}
    Inputs = {"qc", "sync", "vote", "checkpoint"}
    MaxRestarts = 1
    SyncPeers = {"p", "q"}
    FirstHead = 2
    Restarted = {"q"}
    SyncKeys = {"j", "k"}
    ChainSlots = {2, 3}
    WrittenBy <- MCWrittenBy
    BATCH_SIZE = 2
    SNAPSHOT_THRESHOLD = 2
    PIN_SLOTS = 0
    CHUNK_MAX_RETRIES = 1
    MaxInFlight = 2
    MaxImports = 1
    MaxFaults = 1
INVARIANTS  BlockSyncExact 
PROPERTIES CheckpointMonotone
SYMMETRY PeerSymmetry
CHECK_DEADLOCK FALSE
