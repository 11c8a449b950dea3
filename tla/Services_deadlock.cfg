SPECIFICATION PlainOnly
CONSTANTS
    Transfers <- MCTransfers
    RpcTxs <- MCByRpc
    GossipTxs <- MCHeavy
    FastBatch <- MCBatch
    MEMPOOL_GLOBAL_CAP = 3
    MEMPOOL_SENDER_CAP = 2
    GOSSIP_CHANNEL = 2
    SENDER_CAP = 2
    MAX_TXS_PER_BLOCK = 3
    BLOCK_GAS_LIMIT = 4
    MaxCommits = 1
    MaxSweeps = 0
    Sealed <- MCSealed
    MAX_POOL = 4
    RATE_PER_WINDOW = 2
    MAX_CONCURRENT = 3
    RATE_WINDOW_MS = 1
    BLOCK_GAS = 5
    MAX_ENCRYPTED = 3
    GRACE_SLOTS = 1
    MaxMillis = 2
    MaxBlock = 1
    Members = {n1, n2, n3}
    LastSlot = 2
    Encrypted = {1}
    DECRYPT_WINDOW = 1
    Crashers = {n1, n2, n3}
    v1 = v1
    v2 = v2
    v3 = v3
    v4 = v4
    Validators = {v1, v2, v3}
    GenesisCommittee <- MCGenesis
    select_committee <- MCTurned
    EPOCH_LENGTH = 12
    RESHARE_REBROADCAST_SLOTS = 10
    RESHARE_REBROADCAST_INTERVAL_SLOTS = 2
    RESHARE_AGGREGATION_DELAY_SLOTS = 5
    RANDOMNESS_AGGREGATION_DELAY_SLOTS = 8
    MaxSlot = 30
    MaxLost = 1
PROPERTIES
    HandlersReturn
CHECK_DEADLOCK FALSE
