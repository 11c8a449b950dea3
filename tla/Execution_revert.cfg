SPECIFICATION VmSpec
CONSTANTS
    WINDOW_SIZE = 4
    MAX_NONCE = 9
    Users = {"alice", "bob", "carol"}
    Treasury = "treasury"
    AirdropPool = "pool"
    Zero = "zero"
    MaxDeploys = 1
    derive_create_address <- CreateAddress
    Workloads <- MCWorkloads
    Configs <- MCConfigs
    Proposers = {"bob", "treasury"}
    MaxHeight = 3
    DEVNET = FALSE
    BASE_FEE = 1
    PvmRuns <- MCPvmRuns
    VALIDATOR_STAKE = 200
    MAX_SIGNERS = 3
    MAX_PAUSE_DURATION_SLOTS = 2
    PER_BLOCK_BASE = 200
    BLOCKS_PER_YEAR = 2
    N = 3
    BlockTxs <- MCBlockTxs
    AllKeys <- MCBlockKeys
    balance_key <- BalanceKey
    nonce_key <- NonceKey
    ZERO_ADDRESS = "zero"
    Outcome <- MCOutcome
    Pre <- MCPre
    Code = {"A", "B"}
    Slots = {"x"}
    Backend <- MCBackend
    AccessList <- MCList
    Program <- MCCallsOnly
    GasLimit = 20
    Endowment = 2
    MAX_EXT_CALL_DEPTH = 2
    GAS_SHARE = 4
    SSTORE_GAS = 2
    COLD_GAS = 1
    OTHER_GAS = 1
    CODE_GAS = 2
    SDELETE_REFUND = 2
    create_address <- MCCreateAddress
    Fresh = {"A1", "A2", "B1", "B2", "C1", "C2"}
    MaxCreates = 2
    MaxOps = 6
    Literals = {1}
    Args = {0, 2}
    Operators = {"Add"}
    MAX_NARROW = 3
    MAX_WIDE = 5
    MaxStatements = 2
    MaxNested = 1
    Fuel = 16
    TreeKeys = {"a", "b"}
    TreeValues = {"x", "y"}
    NoValue = "none"
    MaxVersion = 1
INVARIANTS
    FailedCallKeepsStorage
CHECK_DEADLOCK FALSE
