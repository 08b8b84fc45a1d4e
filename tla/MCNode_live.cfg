SPECIFICATION FairNodeSpec
CONSTANTS
    w1 = w1
    w2 = w2
    k1 = k1
    k2 = k2
    m1 = m1
    Workers = {w1}
    TxTasks = {k1, k2}
    Miners = {}
    StorageFaults = FALSE
    Tx = {"cg", "c1", "p", "q", "s"}
    Block = {"g", "b1"}
    ZeroHash = "zero"
    Genesis = "g"
    TxIn <- MCTxIn
    TxOut <- MCTxOut
    ScriptHeights <- MCScriptHeights
    Header <- MCHeader
    Body <- MCBody
    MaxHeight = 2
    MaxQuantum = 100
    Premine = 30
    InitialSubsidy = 4
    HalvingInterval = 5
    MaxHalvings = 64
    CoinbaseMaturity = 2
    TxSize <- MCTxSize
    TxRank <- MCTxRank
    Sequence <- MCSequence
    Locktime <- MCLocktime
    LocktimeThreshold = 6
    MaxTxSize = 2
    MinFeePerByte = 1
    MaxBytes = 2
    Timestamp <- MCTimestamp
    GenesisTimestamp = 5
    MtpWindow = 2
    MaxBlockPayload = 2
PROPERTIES StaleEvicted CallsReturn
