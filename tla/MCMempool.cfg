SPECIFICATION PoolSpec
CONSTANTS
    Tx <- MCTx
    Block <- MCBlock
    ZeroHash = "zero"
    Genesis = "g"
    TxIn <- MCTxIn
    TxOut <- MCTxOut
    ScriptHeights <- MCScriptHeights
    Header <- MCHeader
    Body <- MCBody
    MaxHeight = 5
    MaxQuantum = 110
    Premine = 106
    InitialSubsidy = 4
    HalvingInterval = 2
    MaxHalvings = 64
    CoinbaseMaturity = 3
    TxSize <- MCTxSize
    TxRank <- MCTxRank
    Sequence <- MCSequence
    Locktime <- MCLocktime
    LocktimeThreshold = 50
    MaxTxSize = 6
    MinFeePerByte = 1
    MaxBytes = 12
    Views <- MCViews
    Tips = {0, 2, 5}
    Mtps = {55, 60}
    BlockBytes = {5, 8}
INVARIANTS PoolTypeOK IndexesAgree BytesExact SelectionGreedy
PROPERTIES BlockEvictsConflicts EvictsCheapest GrowsOnlyBelowCeiling
