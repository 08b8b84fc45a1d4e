SPECIFICATION AuthSpec
CONSTANTS
    w1 = w1
    w2 = w2
    Workers = {w1}
    StorageFaults = FALSE
    Tx <- MCTx
    Block <- MCBlock
    ZeroHash = "zero"
    Genesis = "g"
    TxIn <- MCTxIn
    TxOut <- MCTxOut
    ScriptHeights <- MCScriptHeights
    Header <- MCHeader
    Body <- MCBody
    MaxHeight = 3
    MaxQuantum = 100
    Premine = 10
    InitialSubsidy = 4
    HalvingInterval = 2
    MaxHalvings = 64
    CoinbaseMaturity = 2
INVARIANT CoinbaseMature
