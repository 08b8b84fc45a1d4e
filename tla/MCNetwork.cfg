SPECIFICATION FairNetSpec
CONSTANTS
    Nodes = {"a", "b", "c"}
    Miners = {"m1", "m2"}
    Foreign = {"m1"}
    Home <- MCHome
    Payout <- MCPayout
    Tx <- MCTx
    TxIn <- MCTxIn
    ScriptHeights <- MCScriptHeights
    FeeOrder <- MCFeeOrder
    Bodies <- MCBodies
    Marks = {1}
    ExtraSpace = 2
    MaxHeight = 2
    MaxFaults = 1
INVARIANTS CoinbasesDiffer FollowersTrail SameHashSameEffect
PROPERTY ChainGrows
