SPECIFICATION ScriptSpec
CHECK_DEADLOCK FALSE
CONSTANTS
    Radix = 2
    IntBytes = 3
    IndexBytes = 2
    ValueBytes = 4
    HashBytes = 5
    MaxElement = 6
    MaxDepth = 3
    MaxOps = 6
    Data <- MCData
    Signed <- MCSigned
    Contracts <- MCContracts
    Context <- MCContext
    Secrets <- MCSecrets
INVARIANTS ScriptTypeOK Guarded ArithmeticExact
