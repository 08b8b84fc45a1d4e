SPECIFICATION FairSearchSpec
CONSTANTS
    Length = 4
    Radix = 4
    Threads = {1, 2}
    NonceSpace = 3
    Batch = 2
INVARIANTS TargetTypeOK SearchTypeOK
PROPERTIES TemplatesRoundTrip NeverEasier EmptyRoundExhausted SolvedPasses Solved
