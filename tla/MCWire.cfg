SPECIFICATION FairWireSpec
CONSTANTS
    Radix = 6
    W16 = 1
    W32 = 2
    W64 = 1
    MaxDatum = 2
    MaxRedeemer = 2
    Requests <- MCRequests
    Later <- MCLater
    Answers <- MCAnswers
    MaxFrame = 25
    MaxRequests = 2
PROPERTIES RequestsIntact AnswersMatch SignaturesBind Settled
