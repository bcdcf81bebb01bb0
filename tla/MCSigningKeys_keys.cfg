SPECIFICATION FairSpec
CONSTANTS
    q1 = q1
    q2 = q2
    k1 = k1
    k2 = k2
    Requests <- TwoRequests
    Keys <- TwoKeys
    NoId = NoId
    Stranger = Stranger
    Tokens <- MCTokens
    NoToken = NoToken
    TTL = 2
    Timeout = 1
    DevFallback = TRUE
    Never = Never
    NoOne = NoOne
    NoAnswer = NoAnswer
    MaxNow = 3
INVARIANTS
    TypeOK
PROPERTIES
    RetiredKeysLapse
    NewKeysAreAccepted
    EveryRequestIsAnswered
