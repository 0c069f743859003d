SPECIFICATION Spec
CONSTANTS
    c1 = c1
    c2 = c2
    c3 = c3
    c4 = c4
    Calls = {c1, c2, c3, c4}
    Tx <- MCTx
    Reverts = {c2}
    Ids = {c1, c2, c3, c4}
    NoId = NoId
    Draws <- OwnDraws
    Limits = {0, 2}
    AllowFailure = FALSE
    Unreliable = TRUE
    MaxHead = 2
INVARIANTS
    TypeOK
    NoLostCall
    SentOnce
    NoLeak
PROPERTY ImplementsCallService
CHECK_DEADLOCK FALSE
