SPECIFICATION Spec
CONSTANTS
    c1 = c1
    c2 = c2
    c3 = c3
    c4 = c4
    Calls = {c1, c2, c3}
    Tx <- MCTx
    Reverts = {c2}
    Ids = {c1, c2, c3, c4}
    NoId = NoId
    Draws <- CollidingDraws
    Limits = {1, 2}
    AllowFailure = TRUE
    Unreliable = FALSE
    MaxHead = 2
INVARIANTS
    OwnAnswer
    RevertIsolated
CHECK_DEADLOCK FALSE
