SPECIFICATION FairSpec
CONSTANTS
    c1 = c1
    c2 = c2
    c3 = c3
    c4 = c4
    Calls = {c1, c2, c3}
    Tx <- MCTx
    Reverts = {c2}
    Ids = {c1, c2, c3, c4}
    NoId = NoId
    Draws <- OwnDraws
    Limits = {0, 2}
    AllowFailure = TRUE
    Unreliable = TRUE
    MaxHead = 2
PROPERTY EverySettles
CHECK_DEADLOCK FALSE
