SPECIFICATION Spec
CONSTANTS
    Sends = {s1, s2}
    Objects = {o1, o2}
    None = None
    Given <- MCGiven
    Settings <- MCSettings
    Tips <- MCTips
    GasPrices <- MCGasPrices
    GasBump = 2
    ReserveGas = 8
    FailoverGas = 6
    TransferGas = 3
    CallGas <- MCCallGas
    Margin = 1
    Balance <- MCBalance
INVARIANTS
    FeesConsistent
    LoneNonceFits
    RetryIsIdempotent
    EmptyingIsCovered
    TxCostBounds
CHECK_DEADLOCK FALSE
