SPECIFICATION FairSpec
CONSTANTS
    Calls = {c1, c2}
    Signers = {g1}
    Modes <- MCModes
INVARIANTS
    CallsNeverStuck
PROPERTIES
    CancelledIsAborted
    WrongChainIsLeft
    CallsRunOut
    EveryCallEnds
    SignerOnAppChain
CHECK_DEADLOCK FALSE
