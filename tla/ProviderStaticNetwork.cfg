SPECIFICATION Spec
CONSTANTS
    Calls = {c1, c2}
    Signers = {g1}
    Modes <- MCModes
INVARIANT NetworkIsAvailable
CHECK_DEADLOCK FALSE
