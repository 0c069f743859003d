SPECIFICATION Spec
CONSTANTS
    InputCount = 1
    Options <- NoRetry
INVARIANT RetriesAsAsked
CHECK_DEADLOCK FALSE
