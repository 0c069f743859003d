SPECIFICATION FairSpec
CONSTANTS
    InputCount = 7
    Options <- TwoByTwo
INVARIANTS
    ResultsMatchInputs
    GroupBarrier
    AwaitedBound
    TriesBeforeReject
    NeverStuck
PROPERTIES
    StepsRunOut
    SettlesAndStops
CHECK_DEADLOCK FALSE
