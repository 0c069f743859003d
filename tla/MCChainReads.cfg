SPECIFICATION Spec
CONSTANTS
    Heights = {1, 4}
    MaxGrown = 2
    MaxForks = 1
    Values = {0, 1, 2}
    Kinds <- MCKinds
    None = None
    Knowns = {0, 2}
    Depth = 3
    Recent = 2
    EvmWindow = 4
    Tags <- MCTags
    Numbers = {0, 1, 4}
    Expected = {None, 1}
INVARIANTS
    ReorgIsReported
    NoFalseAlarm
    TracesNameTheirBlock
    ProofIsSound
    ProofIsFound
CHECK_DEADLOCK FALSE
