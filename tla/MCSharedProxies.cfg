\* Two jobs, one after the other; two calls are lost, the operator works once.
CONSTANTS
    Runners <- MCRunners
    ToxicNames <- MCToxicNames
    ProfileNames <- MCProfileNames
    Operator = "operator"
    NoOne = "nobody"
    MaxLost = 2
    MaxOperator = 1
SPECIFICATION FairSpec
INVARIANTS CleanStart IInv
PROPERTY EveryJobGoes
CHECK_DEADLOCK FALSE
