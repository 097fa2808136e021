CONSTANTS
    Ids <- MCIds
    Pks <- MCPks
    Absent = Absent
    NoContainer = NoContainer
    AnyPk = AnyPk
    NoId = NoId
    NullId = "null"
    Partitions = 2
    NullPks <- MCNullPks
    ThrottledOps <- MCThrottledOps
    MaxCount = 2
SPECIFICATION Spec
INVARIANTS FaultsConserved OneForcedRefresh OneRefreshPerCall CollectionReadOnce SameAnswers
PROPERTY StoreSpec
CHECK_DEADLOCK FALSE
