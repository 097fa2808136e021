CONSTANTS
    Ids <- MCIds
    Pks <- MCPks
    Absent = Absent
    NoContainer = NoContainer
    AnyPk = AnyPk
    NoId = NoId
    NullId = "null"
    Partitions = 2
    NullPks <- MCNullPks
    ThrottledOps <- MCThrottledOps
    MaxCount = 2
SPECIFICATION Spec
INVARIANT MetadataAgrees
CHECK_DEADLOCK FALSE
