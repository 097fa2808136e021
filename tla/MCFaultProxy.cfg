\* Windows and topologies are armed, replaced and cleared under traffic.
CONSTANTS
    Senders = {"s1"}
    Drainers = {"d1"}
    Faults = {"throttle_429", "gone_410"}
    Counts = {0, 1, 2}
    Seconds = {1, 2}
    RangeCounts <- MCRanges
    PageSizes = {0, 1, 2}
    MaxNow = 2
    MaxArms = 3
    MaxInjected = 3
SPECIFICATION FairSpec
INVARIANTS CountWindowExact DrainConsistent
PROPERTIES RequestsRecover DrainEnds
CHECK_DEADLOCK FALSE
