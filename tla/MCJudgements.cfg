CONSTANTS
    MaxRanges = 520
    Events <- MCEvents
    Samples <- MCSamples
    Percents <- MCPercents
    Items <- MCItems
    Sdks <- MCSdks
    Scenarios <- MCScenarios
    MaxLen = 3
    Unset = Unset
SPECIFICATION Spec
INVARIANTS RangesTile AssertionsExact PercentilesExact DivergenceExact
CHECK_DEADLOCK FALSE
