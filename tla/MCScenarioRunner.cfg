CONSTANTS
    Runners <- MCRunners
    JavaRunners <- MCJavaRunners
    FaultRunners <- MCFaultRunners
    Managed <- MCFaultRunners
    ScenarioOf <- MCScenarioOf
    RunIdOf <- MCRunIdOf
    ToxicNames <- MCToxicNames
    ProfileNames <- MCProfileNames
    Steps <- MCSteps
    MaxEvents <- MCEvents
    LoopCount = 1
    MaxOperator = 1
    Hazards <- MCHazards
    NoOne = NoOne
SPECIFICATION FairSpec
INVARIANTS OwnToxicsRemoved OwnFaultsCleared FixtureStays SettledBeforeStep
PROPERTIES OthersToxicsKept RunnerEnds
CHECK_DEADLOCK FALSE
