CONSTANTS
    PipeCap = 1
    Deadline = 2
    Records <- MCRecords
    Behaviours <- MCBehaviours
    Threads = {"a", "b"}
    Pid <- OnePid
    MaxRuns = 2
    MaxCrashes = 1
    MaxInodes = 3
SPECIFICATION HarnessSpec
INVARIANTS
    OkExactlyIfFaithful
    OutputWhole
    SpawnsItsImage
PROPERTIES
    RunReturns
CHECK_DEADLOCK FALSE
