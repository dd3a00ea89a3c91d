CONSTANTS
    Workers = {a, b}
    First = 1
    End = 4
    MaxFailures = 1
    Programs <- SomePrograms
SPECIFICATION Spec
INVARIANTS
    AllReported
    TallyIsSequential
PROPERTIES
    Finishes
CHECK_DEADLOCK FALSE
