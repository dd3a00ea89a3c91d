SPECIFICATION Spec
CONSTANTS
    in = in
    mode = mode
    a = a
    b = b
    Done = Done
    Inputs <- MCInputs
    Derived <- MCDerived
    Values <- MCValues
    Zero = 0
    MaxRev = 3
    NextRead <- MCNextRead
    Result <- MCResult
    OnCycle <- MCOnCycle
INVARIANT InFlightOnce
PROPERTIES  CallReturns
