SPECIFICATION MCSpec
CONSTANTS
    x = x
    y = y
    flag = flag
    pick = pick
    sum = sum
    Done = Done
    Inputs <- MCInputs
    Derived <- MCDerived
    Values <- MCValues
    Zero = 0
    MaxRev = 4
    Rank <- MCRank
    NextRead <- MCNextRead
    Result <- MCResult
    OnCycle <- MCOnCycle
INVARIANTS RedGreenInv MemoConsistent FromScratch
PROPERTIES PlannedRedIsExecuted NoNeedlessWork
CONSTRAINT StartFromZero
