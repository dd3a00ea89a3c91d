CONSTANTS
    Roots = {1, 2}
    Data = {0}
    Sizes = {0, 1}
    Brands = {1, 2}
    Regions = {1}
    MaxFrames = 2
    MaxGen = 1
    MaxOff = 2
    Bodies = {{"call", "place", "borrow", "through"}, {"place", "move", "borrow", "through"},
              {"scalar", "place", "heap", "through"}, {"place", "arena"}, {"place", "seq"}}
    MaxSerial = 2
    MaxTag = 2
    MaxObjects = 2
    MaxCells = 3
SPECIFICATION Spec
INVARIANTS
    PointersReachTheirObject
    BorrowsAreExclusive
CHECK_DEADLOCK FALSE
