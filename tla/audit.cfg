CONSTANTS
    i1 = i1
    i2 = i2
    Repository = {i1, i2}
    Setups <- AllSetups
    MaxAudited = 6
SPECIFICATION Spec
CHECK_DEADLOCK FALSE
INVARIANTS IntegrityHolds OldestGoFirst NothingIsForged
