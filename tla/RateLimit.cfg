SPECIFICATION FairSpec
CONSTANTS
    Conns = {c1, c2}
    Rates = {1, 3}
    Window = 1
    MaxChunk = 2
    Sizes = {2, 3}
    Idle = Idle
    Checked = Checked
    Asleep = Asleep
    Dead = Dead
INVARIANTS TypeOK RateHolds DebtHasOwners CloseStops
PROPERTY WaitReturns
CHECK_DEADLOCK FALSE
