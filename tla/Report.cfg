SPECIFICATION FairSpec
CONSTANTS
    VlessIn = VlessIn
    Hy2In = Hy2In
    Tags = {VlessIn, Hy2In}
    Hy2 = {Hy2In}
    Users = {u1}
    Secrets = {s1}
    Conns = {c1}
    NPanels = 2
    PanelOf <- MCPanelOf
    Cells <- MCCells
    MaxUnits = 2
    MaxFailures = 1
INVARIANTS TypeOK NoUsageForgotten CommittedWithinCounted NoDoubleBilling
PROPERTY UsageIsBilled
CHECK_DEADLOCK FALSE
