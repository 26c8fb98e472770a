SPECIFICATION Spec
SYMMETRY Symmetry
CONSTANTS
    Ids = {u1, u2}
    Creds = {a, b}
    Speeds = {0, 5, 7}
    Inbounds = {VlessIn, Hy2In}
    Hy2 = {Hy2In}
    Conns = {c1}
    Nothing = Nothing
    MaxApplies = 3
    MaxFailures = 1
INVARIANTS TypeOK AcceptsActiveOnly NeverInterrupted HeldLimitersFollow LimitsInForce
CHECK_DEADLOCK FALSE
