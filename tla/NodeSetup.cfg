SPECIFICATION FairSpec
CONSTANTS
    NodeIds = {1, 2}
    Shapes <- MCShapes
    NoNode = NoNode
    NoKey = NoKey
    Garbled = Garbled
    Absent = Absent
    Empty = Empty
    Torn = Torn
    VlessId = 1
    Hy2Id = 2
    MaxStops = 2
    MaxDamages = 1
    MaxKills = 1
    MaxIOErrors = 1
INVARIANTS TypeOK RunsWhatWasAsked KeysAgree OnlyInterruptionsWedge
PROPERTY AgentComesUp
CHECK_DEADLOCK FALSE
