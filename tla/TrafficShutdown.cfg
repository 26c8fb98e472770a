SPECIFICATION FairSpec
CONSTANTS
    Absent = Absent
    Torn = Torn
    Users = {u1}
    Handlers = {h1}
    MaxPushes = 1
    MaxEdits = 0
    MaxStarts = 1
    MaxCrashes = 0
    MaxIOErrors = 0
PROPERTY GracefulExitSaves
CHECK_DEADLOCK FALSE
