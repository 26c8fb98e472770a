SPECIFICATION FairSpec
CONSTANTS
    Absent = Absent
    Torn = Torn
    Users = {u1}
    Handlers = {h1, h2}
    MaxPushes = 2
    MaxEdits = 1
    MaxStarts = 2
    MaxCrashes = 1
    MaxIOErrors = 1
INVARIANTS TypeOK UnsavedIsScheduled OnlyKnownUsers
PROPERTIES QuietShutdownSaves PushesReachDisk ShutdownEnds
CHECK_DEADLOCK FALSE
