SPECIFICATION FairSpec
CONSTANTS
    Absent = Absent
    Torn = Torn
    Nobody = Nobody
    Savers = {s1, s2}
    MaxChanges = 4
    MaxCrashes = 2
    MaxIOErrors = 1
    MaxCorruptions = 1
INVARIANTS TypeOK AckedOnDisk NeverTorn BackupIsOlder
PROPERTIES BootKeepsAcked SavesReturn AlwaysServesAgain RollbackCompletes ImplementsRegister
CHECK_DEADLOCK FALSE
