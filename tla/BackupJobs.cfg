SPECIFICATION Spec
CONSTANTS
    w1 = w1
    w2 = w2
    r1 = r1
    Workers = {w1, w2}
    Backups = {0, 1}
    Restores = {r1}
    Old = 0
    Parts = 2
    MaxAttempts = 1
    MaxChanges = 3
    MaxKills = 1
    NoBackup = NoBackup
    NoRestore = NoRestore
    Nobody = Nobody
INVARIANTS NothingLost FilesKept FailedRestoreLeavesNothing
PROPERTIES JobsEnd
CHECK_DEADLOCK FALSE
