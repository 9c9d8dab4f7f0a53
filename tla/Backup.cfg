SPECIFICATION BackupSpec
CONSTANTS
    MaxCommits = 2
    MaxSerial = 2
    MaxRuns = 3
    ReadLimit = 1
INVARIANTS
    BackupTypeOK
    RestoredIsArchived
    ArchiveIsCurrent
CHECK_DEADLOCK FALSE
