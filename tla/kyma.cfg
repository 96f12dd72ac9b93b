SPECIFICATION FairSpec
CONSTANTS
    Creds = {c1, c2, empty, broken}
    Valid = {c1, c2, empty}
    Complete = {c1, c2}
    DeleteModes = {"background", "foreground"}
    NoSecret = NoSecret
    Removed = Removed
    MaxEdits = 3
    MaxFaults = 2
INVARIANTS
    KymaTypeOK
    NoOrphanMapping
    SecretOutlivesMapping
PROPERTY
    Provisioned
CHECK_DEADLOCK FALSE
