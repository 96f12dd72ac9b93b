SPECIFICATION FairSpec
CONSTANTS
    Creds = {c1, c2}
    Valid = {c1, c2}
    Complete = {c1, c2}
    DeleteModes = {"background"}
    NoSecret = NoSecret
    Removed = Removed
    MaxEdits = 1
    MaxFaults = 0
PROPERTY
    DeletionCompletes
CHECK_DEADLOCK FALSE
