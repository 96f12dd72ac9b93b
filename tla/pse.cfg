SPECIFICATION FairSpec
CONSTANTS
    Certs <- MCCerts
    NoId = 0
    NoName = "none"
    Providers = {"P", "Q", "q"}
    Upper <- MCUpper
    Names = {"PSE", "pse"}
    Stored = "PSE"
    NoProvider = ""
    Specs <- MCSpecs
    MaxEdits = 2
    MaxFaults = 1
INVARIANTS
    PseTypeOK
    NoOrphanInUse
PROPERTY
    PseConvergence
CHECK_DEADLOCK FALSE
