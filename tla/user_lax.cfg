SPECIFICATION FairSpec
CONSTANTS
    PrivNames = {"p", "q", "d", "provider", "bad"}
    RoleNames = {"r", "PUBLIC"}
    ObjectOf <- MCObjectOf
    DefaultName = "d"
    ProviderDefault <- MCProviderDefault
    PublicName = "PUBLIC"
    Unparsable = {"bad"}
    ParamKeys = {"locale", "LOCALE"}
    UpperOf <- MCUpperOf
    ValidParams = {"LOCALE"}
    ParamVals = {"en"}
    BadParams = {}
    Usergroups = {"DEFAULT", "g"}
    DefaultGroup = "DEFAULT"
    X509Names = {"x", "X"}
    ProviderUpper <- MCProviderUpper
    ProviderCrs = {"X"}
    Subjects = {"s"}
    Passwords = {"pw1", "pw2"}
    NoSecret = "none"
    Specs <- LaxSpecs
    DriftPrivs <- LaxDrift
    MaxEdits = 2
    MaxDrifts = 2
    MaxFaults = 1
INVARIANTS
    NoOrphan
PROPERTIES
    RevokesOnlyManaged
    Convergence
CHECK_DEADLOCK FALSE
