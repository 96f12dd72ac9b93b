SPECIFICATION FairSpec
CONSTANTS
    PrivNames = {"p", "q", "d", "provider", "bad"}
    RoleNames = {"r", "PUBLIC"}
    ObjectOf <- MCObjectOf
    DefaultName = "d"
    ProviderDefault <- MCProviderDefault
    PublicName = "PUBLIC"
    Unparsable = {"bad"}
    ParamKeys = {"locale", "LOCALE"}
    UpperOf <- MCUpperOf
    ValidParams = {"LOCALE"}
    ParamVals = {"en"}
    BadParams = {}
    Usergroups = {"DEFAULT", "g"}
    DefaultGroup = "DEFAULT"
    X509Names = {"x", "X"}
    ProviderUpper <- MCProviderUpper
    ProviderCrs = {"X"}
    Subjects = {"s"}
    Passwords = {"pw1", "pw2"}
    NoSecret = "none"
    Specs <- StrictSpecs
    DriftPrivs <- StrictDrift
    MaxEdits = 2
    MaxDrifts = 1
    MaxFaults = 1
INVARIANTS
    TypeOK
    DefaultsKept
PROPERTIES
    UserImplements
    Convergence
CHECK_DEADLOCK FALSE
