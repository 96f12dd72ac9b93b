SPECIFICATION FairSpec
CONSTANTS
    Specs <- MCSpecs
    Names = {"X", "Y", "x"}
    Upper <- MCUpper
    Issuers = {"i", "j", "bad"}
    ValidIssuers = {"i", "j"}
    Rules = {"none", "r", "r2", "bad"}
    NoRules = "none"
    ValidRules = {"none", "r", "r2"}
    NotRead = "not read"
    NoRow = "no row"
    MaxEdits = 2
    MaxFaults = 1
    MaxDrifts = 1
INVARIANTS
    X509TypeOK
PROPERTIES
    X509Implements
    X509Convergence
CHECK_DEADLOCK FALSE
