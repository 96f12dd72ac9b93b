SPECIFICATION FairSpec
CONSTANTS
    Names = {"a_b", "a-b", "axb"}
    Bases = {1, 2}
    Sanitized <- MCSanitized
    Like <- MCLike
    Certs = {1, 2, 3}
    NotPem = 4
    Blocks = {1, 2, 3, 4, 5}
    Missing = Missing
    Secrets = {"s", "t"}
    Chains <- MCChains
    FirstSecrets <- MCFirst
    SpecsA <- MCSpecsA
    SpecsB <- MCSpecsB
    MaxEdits = 2
    MaxFaults = 1
    MaxDrifts = 1
INVARIANTS
    CertTypeOK
    WholeChains
PROPERTIES
    ReleasedClean
    CertConvergence
CHECK_DEADLOCK FALSE
