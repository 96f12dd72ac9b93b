SPECIFICATION Spec
CONSTANTS
    Names = {"a_b", "a-b", "axb"}
    Bases = {1, 2}
    Sanitized <- MCSanitized
    Like <- MCLike
    Certs = {1, 2, 3}
    NotPem = 4
    Blocks = {1, 2, 3, 4, 5}
    Missing = Missing
    Secrets = {"s", "t"}
    Chains <- MCChains
    FirstSecrets <- MCFirst
    SpecsA <- MCSpecsA
    SpecsB <- MCApartB
    MaxEdits = 2
    MaxFaults = 1
    MaxDrifts = 1
PROPERTIES
    OnlyOwnDropped
CHECK_DEADLOCK FALSE
