SPECIFICATION FairSpec
CONSTANTS
    Names = {"a", "b"}
    Heads = {"all", "failed"}
    Actions = {"logon", "grant", "unknown"}
    ValidActions = {"logon", "grant"}
    Retentions = {7, 30}
    NoRetention = 0
    Specs <- MCSpecs
    ForeignPolicies <- MCForeign
    MaxEdits = 3
    MaxFaults = 2
INVARIANTS
    AuditTypeOK
    NoOrphanPolicy
PROPERTIES
    DropOnlyToChange
    AuditConvergence
CHECK_DEADLOCK FALSE
