SPECIFICATION FairSpec
CONSTANTS
    Specs <- RevokeSpecs
    Name = "R"
    Quoted = "quoted R"
    Schemas = {"none", "s"}
    None = "none"
    LdapGroups = {"l", "m"}
    Rolegroups = {"g", "unknown"}
    KnownRolegroups = {"g"}
    Privs = {"p", "q"}
    ObjectOf <- MCObjectOf
    Grantable = {"p", "q"}
    ParamKeys = {"k", "x", "bad"}
    ParamVals = {1, 2}
    KnownParams <- MCKnownParams
    Owners = {"provider", "u"}
    ProviderUser = "provider"
    MaxEdits = 1
    MaxFaults = 0
    MaxDrifts = 0
PROPERTY
    RoleRevokes
CHECK_DEADLOCK FALSE
