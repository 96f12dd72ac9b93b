SPECIFICATION FairSpec
CONSTANTS
    Specs <- MCSpecs
    Name = "R"
    Quoted = "quoted R"
    Schemas = {"none", "s"}
    None = "none"
    LdapGroups = {"l", "m"}
    Rolegroups = {"g", "unknown"}
    KnownRolegroups = {"g"}
    Privs = {"p", "q"}
    ObjectOf <- MCObjectOf
    Grantable = {"p", "q"}
    ParamKeys = {"k", "x", "bad"}
    ParamVals = {1, 2}
    KnownParams <- MCKnownParams
    Owners = {"provider", "u"}
    ProviderUser = "provider"
    MaxEdits = 3
    MaxFaults = 1
    MaxDrifts = 1
INVARIANTS
    CatalogTypeOK
PROPERTIES
    CatalogImplements
    CatalogConvergence
    CatalogSettles
CHECK_DEADLOCK FALSE
