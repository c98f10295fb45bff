CONSTANTS
    dflt = dflt
    t1 = t1
    t2 = t2
    g1 = g1
    g2 = g2
    NoTenant = NoTenant
    Tenants <- MCTenantsOne
    DefaultTenant = dflt
    NameLen <- MCNameLen
    DomainLen <- MCDomainLen
    CustomLen = 62
    CustomUnderSub = TRUE
    GenLabels <- MCGenLabel
    TenantSpecificGateways = TRUE
    MaxFaults = 1
    MaxUserOps = 2
    RolloutsWhileDeleting = FALSE
    InitTemplates <- MCNoConfigTemplate
SPECIFICATION Spec
INVARIANT DomainFollowsSpec
CHECK_DEADLOCK FALSE
