CONSTANTS
    dflt = dflt
    t1 = t1
    t2 = t2
    g1 = g1
    g2 = g2
    NoTenant = NoTenant
    Tenants <- MCTenantsOne
    DefaultTenant = dflt
    NameLen <- MCNameLen
    DomainLen <- MCDomainLen
    CustomLen = 70
    CustomUnderSub = FALSE
    GenLabels <- MCGenLabels
    TenantSpecificGateways = TRUE
    MaxFaults = 0
    MaxUserOps = 2
    RolloutsWhileDeleting = FALSE
    InitTemplates <- MCAllTemplates
SPECIFICATION Spec
INVARIANT ConditionsFollowHistory
PROPERTIES Convergence LifecycleSpec
CHECK_DEADLOCK FALSE
