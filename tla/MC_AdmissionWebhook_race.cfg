CONSTANTS
    dflt = dflt
    t1 = t1
    Names <- MCNames
    DefaultName = dflt
SPECIFICATION Spec
INVARIANT DefaultTenantExclusive
CHECK_DEADLOCK FALSE
