\* Two jobs of each of two tenants; bursts of one, two slots of which a tenant
\* may use one, and no recovery loop.  The worker really stops
\* when all jobs are processed.
SPECIFICATION FairSpec
CONSTANTS
    a = a
    b = b
    j1 = j1
    j2 = j2
    j3 = j3
    j4 = j4
    Tenants = {a, b}
    Jobs = {j1, j2, j3, j4}
    TenantOf <- TwoEach
    OptionChoices <- TestOptions
    RecoveryLoop = FALSE
    MaxFaults = 0
PROPERTIES
    EveryJobIsProcessed
CHECK_DEADLOCK FALSE
