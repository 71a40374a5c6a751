\* Three jobs of one tenant and one of another; bursts of two, one slot or two,
\* of which a tenant may use one; the recovery loop runs; one fault.  The worker
\* really stops when all jobs are processed.
SPECIFICATION FairSpec
CONSTANTS
    a = a
    b = b
    j1 = j1
    j2 = j2
    j3 = j3
    j4 = j4
    Tenants = {a, b}
    Jobs = {j1, j2, j3, j4}
    TenantOf <- ThreeAndOne
    OptionChoices <- OneOrTwoSlots
    RecoveryLoop = TRUE
    MaxFaults = 1
INVARIANTS
    TypeOK
    OrderListsWaiting
    TenantCapHolds
    
    BypassIsBounded
PROPERTIES
    EveryJobIsProcessed
CHECK_DEADLOCK FALSE
