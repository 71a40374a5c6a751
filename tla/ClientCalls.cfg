\* One process with two goroutines on its connection; one job, which may exist
\* twice; two counted requests, of which one is allowed; two faults.
SPECIFICATION FairSpec
CONSTANTS
    p1 = p1
    c1 = c1
    c2 = c2
    Processes = {p1}
    Callers = {c1, c2}
    ProcessOf <- OneProcess
    Does <- Roles
    Lists = {"dispatch"}
    Jobs = {j1}
    None = None
    Limit = 1
    MaxCopies = 2
    MaxCount = 2
    MaxFaults = 2
INVARIANTS
    TypeOK
    TransactionIsPrivate
    CounterWillExpire
PROPERTIES
    ImplementsCalls
    CallsReturn
