\* One scheduled notification, two clients besides the scheduler, one policy.
SPECIFICATION FairSpec
CONSTANTS
    Notifications = {n1}
    Policies = {policy1}
    Scopes = {1}
    Clients = {c1, c2}
    Scheduler = scheduler
    MaxAttempts = 2
    MaxFaults = 1
INVARIANTS
    TypeOK
    NeverCancelledAndPromoted
    
    FinalStatusIsTrue

    
