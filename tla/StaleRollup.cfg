\* A late recalculation.
SPECIFICATION Spec
CONSTANTS
    Notifications = {n1}
    Policies = {}
    Scopes = {1}
    Clients = {c1, c2}
    Scheduler = scheduler
    MaxAttempts = 1
    MaxFaults = 0
INVARIANTS
    RollupIsCurrent
