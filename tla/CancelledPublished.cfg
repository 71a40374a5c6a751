\* A cancelled notification is posted again.
SPECIFICATION Spec
CONSTANTS
    Notifications = {n1}
    Policies = {}
    Scopes = {1}
    Clients = {c1}
    Scheduler = scheduler
    MaxAttempts = 1
    MaxFaults = 0
INVARIANTS
    CancelledIsNotPublished
