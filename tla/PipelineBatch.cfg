\* Two notifications, claimed and published in one batch, with one worker; every
\* placement of one fault.  No symmetry: one property is temporal.
SPECIFICATION FairSpec
CONSTANTS
    Notifications = {n1, n2}
    MaxNumber = 1
    Publishers = {p1}
    Dispatchers = {d1}
    Workers = {w1}
    None = None
    ChannelOf <- AllWebhook
    Serves <- ServeWebhook
    Budgets = {1}
    MaxPublications = 2
    MaxFaults = 1
INVARIANTS
    TypeOK
    WorkInv
    NoLostWork
PROPERTIES
    PendingIsTakenUp
