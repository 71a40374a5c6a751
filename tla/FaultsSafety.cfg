\* One attempt; two publishers, a dispatcher and two workers; failing store
\* calls, stopping workers and the faults of the pipeline: any three, anywhere.
SPECIFICATION FaultsSpec
CONSTANTS
    Notifications = {n1}
    MaxNumber = 1
    Publishers = {p1, p2}
    Dispatchers = {d1}
    Workers = {w1, w2}
    None = None
    ChannelOf <- AllWebhook
    Serves <- ServeWebhook
    Budgets = {1}
    MaxPublications = 3
    MaxFaults = 3
SYMMETRY Processes
INVARIANTS
    OneProviderCallPerAttempt
PROPERTIES
    ClaimIsFenced
    ImplementsHistory
