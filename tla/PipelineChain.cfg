\* One notification, retried twice and replayed; one fault.
SPECIFICATION Spec
CONSTANTS
    Notifications = {n1}
    MaxNumber = 3
    Publishers = {p1}
    Dispatchers = {d1}
    Workers = {w1, w2}
    None = None
    ChannelOf <- AllWebhook
    Serves <- ServeWebhook
    Budgets = {1, 2}
    MaxPublications = 2
    MaxFaults = 1
SYMMETRY Processes
INVARIANTS
    OneChainOfAttempts
    ChainInv
    PublicationIsReal
    NoRepublication
PROPERTIES
    ImplementsHistory
