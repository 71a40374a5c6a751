\* One attempt, one worker, and one fault.
SPECIFICATION FairSpec
CONSTANTS
    Notifications = {n1}
    MaxNumber = 1
    Publishers = {p1}
    Dispatchers = {d1}
    Workers = {w1}
    None = None
    ChannelOf <- AllWebhook
    Serves <- ServeWebhook
    Budgets = {1}
    MaxPublications = 2
    MaxFaults = 1
PROPERTIES
    AtLeastOneProviderCall
