\* A publisher whose connection is lost once.
SPECIFICATION FairSpec
CONSTANTS
    p1 = p1
    c1 = c1
    c2 = c2
    Processes = {p1}
    Callers = {c1, c2}
    ProcessOf <- OneProcess
    Does <- Publisher
    Lists = {"dispatch"}
    Jobs = {j1}
    None = None
    Limit = 1
    MaxCopies = 1
    MaxCount = 0
    MaxFaults = 1
PROPERTIES
    PublisherRecovers
