\* Two workers and a client that is done before the stop, scheduled fairly.
CONSTANTS
    Workers = {w1, w2}
    Owner = own
    Clients = {c1}
    Tasks = {t1, t2}
    None = None
    Overlap = FALSE
SPECIFICATION FairSpec
PROPERTIES
    ImplementsTaskPool
    StopReturns
    AcceptedRuns
    PollSucceeds
