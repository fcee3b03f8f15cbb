\* Three workers; one further client, which may overlap the stop.
CONSTANTS
    Workers = {w1, w2, w3}
    Owner = own
    Clients = {c1}
    Tasks = {t1, t2, t3}
    None = None
    Overlap = TRUE
SPECIFICATION Spec
SYMMETRY Symmetry
INVARIANTS
    TasksConserved
    IdlesCountWaiters
    AllIdleMeansDone
    WorkConserving
    NoSleeperAfterBroadcast
    FreedWhenDrained
