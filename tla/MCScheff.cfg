SPECIFICATION FairSpec
CONSTANTS
    n_workers = 2
    Tasks = {t1, t2, t3}
    MaxRequests = 5
    None = None
INVARIANTS TypeOK OnePlace RemainingCounts ExitsWhenDone NeverResumesDead
PROPERTIES QueuedIsTaken RunReturns
