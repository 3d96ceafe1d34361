SPECIFICATION FairSpec
CONSTANTS
    Procs = {p1, p2, p3}
    RequiredSubscribers <- MCRequired
    EffectFrom = "state"
    MaxEvents = 4
    MaxFailures = 2
INVARIANT AccessFollowsState
PROPERTY EveryEffectHappens
CHECK_DEADLOCK FALSE
