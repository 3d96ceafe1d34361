SPECIFICATION Spec
CONSTANTS
    NoTime = NoTime
    BucketSize = 2
    Plans <- MCPlans
    Bills = {2, 3}
    MaxClock = 3
    MaxBatches = 3
    MaxCrashes = 1
    MaxResets = 1
    Disturbances <- MCDisturbances
INVARIANTS LedgerExactlyOnce CounterCoversTheLedger AllowanceNotOverbilled LadderIsTheLedger
