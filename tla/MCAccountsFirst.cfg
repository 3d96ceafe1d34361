\* A timezone west of Greenwich without a midnight on the first of a month.
SPECIFICATION MCSpec
CONSTANTS
    Permanent = Permanent
    DayLength = 2
    UTCOffset = 1
    Plans <- MCPlans
    Policies = {"reset", "prorate", "stack", "deny", "gift"}
    Common = 6
    Mixed = FALSE
    Horizon = 9
    MaxChanges = 3
    Bytes = {1}
    Half = 128
    MaxReportBytes = 8
    RateMax = 7
    RateBPUnit = 3
    Counts <- MCCounts
    Rates <- MCRates
    ReportsPerFlush = 2
    MaxFlushes = 4
    s1 = s1
    s2 = s2
    Sessions <- MCSessions
    Amounts <- MCAmounts
    MaxLog = 4
    NoTime = NoTime
    BucketSize = 2
    Entries <- MCEntries
    Lengths = {0, 1, 2, 3}
    Bills = {0, 1, 3}
    MonthLengths <- MCMonths
    UnitsPerDay = 6
    Zones <- FirstOfMonthZones
    ResetPolicies <- MCResetPolicies
    Signups <- MCSignups
    PeriodDays = 6
    LastInstant = 105
    MonthLength = 90
    Ahead = 21
    Retain = 105
    MigrationZone = 1
    SessionZone = 1
    Start <- MCStart
    LastUnit = 400
    MaxOutage = 21
\* Every account has a last step.
CHECK_DEADLOCK FALSE
INVARIANT NextIsAhead
