SPECIFICATION FairSpec
CONSTANTS
    NoTime = NoTime
    BucketSize = 2
    Procs = {p1, p2}
    NoProc = NoProc
    Users = {10}
    SubLists <- LiveSubLists
    IDs = {1}
    Bills = {0, 1}
    Instants = {2}
    Counters = {1}
    Epochs = {1}
PROPERTY EveryCallReturns
