SPECIFICATION Spec
CONSTANTS
    NoTime = NoTime
    BucketSize = 2
    Procs = {p1, p2}
    NoProc = NoProc
    Users = {10}
    SubLists <- MCSubLists
    IDs = {1}
    Bills = {0, 2, 4}
    Instants = {1, 2}
    Counters = {1}
    Epochs = {1}
INVARIANT IInv
PROPERTIES NoOverdraw NoRefundWithoutAuthority ImplementsAtomic
