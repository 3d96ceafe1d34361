SPECIFICATION FairSpec
CONSTANTS
    Procs = {p1, p2}
    NoProc = NoProc
    ban = ban
    change = change
    revoke = revoke
    audit = audit
    Types = {ban, change}
    Names = {revoke, audit}
    TypeOrder <- MCTypeOrder
    RequiredSubscribers <- MCRequired
    Calls <- LiveCalls
    HandlerCalls <- LiveHandlerCalls
    Outcomes = {"ok", "badError"}
    MaxDepth = 2
PROPERTY EveryCallEnds
