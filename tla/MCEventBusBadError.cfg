SPECIFICATION Spec
CONSTANTS
    Procs = {p1, p2}
    NoProc = NoProc
    ban = ban
    change = change
    revoke = revoke
    audit = audit
    Types = {ban, change}
    Names = {revoke, audit}
    TypeOrder <- MCTypeOrder
    RequiredSubscribers <- MCRequired
    Calls <- MCCalls
    HandlerCalls <- MCHandlerCalls
    Outcomes = {"ok", "error", "panic", "badError"}
    MaxDepth = 2
PROPERTIES FanOutComplete
