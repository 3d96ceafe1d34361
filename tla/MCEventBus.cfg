SPECIFICATION Spec
CONSTANTS
    Procs = {p1, p2}
    NoProc = NoProc
    ban = ban
    change = change
    revoke = revoke
    audit = audit
    Types = {ban, change}
    Names = {revoke, audit}
    TypeOrder <- MCTypeOrder
    RequiredSubscribers <- MCRequired
    Calls <- MCCalls
    HandlerCalls <- MCHandlerCalls
    Outcomes = {"ok", "error", "panic"}
    MaxDepth = 3
INVARIANT OneDeliveryEach
PROPERTIES FanOutComplete CallsTakeTurns
