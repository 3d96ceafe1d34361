SPECIFICATION FairSpec
CONSTANTS
    Workers = {w1, w2}
    NoWorker = NoWorker
    Trades = {t1, t2, t3}
INVARIANTS ShippedOnce PaidByOneTrade OnlyCancelledBounces
PROPERTIES OverIsOver PaidIsSettled
