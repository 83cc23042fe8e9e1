\* Stocktakes, an issue, its reversals and the deletion from two handlers, while the
\* tool verifies and rebuilds.
SPECIFICATION Spec
CONSTANTS
    w1 = w1  w2 = w2  w3 = w3  p1 = p1  p2 = p2
    None = None
    MaxDelta = 5
    Products = {p1, p2}
    Opening <- TwoOpening
    Workers = {w1, w2}
    Intents <- Mixed
INVARIANTS TypeOK CountHolds StocktakesAdvance ReversalsFollow
PROPERTIES BalanceFollowsLedger LedgerAppendOnly
