\* Two stale stocktakes in every arrival order.
SPECIFICATION Spec
CONSTANTS
    w1 = w1  w2 = w2  w3 = w3  p1 = p1  p2 = p2
    None = None
    MaxDelta = 5
    Products = {p1}
    Opening <- OneOpening
    Workers = {w1, w2}
    Intents <- TwoCounts
INVARIANT GreatestCountWins
