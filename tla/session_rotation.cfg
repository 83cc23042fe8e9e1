\* Two exchanges that share their refreshes, with lost answers and other failures.
SPECIFICATION FairSpec
CONSTANTS
    c1 = c1  c2 = c2  h1 = h1  h2 = h2
    None = None
    Callers = {c1, c2}
    Handlers = {h1, h2}
    MaxSessions = 5
    MaxFaults = 2
INVARIANTS TypeOK RotatedOnce RotatedWhenRejected LockedOutOnlyByLoss
PROPERTY EveryExchangeEnds
