\* Every trigger, start and stop while attempts run.
SPECIFICATION FairSpec
CONSTANTS
    u1 = u1  u2 = u2
    None = None
    Pumps = {u1, u2}
INVARIANTS TypeOK OneAttempt QuietOutside NobodyLeftBehind
PROPERTIES EveryRefreshEnds EveryWriteIsTried
