\* Creation, edit, delete and movement of one product and another account's edit,
\* two transactions at a time, one replica that bootstraps and pulls one change at
\* a time; every delivery ends, although transactions wait for each other and abort.
SPECIFICATION FairSpec
CONSTANTS
    w1 = w1  w2 = w2  r1 = r1  own = own  other = other  p1 = p1
    None = None
    Accounts = {own, other}
    Products = {p1}
    Workers = {w1, w2}
    Readers = {r1}
    AccountOf <- ReaderOfOwn
    PageLimit = 1
    Ops <- Mixed
INVARIANTS TypeOK FeedIsContiguous AppliedExactlyOnce FeedIsSerial CatalogIsFeedTail NothingSkipped
PROPERTIES ImplementsLog EveryDeliveryEnds
