\* A swap of two barcodes, a deletion and another account's claim; aborts anywhere.
SPECIFICATION FairSpec
CONSTANTS
    own = own  other = other  p1 = p1  p2 = p2  p3 = p3  codeA = codeA  codeB = codeB  codeC = codeC
    None = None
    Accounts = {own, other}
    Products = {p1, p2, p3}
    Codes = {codeA, codeB, codeC}
    Ops <- Swap
    Opening <- TwoCodes
CHECK_DEADLOCK FALSE
INVARIANTS TypeOK OneOwner CatalogIsFeedTail ConflictsHadAnOwner
PROPERTY EveryDeliveryEnds
