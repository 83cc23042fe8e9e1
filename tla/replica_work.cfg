\* Edits, a deletion, stocktakes and barcodes, with a fault and a snapshot.
SPECIFICATION Spec
CONSTANTS
    d1 = d1  d2 = d2  p = p  q = q  name = name  code = code
    None = None  Blank = Blank
    Products = {p, q}
    Fields = {name, code}
    Required = {name}
    Barcode = code
    Values = {0, 1, 2, Blank}
    Devices = {d1, d2}
    Plans <- Work
    MaxOperations = 2
    MaxChanges = 9
    MaxFaults = 1
    MaxFollowUps = 0
    MaxBootstraps = 1
INVARIANTS TypeOK NothingLost Converged BalanceIsLedger BalancesConverge CursorCoversLedger DisplacedShown
PROPERTY TombstoneStays
