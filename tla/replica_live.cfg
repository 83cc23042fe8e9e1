\* What the user decides about conflicts, a fault and a snapshot; every device catches up.
SPECIFICATION FairSpec
CONSTANTS
    d1 = d1  d2 = d2  p = p  q = q  name = name  code = code
    None = None  Blank = Blank
    Products = {p, q}
    Fields = {name, code}
    Required = {name}
    Barcode = code
    Values = {0, 1, 2, Blank}
    Devices = {d1, d2}
    Plans <- Live
    MaxOperations = 2
    MaxChanges = 9
    MaxFaults = 1
    MaxFollowUps = 1
    MaxBootstraps = 1
INVARIANT RequestsAcceptable
PROPERTY EventuallyUpToDate
