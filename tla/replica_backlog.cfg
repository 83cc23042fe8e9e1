\* A queued edit and more changes to pull than a page holds.
SPECIFICATION FairSpec
CONSTANTS
    d1 = d1  d2 = d2  p = p  q = q  name = name  code = code
    None = None  Blank = Blank
    Products = {p, q}
    Fields = {name, code}
    Required = {name}
    Barcode = code
    Values = {0, 1, 2, Blank}
    Devices = {d1, d2}
    Plans <- BackedUp
    MaxOperations = 2
    MaxChanges = 1
    MaxFaults = 0
    MaxFollowUps = 0
    MaxBootstraps = 0
PROPERTY EventuallyUpToDate
