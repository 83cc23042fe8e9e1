\* Two edits of one device behind an edit of another one.
SPECIFICATION Spec
CONSTANTS
    d1 = d1  d2 = d2  p = p  q = q  name = name  code = code
    None = None  Blank = Blank
    Products = {p, q}
    Fields = {name, code}
    Required = {name}
    Barcode = code
    Values = {0, 1, 2, Blank}
    Devices = {d1, d2}
    Plans <- LostUpdate
    MaxOperations = 2
    MaxChanges = 9
    MaxFaults = 0
    MaxFollowUps = 0
    MaxBootstraps = 0
INVARIANT NoLostUpdate
