\* A conflict that is resolved after the product was deleted.
SPECIFICATION Spec
CONSTANTS
    d1 = d1  d2 = d2  p = p  q = q  name = name  code = code
    None = None  Blank = Blank
    Products = {p, q}
    Fields = {name, code}
    Required = {name}
    Barcode = code
    Values = {0, 1, 2, Blank}
    Devices = {d1, d2}
    Plans <- Resurrection
    MaxOperations = 2
    MaxChanges = 9
    MaxFaults = 0
    MaxFollowUps = 1
    MaxBootstraps = 0
PROPERTY TombstoneStays
