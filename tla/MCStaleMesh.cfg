\* One base in the clear, one encrypted base the wallet may unlock.
SPECIFICATION Spec
CONSTANTS
    Bases = {p1, x1}
    Encrypted = {x1}
    Own = {}
    Entitled = {x1}
    NoBase = NoBase
    UploadAttempts = 1
    MaxCollections = 1
    MaxLeft = 1
INVARIANT ForkIsBakedFromItsBase
