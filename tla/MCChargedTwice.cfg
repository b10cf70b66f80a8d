\* One encrypted base the wallet bought access to.
SPECIFICATION Spec
CONSTANTS
    Bases = {x1}
    Encrypted = {x1}
    Own = {}
    Entitled = {x1}
    NoBase = NoBase
    UploadAttempts = 1
    MaxCollections = 2
    MaxLeft = 1
INVARIANT ChargedOnce
