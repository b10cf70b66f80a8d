\* Two bases under every license, three wallets, one upgrade, one fork and no
\* tokens: who decrypts, who may fork, and what LicensePromise says of both.
SPECIFICATION Spec
CONSTANTS
    Accounts = {a1, a2, a3}
    ModelIds = {m1, m2}
    NoModel = NoModel
    SealIds <- MCSealIds
    Nonces <- MCNonces
    SealIdLen = 2
    AccessFees = {1}
    DeriveFees = {0, 1}
    Royalties = {3000, 3001}
    MaxRoyalty = 3000
    InitialBalance = 2
    MaxVersion = 1
    CollectionIds = {c1}
    NoCollection = NoCollection
    TokenIds = {}
    NoToken = NoToken
    Quilts = {}
    NoQuilt = NoQuilt
    Patches = {p1}
    RegisterFees = {0}
SYMMETRY Symmetry
INVARIANTS
    TypeOK
    DecryptIsolation
    EntitledCanDecrypt
    LedgerSettled
    LicenseRespected
PROPERTY ImplementsLicensePromise
CHECK_DEADLOCK FALSE
