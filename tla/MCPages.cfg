\* Launch page: one base in the clear, an encrypted one that was bought, two
\* launches, one handler left behind at a time.  Two wallets and one token on the market,
\* two models of one creator and two more accounts on the page of a model,
\* one minter, two GLBs in a viewer, two bases in the variant editor.
SPECIFICATION PagesSpec
CONSTANTS
    Bases = {p1, x1}
    Encrypted = {x1}
    Own = {}
    Entitled = {x1}
    NoBase = NoBase
    UploadAttempts = 2
    MaxCollections = 2
    MaxLeft = 1
    None = None
    Wallets = {"w1", "w2"}
    Tokens = {"t1"}
    AskingPrices = {10}
    MaxPolls = 1
    MaxMoves = 2
    Cars = {"k1"}
    DefaultCar = "default"
    NoCar = "none"
    MaxLap = 2
    MaxBuilds = 3
    Models = {"m1", "m2"}
    Accounts = {"a", "b", "c"}
    CreatorOf <- MCCreatorOf
    MaxPurchases = 2
    Minters = {"a"}
    MaxMints = 2
    Glbs = {"g1", "g2"}
    Parts = {1}
    MaxViews = 2
    MaxViewers = 2
    DesignBases = {"b1", "b2"}
    NoDesignBase = "none"
    PartLabels <- MCPartLabels
    MaxVariants = 3
    Seeds = {0}
    Schemes = {"analogous", "complementary"}
    VariantPrices <- MCVariantPrices
    MaxEdits = 4
    MaxScenes = 3
    MaxUrls = 2
INVARIANTS
    PagesTypeOK
    OneFlowAtATime
    EncryptedForkIsOwnMesh
    StoragePaidOnce
    CurrentCardSells
    ScenesAreCurrent
    FinishedLapIsALap
    ViewIsPaidFor
    PaysAtMostOnce
    MintsAreWhole
PROPERTIES
    NeverOlder
CHECK_DEADLOCK FALSE
