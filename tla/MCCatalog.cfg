\* One base, two collections, tokens and integrations: money and minting.
\* Four models, three collections of which one is closed, two uploads, nine bases.
SPECIFICATION CatalogSpec
CONSTANTS
    Accounts = {a1, a2}
    ModelIds = {m1}
    NoModel = NoModel
    SealIds <- MCSealIds
    Nonces <- MCNonces
    SealIdLen = 2
    AccessFees = {1}
    DeriveFees = {0, 1}
    Royalties = {3000, 3001}
    MaxRoyalty = 3000
    InitialBalance = 2
    MaxVersion = 0
    CollectionIds = {c1, c2}
    NoCollection = NoCollection
    TokenIds = {t1}
    NoToken = NoToken
    Quilts = {q1}
    NoQuilt = NoQuilt
    Patches = {p1}
    RegisterFees = {0, 1}
    Models = {"v1", "v2", "o", "p"}
    Private = {"p"}
    NoTag = "any"
    GroupOf <- MCGroupOf
    TagsOf <- MCTagsOf
    CreatedAt <- MCCreatedAt
    PlaceOf <- MCPlaceOf
    ChipLists <- MCChipLists
    MaxTickets = 2
    MaxRecalls = 2
    Collections = {"c1", "c2", "c3"}
    Closed = {"c3"}
    None = "none"
    MaxReads = 2
    Fees = {1, 2}
    PublishTimeOf <- MCPublishTimeOf
    IdRankOf <- MCIdRankOf
    TokenPages <- MCTokenPages
    MAX_PAGES = 2
    MaxMoves = 1
    MaxClicks = 1
    Plans <- MCPlans
    Digits = 2
    PadWidth = 2
    Attempts = 2
    MaxEntries = 3
    MaxBehind = 1
    Bases <- MCBases
    Unnamed = ""
    Variants = 2
    Incomplete = {"trim"}
    OtherSpecs <- MCOtherSpecs
SYMMETRY Symmetry
INVARIANTS
    CatalogTypeOK
    NewestReadWins
    ListsAreHonest
    RegistersAsClicked
    ArtArrives
PROPERTIES
    QuiltWriteOnce
CHECK_DEADLOCK FALSE
