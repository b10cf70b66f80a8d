\* Two users, two copilot turns, two turns under way at a time; one challenge
\* in the store; the times of a decryption in units of three seconds; one
\* model, and a client of the memory's route without the page.
SPECIFICATION SessionsSpec
CONSTANTS
    Users = {"a", "b"}
    NoUser = NoUser
    NoAccount = NoAccount
    NoQuery = NoQuery
    MaxTurns = 2
    MaxMessages = 6
    MaxCalls = 2
    Nonces = {"n1", "n2"}
    MaxNonces = 1
    MaxFlows = 2
    Queries = {"q1", "q2"}
    MaxTokens = 3
    MaxRecalls = 2
    KeyAttempts = 2
    KeyTimeout = 5
    KeyBackoff = 1
    Stall = 6
    HardCap = 15
    MaxRetries = 1
    FetchBackoff = 1
    Chunks = 2
    Aggregators = {"g1"}
    Budget = 25
    Clients = {"b"}
    Models = {"m1"}
    Prompts <- MCPrompts
    Caption <- MCCaption
    Foreign <- MCForeign
    Denylist = {"b"}
    OverFetch = 2
    Limits = {1}
    MaxSaid = 2
INVARIANTS
    SessionsTypeOK
    LateAnswersDropped
    ConversationIsOwn
    SessionIsEarned
    MemoryIsHonest
PROPERTIES
    ReadIsTimed
    WaitingEnds
CHECK_DEADLOCK FALSE
