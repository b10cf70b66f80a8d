\* Gemini budget: three addresses, three calls at a time, a budget of four and
\* a cap of two; four registrations, two pages; three delays of a poll loop;
\* two agents and three models; a page of two of the three forks.
SPECIFICATION ServicesSpec
CONSTANTS
    Users = {u1, u2, u3}
    NoUser = NoUser
    Slots = {1, 2, 3}
    Budget = 4
    PerAddressCap = 2
    Collections = {"c1", "c2"}
    Integrators = {"i1", "i2"}
    BadMetadata <- MCBadMetadata
    PageLimit = 3
    MaxThrows = 1
    MaxBlanks = 1
    Callers = {"u1", "u2"}
    PollMs = 1
    StaleMs = 2
    BalanceTimeout = 1
    MaxSpends = 1
    Ips = {"p1"}
    Addresses = {"a1", "a2", "a3"}
    MaxKeys = 2
    MaxPerWindow <- MCMaxPerWindow
    WindowMs = 2
    MaxCalls = 5
    Delays <- MCDelays
    MaxWait <- MCMaxWait
    RequestTimeout = 2
    Latencies = {0, 2}
    Models = {"m1", "m2", "m3"}
    Agents = {"a", "b"}
    Creator <- MCCreator
    Policy <- MCPolicy
    MaxEntitlements = 2
    MaxCrashes = 1
    Bases = {1, 2}
    Strange = {3}
    Forks = {1, 2, 3}
    BaseOf <- MCBaseOf
    Page = 2
    MaxCount = 1
    MaxClock = 4
    MaxBoots = 2
INVARIANTS
    ServicesTypeOK
    OvershootBounded
    ServesTheChain
    ArcDelivers
PROPERTIES
    AnswersInTime
    RateHolds
    ServicesAnswer
CHECK_DEADLOCK FALSE
