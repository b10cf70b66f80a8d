\* One page, two payments, and everything that can go wrong under it.
SPECIFICATION FairSpec
CONSTANTS
    Users = {u1}
    Creators = {u1}
    Digests = {d1, d2}
    Jobs = {j1, j2}
    Nobody = Nobody
    Operator = Nobody
    MaxJobs = 1
    Ttl = 2
    PollBudget = 2
    MaxAge = 0
    MaxRequests = 1
    Faults = {"restart", "lost", "reload", "expiry"}
PROPERTIES
    PageSettles
