\* Two users, two payments, a job store with room for one: dispatches race,
\* are resubmitted, evicted, swept and lost with the process.
SPECIFICATION Spec
CONSTANTS
    Users = {u1, u2}
    Creators = {u1}
    Digests = {d1, d2}
    Jobs = {j1, j2}
    Nobody = Nobody
    Operator = u2
    MaxJobs = 1
    Ttl = 2
    PollBudget = 2
    MaxAge = 0
    MaxRequests = 2
    Faults = {"restart", "resubmit"}
INVARIANTS
    OneDigestOneJob
PROPERTIES
    SweepSparesPolling
