\* Two accounts in one tab, one challenge, a nonce store with room for one.
SPECIFICATION Spec
CONSTANTS
    Accounts = {alice, bob}
    NoAccount = NoAccount
    Nonces = {n1}
    MaxNonces = 1
    MaxFlows = 1
INVARIANT KeyEndsWithSession
