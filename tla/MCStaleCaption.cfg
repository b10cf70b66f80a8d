\* One account, two models loaded one after the other.
SPECIFICATION Spec
CONSTANTS
    Accounts = {a1}
    None = None
    MaxLoads = 2
INVARIANT CaptionDescribesMesh
CHECK_DEADLOCK FALSE
