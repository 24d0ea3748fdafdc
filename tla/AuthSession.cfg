SPECIFICATION FairSpec
CONSTANTS
    a = a
    b = b
    Call = {a, b}
    None = None
    MaxChanges = 2
INVARIANTS
    DenialIsReal
PROPERTY
    CallsSucceed
