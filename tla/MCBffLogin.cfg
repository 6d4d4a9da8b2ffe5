\* Two browsers, three logins, a store of two, a lifetime of two ticks.
CONSTANTS
    b1 = b1
    b2 = b2
    l1 = l1
    l2 = l2
    l3 = l3
    None = None
    Browsers = {b1, b2}
    Logins = {l1, l2, l3}
    MaxPending = 2
    TTL = 2
SYMMETRY Symmetry
SPECIFICATION Spec
INVARIANTS
    SignedInByOwnLogin
    CodeSentOnce
    UndisturbedLoginAccepted
