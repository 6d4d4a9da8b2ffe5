\* A sign-out beside another request: the tokens it revokes need not be the last ones.
CONSTANTS
    r1 = r1
    r2 = r2
    Requests = {r1, r2}
    MaxToken = 3
    IdleMax = 1
    AbsMax = 2
SYMMETRY Symmetry
SPECIFICATION Spec
INVARIANTS
    LogoutRevokesTokensAlways
