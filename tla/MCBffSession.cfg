\* Two concurrent requests on one session, three tokens, short lifetimes.
CONSTANTS
    r1 = r1
    r2 = r2
    Requests = {r1, r2}
    MaxToken = 3
    IdleMax = 1
    AbsMax = 2
SPECIFICATION FairSpec
INVARIANTS
    NoResurrection
    RejectionIsCurrent
    LogoutRevokesTokens
    SessionRenewable
PROPERTIES
    ImplementsSessionGrant
    RequestsAnswered
    SessionsEnd
