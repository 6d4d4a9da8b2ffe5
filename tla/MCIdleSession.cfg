\* Liveness: two activities at a time, one session that may end.
CONSTANTS
    t1 = t1
    t2 = t2
    Tasks = {t1, t2}
    Accounts = {"ok"}
    Roles = {"super_admin"}
    Patient = TRUE
    MaxSession = 1
    MaxClicks = 4
SPECIFICATION IdleFairSpec
INVARIANTS
    WarnedBeforeExpiry
PROPERTIES
    IdleSignOutLeaves
    ExpiryReachesLogin
    SignOutLeavesConsole
