\* The gate raised by a call of a page the admin is signed in to.
CONSTANTS
    t1 = t1
    Tasks = {t1}
    Accounts = {"ok", "gated"}
    Roles = {"super_admin"}
    Patient = TRUE
    MaxSession = 1
    MaxClicks = 3
SPECIFICATION FairSpec
PROPERTIES
    GateReachesForm
