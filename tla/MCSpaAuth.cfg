\* Safety: two activities of the tab at a time, two sessions, each of an admin of either role.
CONSTANTS
    t1 = t1
    t2 = t2
    Tasks = {t1, t2}
    Accounts = {"ok", "gated"}
    Roles = {"app_admin", "super_admin"}
    Patient = TRUE
    MaxSession = 2
    MaxClicks = 3
SPECIFICATION Spec
INVARIANTS
    ConsoleConsistent
    SuperAdminOnly
PROPERTIES
    GateHolds
SYMMETRY Symmetry
