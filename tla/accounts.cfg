SPECIFICATION Spec
CONSTANTS
    q1 = q1  q2 = q2  ann = ann  bob = bob  cat = cat  w1 = w1  w2 = w2
    planner = planner  a1 = a1  superAdmin = superAdmin  nobody = nobody
    SignInRequests <- TheRequests
    MaxFailed = 2
    SignInLimit = 1
    MaxChanges = 3
    MaxSessions = 1
    MaxWrong = 2
    Names = {ann, bob, cat}
    CustomRoles = {planner}
    SuperAdmin = superAdmin
    AccessRequests = {a1}
    Workers <- TheWorkers
    FirstSupers <- TheSupers
    NoOne = nobody
    Editable = {"administer"}
    MaxVersion = 2
SYMMETRY Symmetry
INVARIANTS LockNeedsFailures ChangesEndSessions SuperAdminRemains
PROPERTIES RequestsDecidedOnce RolesHoldWhatWasChosen
CHECK_DEADLOCK FALSE
