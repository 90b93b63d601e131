\* Three racing requests, one of which may be a dashboard read.
CONSTANTS
    Tenants = {"t1", "t2"}
    Users = {"ann", "bob", "zoe"}
    Roles = {"sys1", "plat1", "sys2"}
    Requests = {r1, r2, r3}
    Viewers = {r3}
    Screens = {r3}
    UserTenant <- MCUserTenant
    RoleTenant <- MCRoleTenant
    RoleCode <- MCRoleCode
    RoleActions <- MCRoleActions
    Founders <- MCFounders
    Windows <- MCWindows
    MaxTime = 1
    MaxVersion = 3
    MaxSweeps = 1
    MaxAttempts = 3
    Null = Null
SYMMETRY Symmetry
SPECIFICATION AdminSpec
CHECK_DEADLOCK FALSE
INVARIANTS
    AuditNamesTheDecider
    NoEscalation
 
