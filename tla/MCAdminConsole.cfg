SPECIFICATION Spec
CHECK_DEADLOCK FALSE
CONSTANTS
    Clients = {c1, c2}
    Workers = {}
    Users = {root, u1}
    InitAdmin = root
    Promoted = {u1}
    None = None
    MaxFailures = 1
    UserChanges <- MCUserChanges
    MaxRequests = 3
    MaxOpenRequests = 2
    MaxFaults = 1
    BuiltinKey = market
    OtherKeys = {k1, k2}
    Values = {v0, v1}
    Default = v0
SYMMETRY ClientSymmetry
INVARIANTS
    TypeOK
    OneRoleEach
    SessionsFollowAccount
    GuessesLimited
    VersionNamesContent
PROPERTIES
    LastAdminKept
    EnabledAsAsked
    RoleDeletionSpares
