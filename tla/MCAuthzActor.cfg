SPECIFICATION FairSpec
CONSTANTS
    u1 = u1
    u2 = u2
    p1 = p1
    p2 = p2
    admin = admin
    plain = plain
    um = um
    rm = rm
    Users = {u1, u2}
    Roles = {admin, plain}
    Scopes = {um, rm}
    UsersManage = um
    RolesManage = rm
    AdminRole = admin
    UserRole = plain
    SeedScopes <- MCSeedScopes
    ScopeSets <- MCSmallScopeSets
    BootUsers = {u1}
    Unset = Unset
    Proc = {p1, p2}
    None = None
PROPERTY ActorStillThere
