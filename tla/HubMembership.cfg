SPECIFICATION Spec
CONSTANTS
    u1 = u1  u2 = u2  u3 = u3
    r1 = r1  r2 = r2
    Users = {u1, u2}
    Admins = {u2}
    Creator = u1
    Requests = {r1, r2}
    GrantedRoles = {"owner", "viewer"}
    NoRole = NoRole  Unset = Unset  NoOp = NoOp  NoPlan = NoPlan  NoCtx = NoCtx  NoHub = NoHub
SYMMETRY MCSymmetry
INVARIANT TypeOK
PROPERTIES KeepsOwner OwnersMadeByOwners ArchivedIsFrozen
CHECK_DEADLOCK FALSE
