CONSTANTS
    c1 = c1  c2 = c2
    k1 = k1  k2 = k2
    t1 = t1  t2 = t2
    reviewer = reviewer
    lead = lead
    None = None
    Forged = Forged
    Tenants = {t1, t2}
    Users = {reviewer}
    Roles = {lead}
    Tokens = {k1, k2}
    Calls = {c1, c2}
    Commands <- Requests
    InitialRoles <- RolesAtFirst
    InitialGrants <- GrantsAtFirst
    SessionTTL = 1
    MaxTime = 1
    MaxChanges = 1
    MaxRestarts = 1

SPECIFICATION HistorySpec
SYMMETRY AuthSymmetry
INVARIANTS
    TypeOK
    LoginBindsTenant
    SessionsSound
    AdmittedEntitled
PROPERTIES
    SessionsKept
    AuthenticatorSpec
