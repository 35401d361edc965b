CONSTANTS
    c1 = c1  c2 = c2
    k1 = k1  k2 = k2
    t1 = t1  t2 = t2
    agent = agent  reviewer = reviewer
    service = service  lead = lead
    None = None
    Forged = Forged
    Tenants = {t1, t2}
    Users = {agent, reviewer}
    Roles = {service, lead}
    Tokens = {k1, k2}
    Calls = {c1, c2}
    Commands <- Requests
    Memberships <- Directory
    RoleByCode <- Permitted
    Active <- AllButTenant2
    SessionTTL = 1
    MaxTime = 2
    MaxRestarts = 1

SPECIFICATION Spec
SYMMETRY MemorySymmetry
PROPERTIES
    AuthenticatorSpec
