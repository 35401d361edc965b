CONSTANTS
    t1 = t1
    agent = agent  lead = lead  manager = manager
    service = service  supervisor = supervisor  finance = finance
    o1 = o1
    k1 = k1
    p1 = p1
    c1 = c1  c2 = c2
    None = None
    Tenants = {t1}
    Users = {agent, lead, manager}
    Roles = {service, supervisor, finance}
    OrderNos = {o1}
    Keys = {k1}
    ProviderRefundNos = {p1}
    MaxRequestNo = 1
    Calls = {c1, c2}
    Commands <- HandlerCommands
    Requests <- Lives
    InitialOrders <- OneOrder
    OrderVersions <- Ships
    InitialRoles <- RolesAtFirst
    InitialGrants <- GrantsAtFirst
    Thresholds = {2, 3}
    MaxRestarts = 1
    MaxChanges = 1

SPECIFICATION HistorySpec
SYMMETRY CallSymmetry
CONSTRAINT OneEvent
INVARIANTS
    DeskTypeOK
    OneEffectPerKey
    StatusTellsEffect
PROPERTIES
    WritesEntitled
    ToldLevelsDecide
