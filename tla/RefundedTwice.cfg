CONSTANTS
    t1 = t1  t2 = t2
    agent = agent  lead = lead  manager = manager
    o1 = o1  o2 = o2
    k1 = k1  k2 = k2
    p1 = p1  p2 = p2
    c1 = c1  c2 = c2
    None = None
    Tenants = {t1}
    Users = {agent, lead, manager}
    OrderNos = {o1}
    Keys = {k1, k2}
    ProviderRefundNos = {p1, p2}
    MaxRequestNo = 2
    Calls = {c1}
    Commands <- Refunds
    InitialOrders <- AllUnshipped
    OrderVersions <- NeverChanges
    Thresholds = {3}
    MaxRestarts = 0

SPECIFICATION Spec
INVARIANTS
    RefundedWithinPaid
