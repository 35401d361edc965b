CONSTANTS
    t1 = t1
    agent = agent  lead = lead  manager = manager
    o1 = o1  o2 = o2
    k1 = k1  k2 = k2
    p1 = p1
    None = None
    Tenants = {t1}
    Users = {agent, lead, manager}
    OrderNos = {o1, o2}
    Keys = {k1, k2}
    ProviderRefundNos = {p1}
    MaxRequestNo = 3
    Transactions = {1, 2, 3}
    InitialCalls <- ThreeCalls
    InitialStores <- OnlyOnRecord
    MaxOpenConns = 2

SPECIFICATION FairSpec
INVARIANTS
    ChecksStayTrue
    NobodyStuck
PROPERTIES
    AtomicSpec
    EveryCallEnds
CHECK_DEADLOCK FALSE
