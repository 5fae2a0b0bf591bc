SPECIFICATION MetricsSpec
CONSTANTS
    t1 = t1
    t2 = t2
    api = api
    cli = cli
    None = None
    Threads = {t1}
    Processes = {api}
    ProcessOf <- OneThread
    KeyedProcesses = {api}
    Mandates = {m1, m2}
    Requests = {r1, r2}
    MaxAttempts = 2
    MaxTrail = 3
    MaxInFlight = 0
SYMMETRY Symmetry
INVARIANTS
    SingleUse
    OneVerdict
    OneOrderPerReceipt
    CountersAreLogged
PROPERTIES
    MetricsAreOrdered
