SPECIFICATION Spec
CONSTANTS
    t1 = t1
    t2 = t2
    api = api
    cli = cli
    None = None
    Threads = {t1}
    Processes = {api}
    ProcessOf <- OneThread
    KeyedProcesses = {api}
    Mandates = {m1}
    Requests = {r1}
    MaxAttempts = 3
    MaxTrail = 1
    MaxInFlight = 1
INVARIANTS
    OneOrderPerReceipt
