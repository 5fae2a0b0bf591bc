SPECIFICATION HandlersSpec
CONSTANTS
    t1 = t1
    t2 = t2
    api = api
    cli = cli
    None = None
    Threads = {t1, t2}
    Processes = {api, cli}
    ProcessOf <- TwoProcesses
    KeyedProcesses = {api, cli}
    Mandates = {m1}
    Requests = {r1, r2}
    MaxAttempts = 3
    MaxTrail = 2
    MaxInFlight = 1
SYMMETRY Symmetry
INVARIANTS
    TypeOK
    ExecutionNeedsApproval
    SingleUse
    OneVerdict
    RecordedOrderExists
    ExecutionInv
PROPERTIES
    ImplementsLifecycle
    AnswersAreTrue
