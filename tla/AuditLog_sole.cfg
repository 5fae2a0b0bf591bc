SPECIFICATION Spec
CONSTANTS
    t1 = t1
    t2 = t2
    t3 = t3
    api = api
    cli = cli
    Nobody = Nobody
    NoTip = NoTip
    Threads = {t1, t2, t3}
    Processes = {api}
    ProcessOf <- SoleWriter
    TornWrites = FALSE
    MaxAppends = 5
INVARIANTS
    TypeOK
    ChainIntact
    AckedIsLogged
    ChainInv

PROPERTIES
    ImplementsAtomicLog
