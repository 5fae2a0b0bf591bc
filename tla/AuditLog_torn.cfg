SPECIFICATION Spec
CONSTANTS
    t1 = t1
    t2 = t2
    t3 = t3
    api = api
    cli = cli
    Nobody = Nobody
    NoTip = NoTip
    Threads = {t1, t2, t3}
    Processes = {api}
    ProcessOf <- SoleWriter
    TornWrites = TRUE
    MaxAppends = 4
INVARIANTS
    AckedIsLogged
