SPECIFICATION ReaderSpec
CONSTANTS
    t1 = t1
    t2 = t2
    api = api
    cli = cli
    Nobody = Nobody
    NoTip = NoTip
    Threads = {t1, t2}
    Processes = {api, cli}
    ProcessOf <- TwoWriters
    TornWrites = TRUE
    MaxAppends = 5
    Limits = {0, 2, 9}
    MaxLimit = 3
INVARIANTS
    LossIsReported
    PageIsVerified
    FailureIsDamage
