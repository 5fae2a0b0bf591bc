SPECIFICATION GatewaySpec
CONSTANTS
    None = None
    Threads = {t1, t2, t3}
    Keys = {k1}
    Capacity = 8
    Unit = 4
    Rate = 1
    MaxClock = 10
    TicksPerSecond = 3
SYMMETRY Symmetry
INVARIANTS
    TypeOK
    WindowBound
    BurstComesBack
    WaitingHelps
