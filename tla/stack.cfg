SPECIFICATION FairSpec
CONSTANTS
    t1 = t1
    t2 = t2
    NoTask = NoTask
    Tasks = {t1, t2}
    s1 = s1
    s2 = s2
    NoSlot = NoSlot
    Slots = {s1, s2}
    a = a
    b = b
    NoHost = NoHost
    Hosts = {a, b}
    ConnectPolls = 1
    HostnamePolls = 2
    DnsPolls = 2
    Mishaps = 1
    LateAnswers = FALSE
    PoisonsOthers = FALSE
    UsesDoubtful = FALSE
INVARIANTS TypeOK StreamsSeparate OneSlotPerMishap AddressOfName
PROPERTIES CallsReturn OperationsAdvance
CHECK_DEADLOCK FALSE
