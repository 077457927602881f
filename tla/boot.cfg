\* Processes that start, fail to start, stop and crash, one after the other.
SPECIFICATION FairBootSpec
CONSTANTS
    None = None
    p1 = p1  p2 = p2
    w1 = w1  l1 = l1  n1 = n1  s1 = s1  d1 = d1
    Ifs = {1}
    Provisioned = {1}
    PrivIds = {p1, p2}
    WANs = {w1}
    BadWANs = {}
    DefaultWAN = w1
    LocalAddrs = {l1}
    Home <- OneAddress
    Names = {n1}
    StaticAddrs = {s1}
    BadAddrs = {}
    DnsAddrs = {d1}
    Transactions <- PrecAndAddr
    Overlap = 1
    MaxQueue = 2
    Quirks = {}
    Churn = {}
    Controllers <- Ioctl
    FWControllers <- FirewallM
    StartFaults = {"bus", "open", "load"}
CHECK_DEADLOCK FALSE
INVARIANTS BootTypeOK ControllersFirst SavedWhenIdle OnlyLeftTunnel PrivOnlyWhileActive
PROPERTIES ComesUpAgain
