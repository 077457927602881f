\* The release notes on Status Error, against what disable_interface does.
SPECIFICATION Spec
CONSTANTS
    None = None
    p1 = p1  p2 = p2
    w1 = w1  w2 = w2  bad = bad
    l1 = l1  l2 = l2
    n1 = n1  s1 = s1  s2 = s2  d1 = d1
    Ifs = {1}
    Provisioned = {1}
    PrivIds = {p1, p2}
    WANs = {w1, w2}
    BadWANs = {}
    DefaultWAN = w1
    LocalAddrs = {l1, l2}
    Home <- OneAddressEach
    Names = {n1}
    StaticAddrs = {s1}
    BadAddrs = {}
    DnsAddrs = {d1}
    Transactions <- Single
    Overlap = 1
    MaxQueue = 2
    Quirks <- NoQuirks
    Churn = {}
SYMMETRY PrivSymmetry
CHECK_DEADLOCK FALSE
INVARIANTS ErrorMeansNoTunnel
