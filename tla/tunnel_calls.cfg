\* Every call of the controller module, with every failure on the way.
SPECIFICATION Spec
CONSTANTS
    None = None
    w1 = w1  w2 = w2  l1 = l1  l2 = l2  r1 = r1  r2 = r2  bad = bad
    WANs = {w1, w2}
    LocalAddrs = {l1, l2}
    Home <- OneAddressEach
    Remotes = {r1, r2}
    BadRemotes = {bad}
    MaxIndex = 3
    Faults = {"socket", "index", "command", "flags"}
INVARIANTS TypeOK SocketsClosed LinkOnWan FailureHasCause
PROPERTIES ServiceSpec
