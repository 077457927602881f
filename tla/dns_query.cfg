\* A query is replaced only when it is at rest, or cleared.
SPECIFICATION FairSpec
CONSTANTS
    None = None
    q1 = q1  q2 = q2  f1 = f1  f2 = f2  f3 = f3
    Queries = {q1, q2}
    Fds = {f1, f2, f3}
    Servers = 3
    Search = {TRUE, FALSE}
    Replacing = FALSE
INVARIANTS TypeOK SocketsWatched FreedLeavesNothing
PROPERTIES LookupSpec LookupAnswered
