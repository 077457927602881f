\* A query is replaced at any time, as writing EndpointName does.
SPECIFICATION Spec
CONSTANTS
    None = None
    q1 = q1  q2 = q2  f1 = f1  f2 = f2  f3 = f3
    Queries = {q1, q2}
    Fds = {f1, f2, f3}
    Servers = 3
    Search = {FALSE}
    Replacing = TRUE
CHECK_DEADLOCK FALSE
INVARIANTS CallbackHasQuery
