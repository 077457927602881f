------------------------------ MODULE DnsQuery ------------------------------
(***************************************************************************)
(* dslite_cares.c: a DNS query object between the plug-in and c-ares.      *)
(*                                                                         *)
(* A query owns a c-ares channel, lists the sockets the channel has open,  *)
(* has the event loop watch them, and runs two timers: one that lets       *)
(* c-ares notice that a server did not answer, and one that destroys the   *)
(* channel when its last socket was closed.  c-ares calls back from inside *)
(* the calls made to it.  The object is freed when it is closed, while its *)
(* timers and its channel live on unless they were ended before.           *)
(*                                                                         *)
(* Every callback of the event loop and every operation of the caller      *)
(* (resolve_endpoint_name, clear_remote_endpoint_properties and            *)
(* cleanup_private_data) is one action; the functions they call are        *)
(* operators from a state to the state they leave.                         *)
(***************************************************************************)
EXTENDS Integers, FiniteSets

CONSTANTS
    None,
    Queries,   \* addresses of dns_query_t allocations (a bound)
    Fds,       \* file descriptors (a bound)
    Servers,   \* DNS servers c-ares is configured with
    Search,    \* whether it may have search domains to try the name with
    Replacing  \* whether the caller replaces a query that is not at rest

ASSUME DnsAssumption ==
    /\ None \notin Queries
    /\ Servers \in Nat \ {0}
    /\ Search \in (SUBSET BOOLEAN) \ {{}} /\ Replacing \in BOOLEAN

VARIABLES
    current,   \* intf_priv->dns_query
    query,     \* the objects, with their timers and channels
    watched,   \* the query the event loop calls for each file descriptor
    fault      \* a callback used a query that was freed

vars == <<current, query, watched, fault>>

Timer == {"none", "off", "running"}

\* lookup, open, servers and search belong to the channel: the lookup, the
\* sockets, how many servers it may still try, and whether it has search
\* domains, as its configuration was when it was made.  late: a question was
\* sent after timer_dns was started.  answers is a history of the calls of cb_fn.
Query == [state   : {"unused", "live", "freed"},
          chan    : BOOLEAN,
          fds     : SUBSET Fds,
          dns     : Timer,
          destroy : Timer,
          lookup  : {"none", "running", "done"},
          open    : SUBSET Fds,
          servers : 0..Servers,
          search  : BOOLEAN,
          late    : BOOLEAN,
          answers : 0..1]

Unused == [state |-> "unused", chan |-> FALSE, fds |-> {}, dns |-> "none",
           destroy |-> "none", lookup |-> "none", open |-> {}, servers |-> 0,
           search |-> FALSE, late |-> FALSE, answers |-> 0]

State == [current |-> current, query |-> query, watched |-> watched, fault |-> fault]

\* A step that uses freed memory leaves only that behind.
Become(t) ==
    IF t.fault
      THEN fault' = TRUE /\ UNCHANGED <<current, query, watched>>
      ELSE /\ current' = t.current /\ query' = t.query /\ watched' = t.watched
           /\ fault' = FALSE

Freed(s, q) == s.query[q].state = "freed"

Faulted(s) == [s EXCEPT !.fault = TRUE]

\* A descriptor that no channel has open.
FreeFds(s) == Fds \ UNION {s.query[q].open : q \in Queries}

-----------------------------------------------------------------------------
(* The callbacks c-ares calls.                                             *)

\* dslite_ares_addrinfo_cb stops timer_dns and calls cb_fn.
AddrinfoCb(s, q) ==
    IF Freed(s, q) THEN Faulted(s)
    ELSE [s EXCEPT !.query[q].dns = IF @ = "running" THEN "off" ELSE @,
                   !.query[q].answers = @ + 1]

\* dslite_ares_sock_cb for a socket that was opened: a new one is watched and
\* starts timer_dns (dslite_ares_start_timer) over again.
SocketOpened(s, q, fd) ==
    LET opened == [s EXCEPT !.query[q].open = @ \cup {fd},
                            !.query[q].servers = @ - 1, !.query[q].late = FALSE]
    IN  IF Freed(s, q) THEN Faulted(s)
        ELSE IF fd \in s.query[q].fds THEN opened
        ELSE [opened EXCEPT !.query[q].fds = @ \cup {fd}, !.watched[fd] = q,
                            !.query[q].dns = "running"]

\* Defect: a closed socket stays in the event loop.
SocketsClosedUnlisted(s, q, F) ==
    [s EXCEPT !.query[q].open = @ \ F, !.query[q].fds = @ \ F,
              !.query[q].destroy = IF F # {} /\ s.query[q].fds \subseteq F THEN "running" ELSE @]

\* dslite_ares_sock_cb, called for each of the sockets F that are closed: when
\* the list is empty then, the channel is to be destroyed.
SocketsClosed(s, q, F) ==
    LET r == s.query[q]
    IN  IF F = {} THEN s
        ELSE IF Freed(s, q) THEN Faulted(s)
        ELSE [s EXCEPT
                !.query[q].open    = r.open \ F,
                !.query[q].fds     = r.fds \ F,
                !.query[q].destroy = IF r.fds \subseteq F /\ @ # "none" THEN "running" ELSE @,
                !.watched = [fd \in Fds |-> IF fd \in r.fds \cap F THEN None ELSE @[fd]]]

\* A lookup ends: c-ares calls back with its result and closes its sockets.
EndLookup(s, q) ==
    LET t == AddrinfoCb([s EXCEPT !.query[q].lookup = "done"], q)
    IN  SocketsClosed(t, q, t.query[q].open)

\* ares_destroy ends the lookup that is running.
AresDestroy(s, q) ==
    LET t == IF s.query[q].lookup = "running" THEN EndLookup(s, q)
             ELSE SocketsClosed(s, q, s.query[q].open)
    IN  [t EXCEPT !.query[q].chan = FALSE]

\* c-ares goes on with the next server, on a socket of its own, or gives up.
NextServer(s, q) ==
    IF s.query[q].servers = 0 THEN {EndLookup(s, q)}
    ELSE {SocketOpened(s, q, fd) : fd \in FreeFds(s)}

-----------------------------------------------------------------------------
(* The operations of the caller.                                           *)

Unwatched(s, F) == [fd \in Fds |-> IF fd \in F THEN None ELSE s.watched[fd]]

\* Defect: the channel is left to the timer.
CloseKeepingChannel(s, q) ==
    [s EXCEPT !.query[q].fds = {}, !.watched = Unwatched(s, s.query[q].fds),
              !.query[q].state = "freed"]

\* Defect: the callback is told of a failure in any case.
CloseAnswering(s, q) ==
    IF Freed(s, q) THEN Faulted(s)
    ELSE [AresDestroy(AddrinfoCb(s, q), q) EXCEPT !.query[q].state = "freed"]

\* dslite_close_dns_query: the sockets leave the event loop first; the channel
\* is not destroyed while the timer is running that would destroy it.
CloseDnsQuery(s, q) ==
    LET removed == [s EXCEPT !.query[q].fds = {}, !.watched = Unwatched(s, s.query[q].fds)]
        t == IF s.query[q].chan /\ s.query[q].destroy # "running"
               THEN AresDestroy(removed, q) ELSE removed
    IN  IF Freed(s, q) THEN Faulted(s) ELSE [t EXCEPT !.query[q].state = "freed"]

\* Defect: the timer that destroys the channel is left.
DeleteTimersDns(s, q) == [s EXCEPT !.query[q].dns = "none"]

\* delete_ares_timers
DeleteTimers(s, q) == [s EXCEPT !.query[q].dns = "none", !.query[q].destroy = "none"]

\* A block malloc may return: nothing refers to it any more.
Reusable(s, q) ==
    /\ s.query[q].state # "live" /\ s.query[q].open = {}
    /\ "running" \notin {s.query[q].dns, s.query[q].destroy}

\* A new query, with its channel and its timers, becomes the current one and the
\* lookup starts.
NewQuery(d) == [Unused EXCEPT !.state = "live", !.chan = TRUE, !.destroy = "off",
                              !.lookup = "running", !.servers = Servers, !.search = d]

Opening(s, q, d) == [s EXCEPT !.current = q, !.query[q] = NewQuery(d)]

\* dslite_open_dns_query for a name that is not empty: the channel may not be
\* made, or answer at once, or open a socket to ask the first server.
OpenDnsQuery(s) ==
    {[s EXCEPT !.current = None]}
    \cup UNION {LET new == Opening(s, q, d) IN {EndLookup(new, q)} \cup NextServer(new, q) :
                  q \in {r \in Queries : Reusable(s, r)}, d \in Search}

\* The retry of resolve_endpoint_name comes 5 or 10 seconds after the answer,
\* when the timers, of 5.5 and 0.1 seconds, have ended.
AtRest(q) == query[q].lookup # "running" /\ query[q].destroy # "running"

ResolveEndpointName ==
    /\ ~fault
    /\ current \in {None} \cup {q \in Queries : Replacing \/ AtRest(q)}
    /\ LET s == IF current = None THEN State ELSE CloseDnsQuery(State, current)
       IN  IF s.fault THEN Become(s) ELSE \E t \in OpenDnsQuery(s) : Become(t)

\* clear_remote_endpoint_properties and cleanup_private_data
Clear ==
    /\ ~fault /\ current # None
    /\ Become([CloseDnsQuery(DeleteTimers(State, current), current) EXCEPT !.current = None])

-----------------------------------------------------------------------------
(* The callbacks of the event loop.                                        *)

\* dslite_ares_eventloop_cb: ares_process_fd reads a message.  It ends the
\* lookup, or says that the server refuses (its socket is closed before the
\* next one is opened), or that the name does not exist there (the next one to
\* try is sent on the same socket), or leaves the lookup as it is.
EventloopCb(fd) ==
    /\ ~fault /\ watched[fd] # None
    /\ LET q == watched[fd]
           r == query[q]
       IN  IF r.state = "freed" THEN Become(Faulted(State))
           ELSE /\ r.lookup = "running"
                /\ \E t \in {EndLookup(State, q)}
                            \cup NextServer(SocketsClosed(State, q, {fd}), q)
                            \cup (IF r.search THEN {[State EXCEPT !.query[q].late = TRUE]} ELSE {}) :
                     Become(t)

\* Defect: the timer's callback stops the timer and does not tell c-ares.
TimeoutCbUnprocessed(q) ==
    /\ ~fault /\ query[q].dns = "running"
    /\ Become([State EXCEPT !.query[q].dns = "off"])

\* dslite_ares_timeout_cb: a server that was asked when the timer was started,
\* or before, did not answer in time; one that was asked later still may.
TimeoutCb(q) ==
    /\ ~fault /\ query[q].dns = "running"
    /\ LET s == [State EXCEPT !.query[q].dns = "off"]
       IN  \E t \in IF Freed(s, q) THEN {Faulted(s)}
                    ELSE IF query[q].chan /\ query[q].lookup = "running" /\ ~query[q].late
                      THEN NextServer(s, q)
                    ELSE {s} : Become(t)

\* dslite_ares_destroy_channel_cb: whatever the channel was doing.
DestroyChannelCb(q) ==
    /\ ~fault /\ query[q].destroy = "running"
    /\ LET s == [State EXCEPT !.query[q].destroy = "off"]
       IN  Become(IF Freed(s, q) THEN Faulted(s)
                  ELSE IF ~query[q].chan THEN s
                  ELSE [AresDestroy(s, q) EXCEPT !.query[q].destroy = "none"])

Init ==
    /\ current = None
    /\ query = [q \in Queries |-> Unused]
    /\ watched = [fd \in Fds |-> None]
    /\ fault = FALSE

Next ==
    \/ ResolveEndpointName \/ Clear
    \/ \E fd \in Fds : EventloopCb(fd)
    \/ \E q \in Queries : TimeoutCb(q) \/ DestroyChannelCb(q)

Spec == Init /\ [][Next]_vars

\* The event loop fires its timers.
FairSpec == Spec /\ \A q \in Queries : WF_vars(TimeoutCb(q)) /\ WF_vars(DestroyChannelCb(q))

-----------------------------------------------------------------------------
(* Properties.                                                             *)

\* Every variable has the type its declaration describes.
TypeOK ==
    /\ current \in Queries \cup {None}
    /\ query \in [Queries -> Query]
    /\ watched \in [Fds -> Queries \cup {None}]
    /\ fault \in BOOLEAN

\* Between the callbacks, the event loop watches exactly the sockets c-ares has
\* open, each for the query whose list it is in.
SocketsWatched ==
    ~fault => \A fd \in Fds, q \in Queries :
        /\ watched[fd] = q <=> fd \in query[q].open
        /\ query[q].state = "live" => query[q].fds = query[q].open

\* A query that was freed leaves no channel, no running timer and no socket of
\* the event loop that would still call back for it.
FreedLeavesNothing ==
    \A q \in Queries : query[q].state = "freed" =>
        /\ ~query[q].chan
        /\ "running" \notin {query[q].dns, query[q].destroy}
        /\ \A fd \in Fds : watched[fd] # q

\* The callbacks check that they were given a query: here, that it is one.
CallbackHasQuery == ~fault

\* The query as DnsLookup has it.
PhaseOf(r) == IF r.state # "live" THEN "none"
              ELSE IF r.lookup = "running" THEN "pending"
              ELSE IF r.chan THEN "idle" ELSE "dead"

Phase == [q \in Queries |-> PhaseOf(query[q])]

Lookup == INSTANCE DnsLookup
            WITH phase <- Phase, answers <- [q \in Queries |-> query[q].answers]

\* dslite_cares.c provides what DnsLookup asks of it: one answer for each
\* query, at the latest when it is closed, and none after.
LookupSpec == Lookup!Spec

\* A lookup that has no search domains does not stay pending, although no
\* server ever answers: timer_dns notices each of them.
LookupAnswered ==
    \A q \in Queries :
        Phase[q] = "pending" /\ ~query[q].search ~> Phase[q] # "pending"
=============================================================================
