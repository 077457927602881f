--------------------------- MODULE DnsQuery_proofs ---------------------------
(***************************************************************************)
(* What is proved of DnsQuery for any number of queries, descriptors and   *)
(* servers.                                                                *)
(***************************************************************************)
EXTENDS DnsQuery, TLAPS

\* The states the operators of DnsQuery are applied to.
States == [current : Queries \cup {None},
           query   : [Queries -> Query],
           watched : [Fds -> Queries \cup {None}],
           fault   : BOOLEAN]

\* A lookup that runs has not been answered.
Unanswered(s) == \A q \in Queries : s.query[q].lookup = "running" => s.query[q].answers = 0

\* What the operators of one query leave alone.
Others(s, t, q) == /\ t.current = s.current
                   /\ \A r \in Queries \ {q} : t.query[r] = s.query[r]

-----------------------------------------------------------------------------
(* The callbacks c-ares calls.                                             *)

\* Every object starts, and is allocated, as a typed record.
LEMMA UnusedTyped == Unused \in Query
  BY DnsAssumption DEF Unused, Query, Timer

\* A step into freed memory keeps the types.
LEMMA FaultedTyped ==
    ASSUME NEW s \in States
    PROVE  /\ Faulted(s) \in States /\ Faulted(s).fault
           /\ Faulted(s).query = s.query /\ Faulted(s).current = s.current
           /\ Faulted(s).watched = s.watched
  BY DEF Faulted, States

\* One object changes.
Put(s, q, n) == [s EXCEPT !.query[q] = n]

\* What is left when one object changes.
LEMMA PutEffect ==
    ASSUME NEW s \in States, NEW q \in Queries, NEW n \in Query
    PROVE  LET t == Put(s, q, n)
           IN  /\ t \in States /\ t.query[q] = n /\ Others(s, t, q)
               /\ t.watched = s.watched /\ t.fault = s.fault
  BY DEF Put, States, Others

\* Others composes.
LEMMA OthersTwice ==
    ASSUME NEW s, NEW t, NEW u, NEW q \in Queries, Others(s, t, q), Others(t, u, q)
    PROVE  Others(s, u, q)
  BY DEF Others

\* dslite_ares_addrinfo_cb answers and stops timer_dns.
LEMMA AddrinfoCbEffect ==
    ASSUME NEW s \in States, NEW q \in Queries, ~Freed(s, q), s.query[q].answers = 0
    PROVE  LET t == AddrinfoCb(s, q)
               r == s.query[q]
           IN  /\ t \in States /\ Others(s, t, q)
               /\ t.watched = s.watched /\ t.fault = s.fault
               /\ t.query[q] = [r EXCEPT !.dns = IF @ = "running" THEN "off" ELSE @,
                                         !.answers = 1]
  <1> DEFINE r == s.query[q]
             d == IF r.dns = "running" THEN "off" ELSE r.dns
             n == [r EXCEPT !.dns = d]
             m == [n EXCEPT !.answers = 1]
             t == Put(s, q, n)
             u == Put(t, q, m)
  <1>1. r \in Query BY DEF States
  <1>2. r.dns \in Timer BY <1>1 DEF Query
  <1>3. d \in Timer BY <1>2 DEF Timer
  <1> HIDE DEF d
  <1>4. n \in Query BY <1>1, <1>3 DEF Query
  <1> HIDE DEF n
  <1>m. m \in Query BY <1>4 DEF Query
  <1> HIDE DEF m
  <1>5. t \in States /\ t.query[q] = n /\ u \in States /\ u.query[q] = m
        /\ Others(s, t, q) /\ Others(t, u, q)
        /\ u.watched = s.watched /\ u.fault = s.fault
    BY <1>4, <1>m, PutEffect
  <1>6. AddrinfoCb(s, q) = u
    <2>1. AddrinfoCb(s, q) = [t EXCEPT !.query[q].answers = 1]
      BY DEF AddrinfoCb, Put, n, d
    <2> HIDE DEF t
    <2>2. [t EXCEPT !.query[q].answers = 1] = u BY <1>5 DEF Put, m
    <2> QED BY <2>1, <2>2
  <1> QED BY <1>5, <1>6, OthersTwice DEF d, n, m

\* A query some of whose sockets are closed.
ClosedQuery(r, F) ==
    [r EXCEPT !.open = @ \ F, !.fds = @ \ F,
              !.destroy = IF F # {} /\ r.fds \subseteq F /\ @ # "none" THEN "running" ELSE @]

\* What the event loop watches when the listed ones of the sockets F are closed.
WatchedWithout(s, q, F) ==
    [fd \in Fds |-> IF fd \in s.query[q].fds \cap F THEN None ELSE s.watched[fd]]

\* dslite_ares_sock_cb for closed sockets: those that were listed are no longer
\* watched, and an empty list starts the timer that destroys the channel.
LEMMA SocketsClosedEffect ==
    ASSUME NEW s \in States, NEW q \in Queries, NEW F \in SUBSET Fds, ~Freed(s, q)
    PROVE  LET t == SocketsClosed(s, q, F)
           IN  /\ t \in States /\ Others(s, t, q) /\ t.fault = s.fault
               /\ t.watched = WatchedWithout(s, q, F)
               /\ t.query[q] = ClosedQuery(s.query[q], F)
  <1> DEFINE r == s.query[q]
             d == IF r.fds \subseteq F /\ r.destroy # "none" THEN "running" ELSE r.destroy
             w == [fd \in Fds |-> IF fd \in r.fds \cap F THEN None ELSE s.watched[fd]]
             n == [r EXCEPT !.open = r.open \ F]
             m == [n EXCEPT !.fds = r.fds \ F]
             p == [m EXCEPT !.destroy = d]
             t1 == Put(s, q, n)
             t2 == Put(t1, q, m)
             t3 == Put(t2, q, p)
             t == [t3 EXCEPT !.watched = w]
  <1>1. r \in Query /\ s.watched \in [Fds -> Queries \cup {None}] BY DEF States
  <1>2. w \in [Fds -> Queries \cup {None}] BY <1>1
  <1>3. CASE F = {}
    <2>1. r.open \ F = r.open /\ r.fds \ F = r.fds BY <1>3
    <2>2. ClosedQuery(r, F) = r BY <1>1, <1>3, <2>1 DEF Query, ClosedQuery
    <2>3. w = s.watched BY <1>1, <1>3
    <2>4. SocketsClosed(s, q, F) = s BY <1>3 DEF SocketsClosed
    <2> HIDE DEF w
    <2> QED BY <2>2, <2>3, <2>4 DEF Others, w, WatchedWithout
  <1>4. CASE F # {}
    <2>1. r.destroy \in Timer BY <1>1 DEF Query
    <2>2. d \in Timer BY <2>1 DEF Timer
    <2> HIDE DEF d, w
    <2>3. n \in Query BY <1>1 DEF Query
    <2> HIDE DEF n
    <2>4. m \in Query BY <1>1, <2>3 DEF Query
    <2> HIDE DEF m
    <2>5. p \in Query BY <2>2, <2>4 DEF Query
    <2> HIDE DEF p
    <2>6. t1 \in States /\ t1.query[q] = n /\ Others(s, t1, q)
          /\ t1.watched = s.watched /\ t1.fault = s.fault
      BY <2>3, PutEffect
    <2> HIDE DEF t1
    <2>7. t2 \in States /\ t2.query[q] = m /\ Others(t1, t2, q)
          /\ t2.watched = s.watched /\ t2.fault = s.fault
      BY <2>4, <2>6, PutEffect
    <2> HIDE DEF t2
    <2>8. t3 \in States /\ t3.query[q] = p /\ Others(t2, t3, q)
          /\ t3.watched = s.watched /\ t3.fault = s.fault
      BY <2>5, <2>7, PutEffect
    <2> HIDE DEF t3
    <2>9. t \in States /\ t.query[q] = p /\ Others(t3, t, q)
          /\ t.watched = w /\ t.fault = s.fault
      BY <1>2, <2>8 DEF States, Others
    <2>10. SocketsClosed(s, q, F) = t
      <3>1. SocketsClosed(s, q, F) =
              [s EXCEPT !.query[q].open = r.open \ F, !.query[q].fds = r.fds \ F,
                        !.query[q].destroy = d, !.watched = w]
        BY <1>4 DEF SocketsClosed, d, w
      <3>2. [s EXCEPT !.query[q].open = r.open \ F] = t1 BY DEF t1, Put, n
      <3>3. [t1 EXCEPT !.query[q].fds = r.fds \ F] = t2 BY <2>6 DEF t2, Put, m
      <3>4. [t2 EXCEPT !.query[q].destroy = d] = t3 BY <2>7 DEF t3, Put, p
      <3> QED BY <3>1, <3>2, <3>3, <3>4
    <2>11. Others(s, t, q) BY <2>6, <2>7, <2>8, <2>9, OthersTwice
    <2>12. p = ClosedQuery(r, F) BY <1>4 DEF p, m, n, d, ClosedQuery
    <2> QED BY <2>9, <2>10, <2>11, <2>12 DEF w, WatchedWithout
  <1> QED BY <1>3, <1>4

\* A query that asks a server on a socket, and one that lists it for the first time.
AskingQuery(r, fd) ==
    [r EXCEPT !.open = @ \cup {fd}, !.servers = @ - 1, !.late = FALSE]

ListingQuery(r, fd) ==
    [AskingQuery(r, fd) EXCEPT !.fds = @ \cup {fd}, !.dns = "running"]

\* dslite_ares_sock_cb for a socket that was opened.
LEMMA SocketOpenedEffect ==
    ASSUME NEW s \in States, NEW q \in Queries, NEW fd \in Fds, ~Freed(s, q),
           s.query[q].servers # 0
    PROVE  LET t == SocketOpened(s, q, fd)
               r == s.query[q]
           IN  /\ t \in States /\ Others(s, t, q) /\ t.fault = s.fault
               /\ fd \in r.fds => t.watched = s.watched /\ t.query[q] = AskingQuery(r, fd)
               /\ fd \notin r.fds => /\ t.watched = [s.watched EXCEPT ![fd] = q]
                                     /\ t.query[q] = ListingQuery(r, fd)
  <1> DEFINE r == s.query[q]
             k == r.servers - 1
             n == [r EXCEPT !.open = r.open \cup {fd}]
             m == [n EXCEPT !.servers = k]
             p == [m EXCEPT !.late = FALSE]
             a == [p EXCEPT !.fds = p.fds \cup {fd}]
             b == [a EXCEPT !.dns = "running"]
             w == [s.watched EXCEPT ![fd] = q]
             t1 == Put(s, q, n)
             t2 == Put(t1, q, m)
             t3 == Put(t2, q, p)
             t4 == Put(t3, q, a)
             t5 == [t4 EXCEPT !.watched[fd] = q]
             t6 == Put(t5, q, b)
  <1>1. r \in Query /\ s.watched \in [Fds -> Queries \cup {None}] BY DEF States
  <1>2. w \in [Fds -> Queries \cup {None}] BY <1>1
  <1>3. r.servers \in 0..Servers /\ r.servers # 0 BY <1>1 DEF Query
  <1>4. k \in 0..Servers BY <1>3, DnsAssumption
  <1> HIDE DEF k, w
  <1>5. n \in Query BY <1>1 DEF Query
  <1> HIDE DEF n
  <1>6. m \in Query BY <1>4, <1>5 DEF Query
  <1> HIDE DEF m
  <1>7. p \in Query BY <1>6 DEF Query
  <1> HIDE DEF p
  <1>8. a \in Query BY <1>7 DEF Query
  <1> HIDE DEF a
  <1>9. b \in Query BY <1>8 DEF Query, Timer
  <1> HIDE DEF b
  <1>10. t1 \in States /\ t1.query[q] = n /\ Others(s, t1, q)
         /\ t1.watched = s.watched /\ t1.fault = s.fault
    BY <1>5, PutEffect
  <1> HIDE DEF t1
  <1>11. t2 \in States /\ t2.query[q] = m /\ Others(t1, t2, q)
         /\ t2.watched = s.watched /\ t2.fault = s.fault
    BY <1>6, <1>10, PutEffect
  <1> HIDE DEF t2
  <1>12. t3 \in States /\ t3.query[q] = p /\ Others(t2, t3, q)
         /\ t3.watched = s.watched /\ t3.fault = s.fault
    BY <1>7, <1>11, PutEffect
  <1> HIDE DEF t3
  <1>13. t4 \in States /\ t4.query[q] = a /\ Others(t3, t4, q)
         /\ t4.watched = s.watched /\ t4.fault = s.fault
    BY <1>8, <1>12, PutEffect
  <1> HIDE DEF t4
  <1>14. t5 \in States /\ t5.query[q] = a /\ Others(t4, t5, q)
         /\ t5.watched = w /\ t5.fault = s.fault
    BY <1>2, <1>13 DEF States, Others, w
  <1> HIDE DEF t5
  <1>15. t6 \in States /\ t6.query[q] = b /\ Others(t5, t6, q)
         /\ t6.watched = w /\ t6.fault = s.fault
    BY <1>9, <1>14, PutEffect
  <1> HIDE DEF t6
  <1>16. [s EXCEPT !.query[q].open = @ \cup {fd}, !.query[q].servers = @ - 1,
                   !.query[q].late = FALSE] = t3
    <2>1. [s EXCEPT !.query[q].open = r.open \cup {fd}] = t1 BY DEF t1, Put, n
    <2>2. [t1 EXCEPT !.query[q].servers = k] = t2 BY <1>10 DEF t2, Put, m
    <2>3. [t2 EXCEPT !.query[q].late = FALSE] = t3 BY <1>11 DEF t3, Put, p
    <2> QED BY <2>1, <2>2, <2>3 DEF k
  <1>17. p = AskingQuery(r, fd) /\ p.fds = r.fds
    BY <1>1 DEF p, m, n, k, Query, AskingQuery
  <1>18. Others(s, t3, q) /\ Others(s, t6, q)
    BY <1>10, <1>11, <1>12, <1>13, <1>14, <1>15, OthersTwice
  <1>19. CASE fd \in r.fds
    <2>1. SocketOpened(s, q, fd) = t3 BY <1>16, <1>19 DEF SocketOpened
    <2> QED BY <2>1, <1>12, <1>17, <1>18, <1>19
  <1>20. CASE fd \notin r.fds
    <2>1. SocketOpened(s, q, fd) =
            [t3 EXCEPT !.query[q].fds = @ \cup {fd}, !.watched[fd] = q,
                       !.query[q].dns = "running"]
      BY <1>16, <1>20 DEF SocketOpened
    <2>2. [t3 EXCEPT !.query[q].fds = @ \cup {fd}] = t4 BY <1>12 DEF t4, Put, a
    <2>3. [t4 EXCEPT !.watched[fd] = q] = t5 BY DEF t5
    <2>4. [t5 EXCEPT !.query[q].dns = "running"] = t6 BY <1>14 DEF t6, Put, b
    <2>5. SocketOpened(s, q, fd) = t6 BY <2>1, <2>2, <2>3, <2>4
    <2>6. b = ListingQuery(r, fd) BY <1>7, <1>17 DEF b, a, ListingQuery
    <2> QED BY <2>5, <2>6, <1>15, <1>17, <1>18, <1>20 DEF w
  <1> QED BY <1>19, <1>20

-----------------------------------------------------------------------------
(* What a lookup that ends, and a channel that is destroyed, leave.        *)

\* A query whose lookup has just been answered.
AnsweredQuery(r) ==
    [r EXCEPT !.lookup = "done", !.answers = 1,
              !.dns = IF @ = "running" THEN "off" ELSE @]

\* EndLookup: one more answer, no socket and no timer_dns.
LEMMA EndLookupEffect ==
    ASSUME NEW s \in States, NEW q \in Queries, ~Freed(s, q), s.query[q].answers = 0
    PROVE  LET t == EndLookup(s, q)
           IN  /\ t \in States /\ Others(s, t, q) /\ t.fault = s.fault
               /\ t.watched = WatchedWithout(s, q, s.query[q].open)
               /\ t.query[q] = ClosedQuery(AnsweredQuery(s.query[q]), s.query[q].open)
  <1> DEFINE r == s.query[q]
             n == [r EXCEPT !.lookup = "done"]
             a == Put(s, q, n)
             b == AddrinfoCb(a, q)
             m == [n EXCEPT !.dns = IF @ = "running" THEN "off" ELSE @, !.answers = 1]
             t == SocketsClosed(b, q, b.query[q].open)
  <1>1. r \in Query BY DEF States
  <1>2. n \in Query /\ n.answers = 0 /\ n.state = r.state BY <1>1 DEF Query
  <1>3. m.open = r.open /\ m.fds = r.fds /\ m.state = r.state BY <1>1 DEF Query
  <1>4. m = AnsweredQuery(r) BY <1>1 DEF AnsweredQuery, Query
  <1> HIDE DEF n
  <1>5. a \in States /\ a.query[q] = n /\ Others(s, a, q)
        /\ a.watched = s.watched /\ a.fault = s.fault
    BY <1>2, PutEffect
  <1>6. EndLookup(s, q) = t
    BY DEF EndLookup, Put, n
  <1> HIDE DEF a
  <1>7. ~Freed(a, q) BY <1>2, <1>5 DEF Freed
  <1>8. b \in States /\ b.query[q] = m /\ Others(a, b, q)
        /\ b.watched = s.watched /\ b.fault = s.fault
    BY <1>2, <1>5, <1>7, AddrinfoCbEffect
  <1> HIDE DEF b, m
  <1>9. ~Freed(b, q) BY <1>3, <1>8 DEF Freed
  <1>10. t \in States /\ Others(b, t, q) /\ t.fault = s.fault
         /\ t.watched = WatchedWithout(b, q, r.open)
         /\ t.query[q] = ClosedQuery(m, r.open)
    <2>1. r.open \in SUBSET Fds BY <1>1 DEF Query
    <2> QED BY <1>3, <1>8, <1>9, <2>1, SocketsClosedEffect
  <1> HIDE DEF t
  <1>11. WatchedWithout(b, q, r.open) = WatchedWithout(s, q, r.open)
    BY <1>3, <1>8 DEF WatchedWithout
  <1> QED BY <1>4, <1>5, <1>6, <1>8, <1>10, <1>11, OthersTwice

\* The query a channel leaves that is destroyed.
DestroyedQuery(r) ==
    [ClosedQuery(IF r.lookup = "running" THEN AnsweredQuery(r) ELSE r, r.open)
       EXCEPT !.chan = FALSE]

\* AresDestroy: a lookup that runs is answered before.
LEMMA AresDestroyEffect ==
    ASSUME NEW s \in States, NEW q \in Queries, ~Freed(s, q), Unanswered(s)
    PROVE  LET t == AresDestroy(s, q)
           IN  /\ t \in States /\ Others(s, t, q) /\ t.fault = s.fault
               /\ t.watched = WatchedWithout(s, q, s.query[q].open)
               /\ t.query[q] = DestroyedQuery(s.query[q])
  <1> DEFINE r == s.query[q]
             a == IF r.lookup = "running" THEN EndLookup(s, q)
                  ELSE SocketsClosed(s, q, r.open)
             n == ClosedQuery(IF r.lookup = "running" THEN AnsweredQuery(r) ELSE r, r.open)
             m == [n EXCEPT !.chan = FALSE]
             t == Put(a, q, m)
  <1>1. a \in States /\ Others(s, a, q) /\ a.fault = s.fault
        /\ a.watched = WatchedWithout(s, q, r.open) /\ a.query[q] = n
    <2>1. r.open \in SUBSET Fds BY DEF States, Query
    <2>2. CASE r.lookup = "running" BY <2>2, EndLookupEffect DEF Unanswered
    <2>3. CASE r.lookup # "running" BY <2>1, <2>3, SocketsClosedEffect
    <2> QED BY <2>2, <2>3
  <1>2. AresDestroy(s, q) = [a EXCEPT !.query[q].chan = FALSE]
    BY DEF AresDestroy
  <1> HIDE DEF a, n
  <1>3. n \in Query BY <1>1 DEF States
  <1>4. m \in Query BY <1>3 DEF Query
  <1>5. t = [a EXCEPT !.query[q].chan = FALSE] BY <1>1 DEF Put
  <1> HIDE DEF m
  <1>6. t \in States /\ t.query[q] = m /\ Others(a, t, q)
        /\ t.watched = a.watched /\ t.fault = a.fault
    BY <1>1, <1>4, PutEffect
  <1> HIDE DEF t
  <1>7. m = DestroyedQuery(r) BY DEF m, n, DestroyedQuery
  <1> QED BY <1>1, <1>2, <1>5, <1>6, <1>7, OthersTwice

\* c-ares asks the next server on a new socket, or gives up.
LEMMA NextServerCases ==
    ASSUME NEW s \in States, NEW q \in Queries, NEW t \in NextServer(s, q)
    PROVE  \/ s.query[q].servers = 0 /\ t = EndLookup(s, q)
           \/ /\ s.query[q].servers # 0
              /\ \E fd \in Fds : /\ \A r \in Queries : fd \notin s.query[r].open
                                 /\ t = SocketOpened(s, q, fd)
  <1>1. CASE s.query[q].servers = 0 BY <1>1 DEF NextServer
  <1>2. CASE s.query[q].servers # 0
    <2>1. PICK fd \in FreeFds(s) : t = SocketOpened(s, q, fd) BY <1>2 DEF NextServer
    <2>2. fd \in Fds /\ \A r \in Queries : fd \notin s.query[r].open BY DEF FreeFds
    <2> QED BY <1>2, <2>1, <2>2
  <1> QED BY <1>1, <1>2

-----------------------------------------------------------------------------
(* The operations of the caller.                                           *)

\* What dslite_close_dns_query leaves of a query.
FreedQuery(r) ==
    [(IF r.chan /\ r.destroy # "running"
        THEN DestroyedQuery([r EXCEPT !.fds = {}]) ELSE [r EXCEPT !.fds = {}])
       EXCEPT !.state = "freed"]

\* dslite_close_dns_query takes the sockets from the event loop before c-ares
\* closes them.
LEMMA CloseDnsQueryEffect ==
    ASSUME NEW s \in States, NEW q \in Queries, ~Freed(s, q), Unanswered(s)
    PROVE  LET t == CloseDnsQuery(s, q)
           IN  /\ t \in States /\ Others(s, t, q) /\ t.fault = s.fault
               /\ t.watched = Unwatched(s, s.query[q].fds)
               /\ t.query[q] = FreedQuery(s.query[q])
  <1> DEFINE r == s.query[q]
             w == Unwatched(s, r.fds)
             n == [r EXCEPT !.fds = {}]
             a == Put(s, q, n)
             b == [a EXCEPT !.watched = w]
             c == IF r.chan /\ r.destroy # "running" THEN AresDestroy(b, q) ELSE b
             m == IF r.chan /\ r.destroy # "running" THEN DestroyedQuery(n) ELSE n
             p == [m EXCEPT !.state = "freed"]
             t == Put(c, q, p)
  <1>1. r \in Query BY DEF States
  <1>2. n \in Query /\ n.fds = {} /\ n.open = r.open /\ n.state = r.state
        /\ n.lookup = r.lookup /\ n.answers = r.answers
    BY <1>1 DEF Query
  <1>3. w \in [Fds -> Queries \cup {None}] BY DEF Unwatched, States
  <1> HIDE DEF n, w
  <1>4. a \in States /\ a.query[q] = n /\ Others(s, a, q) /\ a.fault = s.fault
    BY <1>2, PutEffect
  <1>5. CloseDnsQuery(s, q) = [c EXCEPT !.query[q].state = "freed"]
    BY DEF CloseDnsQuery, Freed, Put, n, w
  <1> HIDE DEF a
  <1>6. b \in States /\ b.query[q] = n /\ Others(a, b, q) /\ b.fault = s.fault
        /\ b.watched = w /\ b.query = a.query
    BY <1>3, <1>4 DEF States, Others
  <1> HIDE DEF b
  <1>7. ~Freed(b, q) /\ Unanswered(b)
    BY <1>2, <1>4, <1>6 DEF Freed, Unanswered, Others
  <1>8. c \in States /\ c.query[q] = m /\ Others(b, c, q) /\ c.fault = s.fault
        /\ c.watched = w
    <2>1. CASE r.chan /\ r.destroy # "running"
      <3>1. AresDestroy(b, q) \in States /\ AresDestroy(b, q).query[q] = DestroyedQuery(n)
            /\ Others(b, AresDestroy(b, q), q) /\ AresDestroy(b, q).fault = s.fault
            /\ AresDestroy(b, q).watched = WatchedWithout(b, q, n.open)
        BY <1>6, <1>7, AresDestroyEffect
      <3>2. WatchedWithout(b, q, n.open) = w
        BY <1>2, <1>3, <1>6 DEF WatchedWithout
      <3> QED BY <2>1, <3>1, <3>2
    <2>2. CASE ~(r.chan /\ r.destroy # "running")
      BY <1>6, <2>2 DEF Others
    <2> QED BY <2>1, <2>2
  <1> HIDE DEF c, m
  <1>9. m \in Query BY <1>8 DEF States
  <1>10. p \in Query BY <1>9 DEF Query
  <1>11. t = [c EXCEPT !.query[q].state = "freed"] BY <1>8 DEF Put
  <1>12. p = FreedQuery(r) BY DEF FreedQuery, m, n
  <1> HIDE DEF p
  <1>13. t \in States /\ t.query[q] = p /\ Others(c, t, q)
         /\ t.watched = w /\ t.fault = s.fault
    BY <1>8, <1>10, PutEffect
  <1> HIDE DEF t
  <1>14. Others(s, t, q) BY <1>4, <1>6, <1>8, <1>13, OthersTwice
  <1> QED BY <1>5, <1>11, <1>12, <1>13, <1>14 DEF w

\* A query without timers.
TimerlessQuery(r) == [r EXCEPT !.dns = "none", !.destroy = "none"]

\* delete_ares_timers: both timers go.
LEMMA DeleteTimersEffect ==
    ASSUME NEW s \in States, NEW q \in Queries
    PROVE  LET t == DeleteTimers(s, q)
           IN  /\ t \in States /\ Others(s, t, q) /\ t.fault = s.fault
               /\ t.watched = s.watched
               /\ t.query[q] = TimerlessQuery(s.query[q])
  <1> DEFINE r == s.query[q]
             n == [r EXCEPT !.dns = "none"]
             m == [n EXCEPT !.destroy = "none"]
             a == Put(s, q, n)
             t == Put(a, q, m)
  <1>1. r \in Query BY DEF States
  <1>2. n \in Query BY <1>1 DEF Query, Timer
  <1>3. m = TimerlessQuery(r) BY DEF TimerlessQuery
  <1> HIDE DEF n
  <1>4. m \in Query BY <1>2 DEF Query, Timer
  <1> HIDE DEF m
  <1>5. a \in States /\ a.query[q] = n /\ Others(s, a, q)
        /\ a.watched = s.watched /\ a.fault = s.fault
    BY <1>2, PutEffect
  <1>6. t \in States /\ t.query[q] = m /\ Others(a, t, q)
        /\ t.watched = s.watched /\ t.fault = s.fault
    BY <1>4, <1>5, PutEffect
  <1>7. DeleteTimers(s, q) = t
    <2>1. DeleteTimers(s, q) = [a EXCEPT !.query[q].destroy = "none"]
      BY DEF DeleteTimers, Put, n
    <2> HIDE DEF a
    <2>2. [a EXCEPT !.query[q].destroy = "none"] = t BY <1>5 DEF Put, m
    <2> QED BY <2>1, <2>2
  <1> HIDE DEF t, a
  <1>8. Others(s, t, q) BY <1>5, <1>6, OthersTwice
  <1> QED BY <1>3, <1>6, <1>7, <1>8

\* The new query is a query, and its lookup runs.
LEMMA NewQueryTyped ==
    ASSUME NEW d \in Search
    PROVE  /\ NewQuery(d) \in Query
           /\ NewQuery(d).state = "live" /\ NewQuery(d).chan /\ NewQuery(d).destroy = "off"
           /\ NewQuery(d).lookup = "running" /\ NewQuery(d).answers = 0
           /\ NewQuery(d).fds = {} /\ NewQuery(d).open = {} /\ NewQuery(d).dns = "none"
           /\ NewQuery(d).servers # 0
  <1> DEFINE a == [Unused EXCEPT !.state = "live", !.chan = TRUE, !.destroy = "off"]
             b == [a EXCEPT !.lookup = "running", !.servers = Servers, !.search = d]
  <1>1. d \in BOOLEAN /\ Servers \in 0..Servers /\ Servers # 0 BY DnsAssumption
  <1>2. a \in Query BY UnusedTyped DEF Query, Timer
  <1>3. a.state = "live" /\ a.chan /\ a.destroy = "off" /\ a.fds = {} /\ a.open = {}
        /\ a.dns = "none" /\ a.answers = 0
    BY DEF Unused
  <1> HIDE DEF a
  <1>4. b \in Query BY <1>1, <1>2 DEF Query
  <1>5. b.state = a.state /\ b.chan = a.chan /\ b.destroy = a.destroy /\ b.fds = a.fds
        /\ b.open = a.open /\ b.dns = a.dns /\ b.answers = a.answers
        /\ b.lookup = "running" /\ b.servers = Servers
    BY <1>2 DEF Query
  <1>6. b = NewQuery(d) BY DEF NewQuery, a
  <1> HIDE DEF b
  <1> QED BY <1>1, <1>3, <1>4, <1>5, <1>6

\* Only the new query changes, and it is the current one.
LEMMA OpeningEffect ==
    ASSUME NEW s \in States, NEW q \in Queries, NEW d \in Search
    PROVE  LET t == Opening(s, q, d)
           IN  /\ t \in States /\ t.current = q /\ t.fault = s.fault
               /\ t.watched = s.watched /\ t.query[q] = NewQuery(d)
               /\ \A r \in Queries \ {q} : t.query[r] = s.query[r]
  <1> DEFINE n == NewQuery(d)
             a == [s EXCEPT !.current = q]
  <1>1. n \in Query BY NewQueryTyped
  <1>2. a \in States /\ a.current = q /\ a.fault = s.fault
        /\ a.watched = s.watched /\ a.query = s.query
    BY DEF States
  <1>3. Opening(s, q, d) = Put(a, q, n) BY DEF Opening, Put
  <1> HIDE DEF a, n
  <1>4. Put(a, q, n) \in States /\ Put(a, q, n).query[q] = n
        /\ Others(a, Put(a, q, n), q)
        /\ Put(a, q, n).watched = a.watched /\ Put(a, q, n).fault = a.fault
    BY <1>1, <1>2, PutEffect
  <1> QED BY <1>2, <1>3, <1>4 DEF Others, n

\* dslite_open_dns_query: no query, one that is answered at once, or one that
\* asks its first server.
LEMMA OpenDnsQueryCases ==
    ASSUME NEW s \in States, NEW t \in OpenDnsQuery(s)
    PROVE  \/ t = [s EXCEPT !.current = None]
           \/ \E q \in Queries, d \in Search :
                 /\ Reusable(s, q)
                 /\ t \in {EndLookup(Opening(s, q, d), q)} \cup NextServer(Opening(s, q, d), q)
  <1> DEFINE Asked(q, d) == {EndLookup(Opening(s, q, d), q)} \cup NextServer(Opening(s, q, d), q)
             none == [s EXCEPT !.current = None]
  <1>1. OpenDnsQuery(s) =
          {none} \cup UNION {Asked(q, d) : q \in {r \in Queries : Reusable(s, r)}, d \in Search}
    BY DEF OpenDnsQuery
  <1> HIDE DEF Asked, none
  <1>2. \/ t = none
        \/ \E q \in {r \in Queries : Reusable(s, r)}, d \in Search : t \in Asked(q, d)
    BY <1>1
  <1>3. CASE t = none BY <1>3 DEF none
  <1>4. CASE \E q \in {r \in Queries : Reusable(s, r)}, d \in Search : t \in Asked(q, d)
    BY <1>4 DEF Asked
  <1> QED BY <1>2, <1>3, <1>4

-----------------------------------------------------------------------------
(* The fields of the queries the operators leave.                          *)

\* Sockets that are closed leave the rest of a query as it is.
LEMMA ClosedFields ==
    ASSUME NEW r \in Query, NEW F \in SUBSET Fds
    PROVE  LET c == ClosedQuery(r, F)
           IN  /\ c.open = r.open \ F /\ c.fds = r.fds \ F
               /\ c.destroy = IF F # {} /\ r.fds \subseteq F /\ r.destroy # "none"
                                THEN "running" ELSE r.destroy
               /\ c.state = r.state /\ c.chan = r.chan /\ c.dns = r.dns
               /\ c.lookup = r.lookup /\ c.answers = r.answers
  BY DEF ClosedQuery, Query

\* A query that loses sockets is a query.
LEMMA ClosedTyped ==
    ASSUME NEW r \in Query, NEW F \in SUBSET Fds
    PROVE  ClosedQuery(r, F) \in Query
  <1> DEFINE d == IF F # {} /\ r.fds \subseteq F /\ r.destroy # "none"
                    THEN "running" ELSE r.destroy
             c == [r EXCEPT !.open = r.open \ F]
             f == [c EXCEPT !.fds = r.fds \ F]
  <1>1. r.destroy \in Timer /\ r.open \ F \in SUBSET Fds /\ r.fds \ F \in SUBSET Fds
    BY DEF Query
  <1>2. d \in Timer BY <1>1 DEF Timer
  <1>3. ClosedQuery(r, F) = [f EXCEPT !.destroy = d]
    BY DEF ClosedQuery, Query
  <1> HIDE DEF d
  <1>4. c \in Query BY <1>1 DEF Query
  <1> HIDE DEF c
  <1>5. f \in Query BY <1>1, <1>4 DEF Query
  <1> HIDE DEF f
  <1>6. [f EXCEPT !.destroy = d] \in Query BY <1>2, <1>5 DEF Query
  <1> QED BY <1>3, <1>6

\* An answered query has no timer_dns that runs.
LEMMA AnsweredFields ==
    ASSUME NEW r \in Query
    PROVE  LET c == AnsweredQuery(r)
           IN  /\ c \in Query /\ c.lookup = "done" /\ c.answers = 1
               /\ c.dns = IF r.dns = "running" THEN "off" ELSE r.dns
               /\ c.open = r.open /\ c.fds = r.fds /\ c.state = r.state
               /\ c.chan = r.chan /\ c.destroy = r.destroy
  <1> DEFINE d == IF r.dns = "running" THEN "off" ELSE r.dns
             e == [r EXCEPT !.lookup = "done"]
             a == [e EXCEPT !.answers = 1]
             b == [a EXCEPT !.dns = d]
  <1>1. r.dns \in Timer BY DEF Query
  <1>2. d \in Timer BY <1>1 DEF Timer
  <1>3. AnsweredQuery(r) = [r EXCEPT !.lookup = "done", !.answers = 1, !.dns = d]
    BY DEF AnsweredQuery
  <1> HIDE DEF d
  <1>4. a.open = r.open /\ a.fds = r.fds /\ a.state = r.state /\ a.chan = r.chan
        /\ a.destroy = r.destroy /\ a.lookup = "done" /\ a.answers = 1
    BY DEF Query
  <1>9. e \in Query BY DEF Query
  <1> HIDE DEF e
  <1>5. a \in Query BY <1>9 DEF Query
  <1>6. b = AnsweredQuery(r) BY <1>3 DEF e
  <1> HIDE DEF a
  <1>7. b \in Query BY <1>2, <1>5 DEF Query
  <1>8. b.open = a.open /\ b.fds = a.fds /\ b.state = a.state /\ b.chan = a.chan
        /\ b.destroy = a.destroy /\ b.lookup = a.lookup /\ b.answers = a.answers
        /\ b.dns = d
    BY <1>5 DEF Query
  <1> HIDE DEF b
  <1> QED BY <1>4, <1>6, <1>7, <1>8 DEF d

\* What is left of a query whose lookup ends.
LEMMA EndedFields ==
    ASSUME NEW r \in Query
    PROVE  LET c == ClosedQuery(AnsweredQuery(r), r.open)
           IN  /\ c.lookup = "done" /\ c.answers = 1 /\ c.dns # "running"
               /\ c.open = {} /\ c.fds = r.fds \ r.open
               /\ c.state = r.state /\ c.chan = r.chan
               /\ c.destroy = IF r.open # {} /\ r.fds \subseteq r.open /\ r.destroy # "none"
                                THEN "running" ELSE r.destroy
  <1> DEFINE a == AnsweredQuery(r)
             F == r.open
             c == ClosedQuery(a, F)
  <1>1. F \in SUBSET Fds BY DEF Query
  <1>2. /\ a \in Query /\ a.lookup = "done" /\ a.answers = 1 /\ a.dns # "running"
        /\ a.open = F /\ a.fds = r.fds /\ a.state = r.state
        /\ a.chan = r.chan /\ a.destroy = r.destroy
    BY AnsweredFields
  <1> HIDE DEF a, F
  <1>3. /\ c.open = a.open \ F /\ c.fds = a.fds \ F
        /\ c.destroy = IF F # {} /\ a.fds \subseteq F /\ a.destroy # "none"
                         THEN "running" ELSE a.destroy
        /\ c.state = a.state /\ c.chan = a.chan /\ c.dns = a.dns
        /\ c.lookup = a.lookup /\ c.answers = a.answers
    BY <1>1, <1>2, ClosedFields
  <1> HIDE DEF c
  <1> QED BY <1>2, <1>3 DEF c, a, F

\* A query whose channel is destroyed has no socket, and is answered if its
\* lookup was running.
LEMMA DestroyedFields ==
    ASSUME NEW r \in Query
    PROVE  LET c == DestroyedQuery(r)
           IN  /\ ~c.chan /\ c.open = {} /\ c.fds = r.fds \ r.open /\ c.state = r.state
               /\ c.lookup # "running"
               /\ r.lookup = "running" => c.answers = 1 /\ c.dns # "running"
               /\ r.lookup # "running" => c.answers = r.answers /\ c.dns = r.dns
               /\ c.destroy = IF r.open # {} /\ r.fds \subseteq r.open /\ r.destroy # "none"
                                THEN "running" ELSE r.destroy
  <1> DEFINE a == ClosedQuery(AnsweredQuery(r), r.open)
             b == ClosedQuery(r, r.open)
             m == IF r.lookup = "running" THEN a ELSE b
             c == [m EXCEPT !.chan = FALSE]
  <1>1. /\ a.lookup = "done" /\ a.answers = 1 /\ a.dns # "running"
        /\ a.open = {} /\ a.fds = r.fds \ r.open /\ a.state = r.state
        /\ a.destroy = IF r.open # {} /\ r.fds \subseteq r.open /\ r.destroy # "none"
                         THEN "running" ELSE r.destroy
    BY EndedFields
  <1>2. /\ b.lookup = r.lookup /\ b.answers = r.answers /\ b.dns = r.dns
        /\ b.open = {} /\ b.fds = r.fds \ r.open /\ b.state = r.state
        /\ b.destroy = IF r.open # {} /\ r.fds \subseteq r.open /\ r.destroy # "none"
                         THEN "running" ELSE r.destroy
    <2> DEFINE F == r.open
    <2>1. F \in SUBSET Fds /\ r.open = F BY DEF Query
    <2> HIDE DEF F
    <2>2. b = ClosedQuery(r, F) BY DEF F
    <2> HIDE DEF b
    <2> QED BY <2>1, <2>2, ClosedFields
  <1>3. a \in Query /\ b \in Query
    <2>1. /\ AnsweredQuery(r) \in Query /\ r.open \in SUBSET Fds
      BY AnsweredFields DEF Query
    <2> QED BY <2>1, ClosedTyped
  <1>4. DestroyedQuery(r) = c
    BY DEF DestroyedQuery
  <1> HIDE DEF a, b
  <1>5. m \in Query BY <1>3
  <1> HIDE DEF m
  <1>6. /\ ~c.chan /\ c.open = m.open /\ c.fds = m.fds /\ c.state = m.state
        /\ c.lookup = m.lookup /\ c.answers = m.answers /\ c.dns = m.dns
        /\ c.destroy = m.destroy
    BY <1>5 DEF Query
  <1> HIDE DEF c
  <1>7. CASE r.lookup = "running"
    <2>1. m = a BY <1>7 DEF m
    <2> QED BY <1>1, <1>4, <1>6, <1>7, <2>1
  <1>8. CASE r.lookup # "running"
    <2>1. m = b BY <1>8 DEF m
    <2> QED BY <1>2, <1>4, <1>6, <1>8, <2>1
  <1> QED BY <1>7, <1>8

\* A query that is freed: its channel goes with it, unless the timer that
\* destroys it runs.
LEMMA FreedFields ==
    ASSUME NEW r \in Query
    PROVE  LET c == FreedQuery(r)
           IN  /\ c.state = "freed" /\ c.fds = {}
               /\ r.chan /\ r.destroy # "running" =>
                    /\ ~c.chan /\ c.open = {} /\ c.lookup # "running"
                    /\ r.lookup = "running" => c.answers = 1 /\ c.dns # "running"
                    /\ r.lookup # "running" => c.answers = r.answers /\ c.dns = r.dns
                    /\ c.destroy = IF r.open # {} /\ r.destroy # "none"
                                     THEN "running" ELSE r.destroy
               /\ ~(r.chan /\ r.destroy # "running") =>
                    /\ c.chan = r.chan /\ c.open = r.open /\ c.lookup = r.lookup
                    /\ c.answers = r.answers /\ c.dns = r.dns /\ c.destroy = r.destroy
  <1> DEFINE n == [r EXCEPT !.fds = {}]
             k == DestroyedQuery(n)
             m == IF r.chan /\ r.destroy # "running" THEN k ELSE n
             c == [m EXCEPT !.state = "freed"]
  <1>1. n \in Query BY DEF Query
  <1>2. /\ n.chan = r.chan /\ n.open = r.open /\ n.lookup = r.lookup
        /\ n.answers = r.answers /\ n.dns = r.dns /\ n.destroy = r.destroy /\ n.fds = {}
    BY DEF Query
  <1>3. FreedQuery(r) = c BY DEF FreedQuery
  <1> HIDE DEF n
  <1>4. /\ ~k.chan /\ k.open = {} /\ k.fds = n.fds \ n.open
        /\ k.lookup # "running"
        /\ n.lookup = "running" => k.answers = 1 /\ k.dns # "running"
        /\ n.lookup # "running" => k.answers = n.answers /\ k.dns = n.dns
        /\ k.destroy = IF n.open # {} /\ n.fds \subseteq n.open /\ n.destroy # "none"
                         THEN "running" ELSE n.destroy
    BY <1>1, DestroyedFields
  <1> HIDE DEF k
  <1>5. "chan" # "state" /\ "open" # "state" /\ "fds" # "state" /\ "lookup" # "state"
        /\ "answers" # "state" /\ "dns" # "state" /\ "destroy" # "state"
    OBVIOUS
  <1>6. "state" \in DOMAIN m
    BY <1>1 DEF k, DestroyedQuery, ClosedQuery, AnsweredQuery, Query
  <1> HIDE DEF m
  <1>7. /\ c.state = "freed" /\ c.chan = m.chan /\ c.open = m.open /\ c.fds = m.fds
        /\ c.lookup = m.lookup /\ c.answers = m.answers /\ c.dns = m.dns
        /\ c.destroy = m.destroy
    BY <1>6
  <1> HIDE DEF c
  <1>8. CASE r.chan /\ r.destroy # "running"
    <2>1. m = k BY <1>8 DEF m
    <2>2. k.fds = {} BY <1>2, <1>4
    <2> QED BY <1>2, <1>3, <1>4, <1>7, <1>8, <2>1, <2>2
  <1>9. CASE ~(r.chan /\ r.destroy # "running")
    <2>1. m = n BY <1>9 DEF m
    <2> QED BY <1>2, <1>3, <1>7, <1>9, <2>1
  <1> QED BY <1>8, <1>9

-----------------------------------------------------------------------------
(* Types, whatever the caller does.                                        *)

Sound(s) == s \in States /\ Unanswered(s)

\* Only the query that changed is to be looked at.
LEMMA SoundChange ==
    ASSUME NEW s, Sound(s), NEW t \in States, NEW q \in Queries,
           \A r \in Queries \ {q} : t.query[r] = s.query[r],
           t.query[q].lookup = "running" => t.query[q].answers = 0
    PROVE  Sound(t)
  BY DEF Sound, Unanswered

\* A lookup that ends.
LEMMA EndLookupSound ==
    ASSUME NEW s, Sound(s), NEW q \in Queries, ~Freed(s, q), s.query[q].answers = 0
    PROVE  Sound(EndLookup(s, q))
  <1> DEFINE t == EndLookup(s, q)
  <1>1. s \in States /\ s.query[q] \in Query BY DEF Sound, States
  <1>2. /\ t \in States /\ Others(s, t, q)
        /\ t.query[q] = ClosedQuery(AnsweredQuery(s.query[q]), s.query[q].open)
    BY <1>1, EndLookupEffect
  <1> HIDE DEF t
  <1>3. t.query[q].lookup = "done" BY <1>1, <1>2, EndedFields
  <1> QED BY <1>2, <1>3, SoundChange DEF t, Others

\* A channel that is destroyed.
LEMMA AresDestroySound ==
    ASSUME NEW s, Sound(s), NEW q \in Queries, ~Freed(s, q)
    PROVE  Sound(AresDestroy(s, q))
  <1> DEFINE t == AresDestroy(s, q)
  <1>1. s \in States /\ Unanswered(s) /\ s.query[q] \in Query BY DEF Sound, States
  <1>2. t \in States /\ Others(s, t, q) /\ t.query[q] = DestroyedQuery(s.query[q])
    BY <1>1, AresDestroyEffect
  <1> HIDE DEF t
  <1>3. t.query[q].lookup # "running" BY <1>1, <1>2, DestroyedFields
  <1> QED BY <1>2, <1>3, SoundChange DEF t, Others

\* The next server, or none.
LEMMA NextServerSound ==
    ASSUME NEW s, Sound(s), NEW q \in Queries, ~Freed(s, q), s.query[q].lookup = "running",
           NEW t \in NextServer(s, q)
    PROVE  Sound(t)
  <1> DEFINE r == s.query[q]
  <1>1. s \in States /\ Unanswered(s) /\ r \in Query /\ r.answers = 0
    BY DEF Sound, States, Unanswered
  <1>2. CASE r.servers = 0 /\ t = EndLookup(s, q)
    BY <1>1, <1>2, EndLookupSound
  <1>3. ASSUME NEW fd \in Fds, r.servers # 0, t = SocketOpened(s, q, fd)
        PROVE  Sound(t)
    <2> DEFINE n == AskingQuery(r, fd)
               m == ListingQuery(r, fd)
    <2>1. n.answers = r.answers /\ m.answers = r.answers
      BY <1>1 DEF Query, AskingQuery, ListingQuery
    <2>2. /\ t \in States /\ Others(s, t, q)
          /\ fd \in r.fds => t.query[q] = n
          /\ fd \notin r.fds => t.query[q] = m
      BY <1>1, <1>3, SocketOpenedEffect
    <2>3. t.query[q].answers = 0 BY <1>1, <2>1, <2>2
    <2> QED BY <2>2, <2>3, SoundChange DEF Others
  <1> QED BY <1>1, <1>2, <1>3, NextServerCases

\* A query that is closed.
LEMMA CloseDnsQuerySound ==
    ASSUME NEW s, Sound(s), NEW q \in Queries
    PROVE  Sound(CloseDnsQuery(s, q))
  <1> DEFINE t == CloseDnsQuery(s, q)
  <1>1. s \in States /\ Unanswered(s) /\ s.query[q] \in Query BY DEF Sound, States
  <1>2. CASE Freed(s, q)
    <2>1. t = Faulted(s) BY <1>2 DEF CloseDnsQuery
    <2> QED BY <1>1, <2>1, FaultedTyped DEF Sound, Unanswered
  <1>3. CASE ~Freed(s, q)
    <2>1. t \in States /\ Others(s, t, q) /\ t.query[q] = FreedQuery(s.query[q])
      BY <1>1, <1>3, CloseDnsQueryEffect
    <2> HIDE DEF t
    <2>2. t.query[q].lookup = "running" => t.query[q].answers = 0
      <3>1. t.query[q].lookup = "running" =>
              /\ t.query[q].answers = s.query[q].answers
              /\ t.query[q].lookup = s.query[q].lookup
        BY <1>1, <2>1, FreedFields
      <3> QED BY <1>1, <3>1 DEF Unanswered
    <2> QED BY <2>1, <2>2, SoundChange DEF t, Others
  <1> QED BY <1>2, <1>3

\* A query that is opened.
LEMMA OpenDnsQuerySound ==
    ASSUME NEW s, Sound(s), NEW t \in OpenDnsQuery(s)
    PROVE  Sound(t)
  <1>1. s \in States BY DEF Sound
  <1>2. CASE t = [s EXCEPT !.current = None]
    BY <1>1, <1>2 DEF Sound, States, Unanswered
  <1>3. ASSUME NEW q \in Queries, NEW d \in Search,
               t \in {EndLookup(Opening(s, q, d), q)} \cup NextServer(Opening(s, q, d), q)
        PROVE  Sound(t)
    <2> DEFINE a == Opening(s, q, d)
    <2>1. /\ a \in States /\ a.query[q] = NewQuery(d)
          /\ \A r \in Queries \ {q} : a.query[r] = s.query[r]
      BY <1>1, OpeningEffect
    <2> HIDE DEF a
    <2>2. ~Freed(a, q) /\ a.query[q].lookup = "running" /\ a.query[q].answers = 0
      BY <2>1, NewQueryTyped DEF Freed
    <2>3. Sound(a) BY <2>1, <2>2, SoundChange
    <2>4. t = EndLookup(a, q) \/ t \in NextServer(a, q) BY <1>3 DEF a
    <2> QED BY <2>2, <2>3, <2>4, EndLookupSound, NextServerSound
  <1> QED BY <1>1, <1>2, <1>3, OpenDnsQueryCases

\* The state of the program is one the operators are applied to.
TypeInv == TypeOK /\ Unanswered(State)

\* A step that becomes a sound state, or a faulted one, keeps the types.
LEMMA BecomeTyped ==
    ASSUME TypeInv, NEW t, Sound(t), Become(t)
    PROVE  TypeInv'
  BY DEF TypeInv, TypeOK, Become, Sound, States, State, Unanswered

\* Every step keeps the types.
LEMMA TypeInvStep == TypeInv /\ [Next]_vars => TypeInv'
  <1> SUFFICES ASSUME TypeInv, [Next]_vars PROVE TypeInv'
    OBVIOUS
  <1>1. Sound(State) /\ State \in States
        /\ State.current = current /\ State.query = query /\ State.watched = watched
    BY DEF TypeInv, TypeOK, State, States, Sound
  <1>2. CASE ResolveEndpointName
    <2> DEFINE s == IF current = None THEN State ELSE CloseDnsQuery(State, current)
    <2>1. current \in Queries \cup {None} BY DEF TypeInv, TypeOK
    <2>2. Sound(s) BY <1>1, <2>1, CloseDnsQuerySound
    <2>3. Become(s) \/ \E t \in OpenDnsQuery(s) : Become(t)
      BY <1>2 DEF ResolveEndpointName
    <2> HIDE DEF s
    <2> QED BY <2>2, <2>3, OpenDnsQuerySound, BecomeTyped
  <1>3. CASE Clear
    <2> DEFINE a == DeleteTimers(State, current)
               b == CloseDnsQuery(a, current)
               t == [b EXCEPT !.current = None]
    <2>1. current \in Queries BY <1>3 DEF Clear, TypeInv, TypeOK
    <2>2. /\ a \in States /\ Others(State, a, current)
          /\ a.query[current] = TimerlessQuery(query[current])
      BY <1>1, <2>1, DeleteTimersEffect
    <2>3. query[current] \in Query
          /\ (query[current].lookup = "running" => query[current].answers = 0)
      BY <1>1, <2>1 DEF Sound, Unanswered, TypeInv, TypeOK
    <2>4. a.query[current].lookup = "running" => a.query[current].answers = 0
      BY <2>2, <2>3 DEF TimerlessQuery, Query
    <2> HIDE DEF a
    <2>5. Sound(a) BY <1>1, <2>1, <2>2, <2>4, SoundChange DEF Others
    <2>6. Sound(b) BY <2>1, <2>5, CloseDnsQuerySound
    <2> HIDE DEF b
    <2>7. Sound(t) BY <2>6 DEF Sound, States, Unanswered
    <2>8. Become(t) BY <1>3 DEF Clear, a, b
    <2> HIDE DEF t
    <2> QED BY <2>7, <2>8, BecomeTyped
  <1>4. ASSUME NEW fd \in Fds, EventloopCb(fd)
        PROVE  TypeInv'
    <2> DEFINE q == watched[fd]
               r == query[q]
    <2>1. q \in Queries BY <1>4 DEF EventloopCb, TypeInv, TypeOK
    <2>2. CASE r.state = "freed"
      <3>1. Become(Faulted(State)) BY <1>4, <2>2 DEF EventloopCb
      <3> QED BY <1>1, <3>1, FaultedTyped, BecomeTyped DEF Sound, Unanswered
    <2>3. CASE r.state # "freed"
      <3> DEFINE closed == SocketsClosed(State, q, {fd})
                 late == [State EXCEPT !.query[q].late = TRUE]
      <3>1. ~Freed(State, q) /\ State.query[q] = r BY <1>1, <2>3 DEF Freed
      <3>2. r \in Query /\ (r.lookup = "running" => r.answers = 0)
        BY <1>1, <2>1 DEF Sound, Unanswered, TypeInv, TypeOK
      <3>3. r.lookup = "running" BY <1>4, <2>3 DEF EventloopCb
      <3>4. PICK t \in {EndLookup(State, q)} \cup NextServer(closed, q) \cup {late} : Become(t)
        BY <1>4, <2>3 DEF EventloopCb
      <3>5. CASE t = EndLookup(State, q)
        BY <1>1, <2>1, <3>1, <3>2, <3>3, <3>4, <3>5, EndLookupSound, BecomeTyped
      <3>6. CASE t \in NextServer(closed, q)
        <4>1. /\ closed \in States /\ Others(State, closed, q)
              /\ closed.query[q] = ClosedQuery(r, {fd})
          BY <1>1, <2>1, <3>1, SocketsClosedEffect
        <4> HIDE DEF closed
        <4>2. /\ closed.query[q].lookup = r.lookup /\ closed.query[q].answers = r.answers
              /\ closed.query[q].state = r.state
          BY <3>2, <4>1, ClosedFields
        <4>3. Sound(closed) /\ ~Freed(closed, q)
          BY <1>1, <2>1, <2>3, <3>2, <4>1, <4>2, SoundChange DEF Others, Freed
        <4> QED BY <2>1, <3>3, <3>4, <3>6, <4>2, <4>3, NextServerSound, BecomeTyped
      <3>7. CASE t = late
        <4> DEFINE n == [r EXCEPT !.late = TRUE]
        <4>1. n \in Query /\ (n.lookup = "running" => n.answers = 0) BY <3>2 DEF Query
        <4>2. late = Put(State, q, n) BY <3>1 DEF Put
        <4> HIDE DEF n, late
        <4>3. late \in States /\ late.query[q] = n /\ Others(State, late, q)
          BY <1>1, <2>1, <4>1, <4>2, PutEffect
        <4>4. Sound(late) BY <1>1, <2>1, <4>1, <4>3, SoundChange DEF Others
        <4> QED BY <3>4, <3>7, <4>4, BecomeTyped
      <3> QED BY <3>4, <3>5, <3>6, <3>7
    <2> QED BY <2>2, <2>3
  <1>5. ASSUME NEW q \in Queries, TimeoutCb(q)
        PROVE  TypeInv'
    <2> DEFINE r == query[q]
               n == [r EXCEPT !.dns = "off"]
               s == [State EXCEPT !.query[q].dns = "off"]
    <2>1. r \in Query /\ (r.lookup = "running" => r.answers = 0)
      BY <1>1 DEF Sound, Unanswered, TypeInv, TypeOK
    <2>2. n \in Query /\ n.lookup = r.lookup /\ n.answers = r.answers
      BY <2>1 DEF Query, Timer
    <2>3. s = Put(State, q, n) BY <1>1 DEF Put
    <2>4. \E t \in IF Freed(s, q) THEN {Faulted(s)}
                   ELSE IF query[q].chan /\ query[q].lookup = "running" /\ ~query[q].late
                     THEN NextServer(s, q)
                   ELSE {s} : Become(t)
      BY <1>5 DEF TimeoutCb
    <2> HIDE DEF s, n
    <2>5. s \in States /\ s.query[q] = n /\ Others(State, s, q)
      BY <1>1, <2>2, <2>3, PutEffect
    <2>6. Sound(s) BY <1>1, <2>1, <2>2, <2>5, SoundChange DEF Others
    <2>7. CASE Freed(s, q)
      <3>1. Become(Faulted(s)) BY <2>4, <2>7
      <3> QED BY <2>6, <3>1, FaultedTyped, BecomeTyped DEF Sound, Unanswered
    <2>8. CASE ~Freed(s, q) /\ r.lookup = "running" /\ \E t \in NextServer(s, q) : Become(t)
      BY <2>2, <2>5, <2>6, <2>8, NextServerSound, BecomeTyped
    <2>9. CASE Become(s) BY <2>6, <2>9, BecomeTyped
    <2> QED BY <2>4, <2>7, <2>8, <2>9
  <1>6. ASSUME NEW q \in Queries, DestroyChannelCb(q)
        PROVE  TypeInv'
    <2> DEFINE r == query[q]
               n == [r EXCEPT !.destroy = "off"]
               s == [State EXCEPT !.query[q].destroy = "off"]
               a == AresDestroy(s, q)
               b == [a EXCEPT !.query[q].destroy = "none"]
    <2>1. r \in Query /\ (r.lookup = "running" => r.answers = 0)
      BY <1>1 DEF Sound, Unanswered, TypeInv, TypeOK
    <2>2. n \in Query /\ n.lookup = r.lookup /\ n.answers = r.answers
      BY <2>1 DEF Query, Timer
    <2>3. s = Put(State, q, n) BY <1>1 DEF Put
    <2>4. Become(IF Freed(s, q) THEN Faulted(s) ELSE IF ~query[q].chan THEN s ELSE b)
      BY <1>6 DEF DestroyChannelCb
    <2> HIDE DEF s, n
    <2>5. s \in States /\ s.query[q] = n /\ Others(State, s, q)
      BY <1>1, <2>2, <2>3, PutEffect
    <2>6. Sound(s) BY <1>1, <2>1, <2>2, <2>5, SoundChange DEF Others
    <2>7. CASE Freed(s, q)
      <3>1. Become(Faulted(s)) BY <2>4, <2>7
      <3> QED BY <2>6, <3>1, FaultedTyped, BecomeTyped DEF Sound, Unanswered
    <2>8. CASE ~Freed(s, q) /\ Become(b)
      <3>1. Sound(a) BY <2>6, <2>8, AresDestroySound
      <3> DEFINE m == [a.query[q] EXCEPT !.destroy = "none"]
      <3>2. a \in States /\ a.query[q] \in Query
            /\ (a.query[q].lookup = "running" => a.query[q].answers = 0)
        BY <3>1 DEF Sound, Unanswered, States
      <3>3. b = Put(a, q, m) BY DEF Put
      <3> HIDE DEF a
      <3>4. m \in Query /\ (m.lookup = "running" => m.answers = 0)
        BY <3>2 DEF Query, Timer
      <3> HIDE DEF b, m
      <3>5. b \in States /\ b.query[q] = m /\ Others(a, b, q)
        BY <3>2, <3>3, <3>4, PutEffect
      <3>6. Sound(b) BY <3>1, <3>4, <3>5, SoundChange DEF Others
      <3> QED BY <2>8, <3>6, BecomeTyped
    <2>9. CASE Become(s) BY <2>6, <2>9, BecomeTyped
    <2> QED BY <2>4, <2>7, <2>8, <2>9
  <1>7. CASE UNCHANGED vars
    BY <1>7 DEF vars, TypeInv, TypeOK, Unanswered, State
  <1> QED BY <1>2, <1>3, <1>4, <1>5, <1>6, <1>7 DEF Next

\* The program starts without queries.
LEMMA InitTypeInv == Init => TypeInv
  <1>1. Unused.lookup = "none" BY DEF Unused
  <1> QED BY <1>1, UnusedTyped DEF Init, TypeInv, TypeOK, Unanswered, State

\* Every variable has its type, also where the caller replaces a query whose
\* lookup runs: no query is answered twice, and no more servers are asked than
\* there are.
THEOREM TypeCorrect == Spec => []TypeOK
  <1>1. Spec => []TypeInv BY InitTypeInv, TypeInvStep, PTL DEF Spec
  <1>2. TypeInv => TypeOK BY DEF TypeInv
  <1> QED BY <1>1, <1>2, PTL

-----------------------------------------------------------------------------
(* A caller that lets a query come to rest before it takes another.        *)

\* A query that is not live has nothing that calls back; a live one lists what
\* its channel has open, and was answered unless its lookup runs.
QueryOK(r) ==
    /\ r.state # "live" => /\ ~r.chan /\ r.fds = {} /\ r.lookup # "running"
                           /\ r.destroy # "running"
    /\ r.state = "live" => /\ r.fds = r.open
                           /\ r.chan => r.destroy # "none"
                           /\ r.lookup # "running" => r.answers = 1
    /\ r.lookup = "running" => r.chan /\ r.answers = 0
    /\ r.lookup # "running" => r.open = {} /\ r.dns # "running"

\* The event loop watches, for each query, what its channel has open.
WatchedOK(s, q) == \A fd \in Fds : s.watched[fd] = q <=> fd \in s.query[q].open

Clean(s) == /\ s \in States /\ ~s.fault
            /\ \A q \in Queries : QueryOK(s.query[q]) /\ WatchedOK(s, q)

\* The one query that is live is the current one.
Owned(s) == \A q \in Queries : s.query[q].state = "live" <=> q = s.current

Inv == TypeOK /\ Clean(State) /\ Owned(State)

\* Only the query that changed is to be looked at, when the event loop keeps
\* watching the others.
LEMMA CleanChange ==
    ASSUME NEW s, Clean(s), NEW t \in States, ~t.fault, NEW q \in Queries,
           \A r \in Queries \ {q} : t.query[r] = s.query[r],
           QueryOK(t.query[q]), WatchedOK(t, q),
           \A fd \in Fds, r \in Queries \ {q} : t.watched[fd] = r <=> s.watched[fd] = r
    PROVE  Clean(t)
  BY DEF Clean, WatchedOK

\* A clean state is a sound one.
LEMMA CleanSound ==
    ASSUME NEW s, Clean(s)
    PROVE  /\ Sound(s) /\ s \in States /\ Unanswered(s) /\ ~s.fault
           /\ \A q \in Queries : s.query[q] \in Query
  BY DEF Clean, Sound, Unanswered, QueryOK, States

\* The lookup of a live query ends.
LEMMA EndLookupClean ==
    ASSUME NEW s, Clean(s), NEW q \in Queries, s.query[q].lookup = "running"
    PROVE  LET t == EndLookup(s, q)
           IN  /\ Clean(t) /\ Others(s, t, q)
               /\ t.query[q].state = s.query[q].state /\ t.query[q].chan
               /\ t.query[q].lookup = "done" /\ t.query[q].answers = 1
  <1> DEFINE r == s.query[q]
             t == EndLookup(s, q)
  <1>1. /\ s \in States /\ ~s.fault /\ r \in Query /\ QueryOK(r) /\ WatchedOK(s, q)
    BY CleanSound DEF Clean
  <1>2. r.state = "live" /\ r.chan /\ r.answers = 0 /\ r.fds = r.open /\ r.destroy # "none"
    BY <1>1 DEF QueryOK, Query
  <1>3. ~Freed(s, q) BY <1>2 DEF Freed
  <1>4. /\ t \in States /\ Others(s, t, q) /\ t.fault = s.fault
        /\ t.watched = WatchedWithout(s, q, r.open)
        /\ t.query[q] = ClosedQuery(AnsweredQuery(r), r.open)
    BY <1>1, <1>2, <1>3, EndLookupEffect
  <1> HIDE DEF t
  <1>5. /\ t.query[q].lookup = "done" /\ t.query[q].answers = 1 /\ t.query[q].dns # "running"
        /\ t.query[q].open = {} /\ t.query[q].fds = r.fds \ r.open
        /\ t.query[q].state = r.state /\ t.query[q].chan = r.chan
        /\ t.query[q].destroy = IF r.open # {} /\ r.fds \subseteq r.open /\ r.destroy # "none"
                                  THEN "running" ELSE r.destroy
    BY <1>1, <1>4, EndedFields
  <1>6. QueryOK(t.query[q]) BY <1>2, <1>5 DEF QueryOK
  <1>7. \A fd \in Fds : t.watched[fd] = IF fd \in r.open THEN None ELSE s.watched[fd]
    BY <1>2, <1>4 DEF WatchedWithout
  <1>8. WatchedOK(t, q)
    BY <1>1, <1>5, <1>7, DnsAssumption DEF WatchedOK
  <1>9. \A fd \in Fds, o \in Queries \ {q} : t.watched[fd] = o <=> s.watched[fd] = o
    BY <1>1, <1>7, DnsAssumption DEF WatchedOK
  <1>10. Clean(t)
    BY <1>1, <1>4, <1>6, <1>8, <1>9, CleanChange DEF Others
  <1> QED BY <1>2, <1>4, <1>5, <1>10 DEF t

\* A lookup goes on, or ends.
LEMMA NextServerClean ==
    ASSUME NEW s, Clean(s), NEW q \in Queries, s.query[q].lookup = "running",
           NEW t \in NextServer(s, q)
    PROVE  /\ Clean(t) /\ Others(s, t, q)
           /\ t.query[q].state = s.query[q].state /\ t.query[q].chan
           /\ \/ t.query[q].lookup = "running" /\ t.query[q].answers = 0
              \/ t.query[q].lookup = "done" /\ t.query[q].answers = 1
  <1> DEFINE r == s.query[q]
  <1>1. /\ s \in States /\ ~s.fault /\ r \in Query /\ QueryOK(r) /\ WatchedOK(s, q)
    BY CleanSound DEF Clean
  <1>2. r.state = "live" /\ r.chan /\ r.answers = 0 /\ r.fds = r.open /\ r.destroy # "none"
    BY <1>1 DEF QueryOK, Query
  <1>3. ~Freed(s, q) BY <1>2 DEF Freed
  <1>4. CASE t = EndLookup(s, q) BY <1>4, EndLookupClean
  <1>5. ASSUME NEW fd \in Fds, \A o \in Queries : fd \notin s.query[o].open,
               r.servers # 0, t = SocketOpened(s, q, fd)
        PROVE  /\ Clean(t) /\ Others(s, t, q)
               /\ t.query[q].state = r.state /\ t.query[q].chan
               /\ t.query[q].lookup = "running" /\ t.query[q].answers = 0
    <2>1. fd \notin r.fds BY <1>2, <1>5
    <2>2. /\ t \in States /\ Others(s, t, q) /\ t.fault = s.fault
          /\ t.watched = [s.watched EXCEPT ![fd] = q]
          /\ t.query[q] = ListingQuery(r, fd)
      BY <1>1, <1>3, <1>5, <2>1, SocketOpenedEffect
    <2> DEFINE n == ListingQuery(r, fd)
    <2>3. /\ n.open = r.open \cup {fd} /\ n.fds = r.fds \cup {fd}
          /\ n.state = r.state /\ n.chan = r.chan /\ n.destroy = r.destroy
          /\ n.lookup = r.lookup /\ n.answers = r.answers
      BY <1>1 DEF Query, ListingQuery, AskingQuery
    <2> HIDE DEF n
    <2>4. t.query[q] = n BY <2>2 DEF n
    <2>5. QueryOK(n) BY <1>1, <1>2, <2>3 DEF QueryOK
    <2>6. s.watched \in [Fds -> Queries \cup {None}] BY <1>1 DEF States
    <2>7. \A f \in Fds : t.watched[f] = IF f = fd THEN q ELSE s.watched[f]
      BY <2>2, <2>6
    <2>8. WatchedOK(t, q) BY <1>1, <2>3, <2>4, <2>7 DEF WatchedOK
    <2>9. \A o \in Queries : s.watched[fd] # o
      BY <1>5 DEF Clean, WatchedOK
    <2>10. \A f \in Fds, o \in Queries \ {q} : t.watched[f] = o <=> s.watched[f] = o
      BY <2>7, <2>9
    <2>11. t \in States /\ ~t.fault /\ QueryOK(t.query[q])
           /\ \A o \in Queries \ {q} : t.query[o] = s.query[o]
      BY <1>1, <2>2, <2>4, <2>5 DEF Others
    <2>12. Clean(t) BY <2>8, <2>10, <2>11, CleanChange
    <2> QED BY <1>2, <2>2, <2>3, <2>4, <2>12
  <1> QED BY <1>1, <1>2, <1>4, <1>5, NextServerCases

\* c-ares closes the socket of a server that refuses.
LEMMA SocketClosedClean ==
    ASSUME NEW s, Clean(s), NEW q \in Queries, s.query[q].lookup = "running", NEW fd \in Fds
    PROVE  LET t == SocketsClosed(s, q, {fd})
           IN  /\ Clean(t) /\ Others(s, t, q)
               /\ t.query[q].state = s.query[q].state /\ t.query[q].lookup = "running"
  <1> DEFINE r == s.query[q]
             F == {fd}
             t == SocketsClosed(s, q, F)
  <1>12. F \in SUBSET Fds OBVIOUS
  <1> HIDE DEF F
  <1>1. /\ s \in States /\ ~s.fault /\ r \in Query /\ QueryOK(r) /\ WatchedOK(s, q)
    BY CleanSound DEF Clean
  <1>2. r.state = "live" /\ r.chan /\ r.answers = 0 /\ r.fds = r.open /\ r.destroy # "none"
    BY <1>1 DEF QueryOK, Query
  <1>3. ~Freed(s, q) BY <1>2 DEF Freed
  <1>4. /\ t \in States /\ Others(s, t, q) /\ t.fault = s.fault
        /\ t.watched = WatchedWithout(s, q, F) /\ t.query[q] = ClosedQuery(r, F)
    BY <1>12, <1>1, <1>3, SocketsClosedEffect
  <1> HIDE DEF t
  <1> DEFINE c == ClosedQuery(r, F)
  <1>5. /\ c.open = r.open \ F /\ c.fds = r.fds \ F /\ c.destroy # "none"
        /\ c.state = r.state /\ c.chan = r.chan /\ c.dns = r.dns
        /\ c.lookup = r.lookup /\ c.answers = r.answers
    <2>1. r \in Query /\ F \in SUBSET Fds BY <1>1, <1>12
    <2>2. r.destroy # "none" BY <1>2
    <2> HIDE DEF r
    <2>3. /\ c.open = r.open \ F /\ c.fds = r.fds \ F
          /\ c.destroy = IF F # {} /\ r.fds \subseteq F /\ r.destroy # "none"
                           THEN "running" ELSE r.destroy
          /\ c.state = r.state /\ c.chan = r.chan /\ c.dns = r.dns
          /\ c.lookup = r.lookup /\ c.answers = r.answers
      BY <2>1, ClosedFields
    <2> QED BY <2>2, <2>3
  <1>13. t.query[q] = c BY <1>4
  <1> HIDE DEF c
  <1>6. QueryOK(t.query[q]) BY <1>1, <1>2, <1>5, <1>13 DEF QueryOK
  <1>7. \A f \in Fds : t.watched[f] = IF f \in r.open \cap F THEN None ELSE s.watched[f]
    BY <1>2, <1>4 DEF WatchedWithout
  <1>8. WatchedOK(t, q) BY <1>1, <1>5, <1>7, <1>13, DnsAssumption DEF WatchedOK
  <1>9. \A f \in Fds, o \in Queries \ {q} : t.watched[f] = o <=> s.watched[f] = o
    BY <1>1, <1>7, DnsAssumption DEF WatchedOK
  <1>10. t \in States /\ ~t.fault /\ \A o \in Queries \ {q} : t.query[o] = s.query[o]
    BY <1>1, <1>4 DEF Others
  <1>11. Clean(t) BY <1>6, <1>8, <1>9, <1>10, CleanChange
  <1> QED BY <1>1, <1>4, <1>5, <1>11, <1>13 DEF t, F

\* A live query is closed that is at rest, or whose timers were deleted: it
\* takes everything that would call back with it, and it was answered.
LEMMA CloseDnsQueryClean ==
    ASSUME NEW s \in States, ~s.fault, NEW q \in Queries,
           LET r == s.query[q]
           IN  /\ r.state = "live" /\ r.fds = r.open
               /\ r.lookup = "running" => r.chan /\ r.answers = 0
               /\ r.lookup # "running" => r.open = {} /\ r.answers = 1 /\ r.dns # "running"
               /\ r.destroy = "none" \/ (r.lookup # "running" /\ r.destroy # "running"),
           \A o \in Queries : WatchedOK(s, o),
           \A o \in Queries \ {q} : QueryOK(s.query[o])
    PROVE  LET t == CloseDnsQuery(s, q)
           IN  /\ Clean(t) /\ Others(s, t, q)
               /\ t.query[q].state = "freed" /\ t.query[q].answers = 1
  <1> DEFINE r == s.query[q]
             t == CloseDnsQuery(s, q)
             c == t.query[q]
  <1>1. r \in Query /\ ~Freed(s, q) BY DEF States, Freed
  <1>2. Unanswered(s) BY DEF Unanswered, QueryOK
  <1>3. /\ t \in States /\ Others(s, t, q) /\ t.fault = s.fault
        /\ t.watched = Unwatched(s, r.fds) /\ t.query[q] = FreedQuery(r)
    BY <1>1, <1>2, CloseDnsQueryEffect
  <1> HIDE DEF t
  <1>4. /\ c.state = "freed" /\ c.fds = {}
        /\ r.chan /\ r.destroy # "running" =>
             /\ ~c.chan /\ c.open = {} /\ c.lookup # "running"
             /\ r.lookup = "running" => c.answers = 1 /\ c.dns # "running"
             /\ r.lookup # "running" => c.answers = r.answers /\ c.dns = r.dns
             /\ c.destroy = IF r.open # {} /\ r.destroy # "none"
                              THEN "running" ELSE r.destroy
        /\ ~(r.chan /\ r.destroy # "running") =>
             /\ c.chan = r.chan /\ c.open = r.open /\ c.lookup = r.lookup
             /\ c.answers = r.answers /\ c.dns = r.dns /\ c.destroy = r.destroy
    BY <1>1, <1>3, FreedFields
  <1>5. /\ ~c.chan /\ c.open = {} /\ c.lookup # "running" /\ c.dns # "running"
        /\ c.destroy # "running" /\ c.answers = 1
    <2>1. CASE r.chan BY <1>4, <2>1
    <2>2. CASE ~r.chan BY <1>4, <2>2
    <2> QED BY <2>1, <2>2
  <1>6. QueryOK(c) BY <1>4, <1>5 DEF QueryOK
  <1>7. \A f \in Fds : t.watched[f] = IF f \in r.open THEN None ELSE s.watched[f]
    BY <1>3 DEF Unwatched
  <1>8. WatchedOK(t, q) BY <1>5, <1>7, DnsAssumption DEF WatchedOK
  <1>9. \A o \in Queries \ {q} : QueryOK(t.query[o]) /\ WatchedOK(t, o)
    <2> TAKE o \in Queries \ {q}
    <2>1. t.query[o] = s.query[o] BY <1>3 DEF Others
    <2>2. WatchedOK(s, q) /\ WatchedOK(s, o) OBVIOUS
    <2>3. \A f \in Fds : t.watched[f] = o <=> s.watched[f] = o
      BY <1>7, <2>2, DnsAssumption DEF WatchedOK
    <2> QED BY <2>1, <2>2, <2>3 DEF WatchedOK
  <1>10. Clean(t) BY <1>3, <1>6, <1>8, <1>9 DEF Clean
  <1> QED BY <1>3, <1>4, <1>5, <1>10 DEF t

\* A query is opened where none is live, in a block that nothing refers to.
LEMMA OpenDnsQueryClean ==
    ASSUME NEW s, Clean(s), \A q \in Queries : s.query[q].state # "live",
           NEW t \in OpenDnsQuery(s)
    PROVE  /\ Clean(t) /\ Owned(t)
           /\ \/ t.query = s.query
              \/ \E q \in Queries :
                    /\ s.query[q].state # "live" /\ t.query[q].state = "live"
                    /\ t.query[q].chan
                    /\ \A r \in Queries \ {q} : t.query[r] = s.query[r]
                    /\ \/ t.query[q].lookup = "running" /\ t.query[q].answers = 0
                       \/ t.query[q].lookup = "done" /\ t.query[q].answers = 1
  <1>1. s \in States /\ ~s.fault BY CleanSound
  <1>2. CASE t = [s EXCEPT !.current = None]
    <2>1. t \in States /\ t.current = None /\ t.query = s.query /\ t.watched = s.watched
          /\ t.fault = s.fault
      BY <1>1, <1>2 DEF States
    <2> QED BY <2>1, DnsAssumption DEF Clean, Owned, WatchedOK
  <1>3. ASSUME NEW q \in Queries, NEW d \in Search, Reusable(s, q),
               t \in {EndLookup(Opening(s, q, d), q)} \cup NextServer(Opening(s, q, d), q)
        PROVE  /\ Clean(t) /\ Owned(t) /\ t.query[q].state = "live" /\ t.query[q].chan
               /\ \A r \in Queries \ {q} : t.query[r] = s.query[r]
               /\ \/ t.query[q].lookup = "running" /\ t.query[q].answers = 0
                  \/ t.query[q].lookup = "done" /\ t.query[q].answers = 1
    <2> DEFINE a == Opening(s, q, d)
    <2>1. /\ a \in States /\ a.query[q] = NewQuery(d) /\ a.current = q
          /\ a.watched = s.watched /\ a.fault = s.fault
          /\ \A r \in Queries \ {q} : a.query[r] = s.query[r]
      BY <1>1, OpeningEffect
    <2>2. t = EndLookup(a, q) \/ t \in NextServer(a, q) BY <1>3
    <2> HIDE DEF a
    <2>3. a.query[q].lookup = "running" /\ a.query[q].state = "live"
          /\ QueryOK(a.query[q]) /\ a.query[q].open = {}
      BY <2>1, NewQueryTyped DEF QueryOK
    <2>4. s.query[q].open = {} /\ WatchedOK(s, q) BY <1>3 DEF Reusable, Clean
    <2>5. WatchedOK(a, q) BY <2>1, <2>3, <2>4 DEF WatchedOK
    <2>6. Clean(a) BY <1>1, <2>1, <2>3, <2>5, CleanChange
    <2>7. Clean(t) /\ Others(a, t, q) /\ t.query[q].state = "live" /\ t.query[q].chan
          /\ \/ t.query[q].lookup = "running" /\ t.query[q].answers = 0
             \/ t.query[q].lookup = "done" /\ t.query[q].answers = 1
      BY <2>2, <2>3, <2>6, EndLookupClean, NextServerClean
    <2>8. t.current = q /\ \A r \in Queries \ {q} : t.query[r] = s.query[r]
      BY <2>1, <2>7 DEF Others
    <2>9. Owned(t) BY <2>7, <2>8 DEF Owned
    <2> QED BY <2>7, <2>8, <2>9
  <1> QED BY <1>1, <1>2, <1>3, OpenDnsQueryCases

\* The last socket was closed and the timer fires: the channel goes.
LEMMA DestroyChannelClean ==
    ASSUME NEW s, Clean(s), NEW q \in Queries, s.query[q].state = "live"
    PROVE  LET t == [AresDestroy(s, q) EXCEPT !.query[q].destroy = "none"]
           IN  /\ Clean(t) /\ Others(s, t, q)
               /\ t.query[q].state = "live" /\ ~t.query[q].chan
               /\ t.query[q].lookup # "running" /\ t.query[q].answers = 1
  <1> DEFINE r == s.query[q]
             a == AresDestroy(s, q)
             n == DestroyedQuery(r)
             m == [n EXCEPT !.destroy = "none"]
             t == Put(a, q, m)
  <1>1. /\ s \in States /\ ~s.fault /\ r \in Query /\ QueryOK(r) /\ WatchedOK(s, q)
        /\ Unanswered(s)
    BY CleanSound DEF Clean
  <1>2. r.state = "live" /\ r.fds = r.open /\ (r.lookup # "running" => r.answers = 1)
    BY <1>1 DEF QueryOK
  <1>3. ~Freed(s, q) BY <1>2 DEF Freed
  <1>4. /\ a \in States /\ Others(s, a, q) /\ a.fault = s.fault
        /\ a.watched = WatchedWithout(s, q, r.open) /\ a.query[q] = n
    BY <1>1, <1>3, AresDestroyEffect
  <1>5. /\ ~n.chan /\ n.open = {} /\ n.fds = r.fds \ r.open /\ n.state = r.state
        /\ n.lookup # "running"
        /\ r.lookup = "running" => n.answers = 1 /\ n.dns # "running"
        /\ r.lookup # "running" => n.answers = r.answers /\ n.dns = r.dns
        /\ n.destroy = IF r.open # {} /\ r.fds \subseteq r.open /\ r.destroy # "none"
                         THEN "running" ELSE r.destroy
    <2> HIDE DEF r
    <2> QED BY <1>1, DestroyedFields
  <1> HIDE DEF a, n
  <1>6. n \in Query BY <1>4 DEF States
  <1>7. m \in Query BY <1>6 DEF Query, Timer
  <1>8. /\ m.chan = n.chan /\ m.open = n.open /\ m.fds = n.fds /\ m.state = n.state
        /\ m.lookup = n.lookup /\ m.answers = n.answers /\ m.dns = n.dns
        /\ m.destroy = "none"
    BY <1>6 DEF Query
  <1>9. t = [AresDestroy(s, q) EXCEPT !.query[q].destroy = "none"] BY <1>4 DEF Put, a
  <1> HIDE DEF m
  <1>10. /\ t \in States /\ t.query[q] = m /\ Others(a, t, q)
         /\ t.watched = a.watched /\ t.fault = a.fault
    BY <1>4, <1>7, PutEffect
  <1> HIDE DEF t
  <1>11. Others(s, t, q) BY <1>4, <1>10, OthersTwice
  <1>12. ~m.chan /\ m.open = {} /\ m.fds = {} /\ m.state = "live" /\ m.lookup # "running"
         /\ m.answers = 1 /\ m.dns # "running"
    <2>1. CASE r.lookup = "running" BY <1>2, <1>5, <1>8, <2>1
    <2>2. CASE r.lookup # "running" BY <1>1, <1>2, <1>5, <1>8, <2>2 DEF QueryOK
    <2> QED BY <2>1, <2>2
  <1>13. QueryOK(m) BY <1>12 DEF QueryOK
  <1>14. \A f \in Fds : t.watched[f] = IF f \in r.open THEN None ELSE s.watched[f]
    BY <1>2, <1>4, <1>10 DEF WatchedWithout
  <1>15. WatchedOK(t, q) BY <1>1, <1>10, <1>12, <1>14, DnsAssumption DEF WatchedOK
  <1>16. \A f \in Fds, o \in Queries \ {q} : t.watched[f] = o <=> s.watched[f] = o
    BY <1>1, <1>14, DnsAssumption DEF WatchedOK
  <1>17. ~t.fault /\ \A o \in Queries \ {q} : t.query[o] = s.query[o]
    BY <1>1, <1>4, <1>10, <1>11 DEF Others
  <1>18. QueryOK(t.query[q]) BY <1>10, <1>13
  <1>19. Clean(t) BY <1>10, <1>18, <1>15, <1>16, <1>17, CleanChange
  <1> QED BY <1>9, <1>10, <1>11, <1>12, <1>19

-----------------------------------------------------------------------------
(* The steps, and the steps of DnsLookup they are.                         *)

\* The phases told apart.
LEMMA PhaseValue ==
    ASSUME NEW r \in Query
    PROVE  /\ r.state # "live" => PhaseOf(r) = "none"
           /\ r.state = "live" /\ r.lookup = "running" => PhaseOf(r) = "pending"
           /\ r.state = "live" /\ r.lookup # "running" /\ r.chan => PhaseOf(r) = "idle"
           /\ r.state = "live" /\ r.lookup # "running" /\ ~r.chan => PhaseOf(r) = "dead"
           /\ PhaseOf(r) = "none" <=> r.state # "live"
  <1>1. CASE r.state # "live" BY <1>1 DEF PhaseOf, Query
  <1>2. CASE r.state = "live" /\ r.lookup = "running" BY <1>2 DEF PhaseOf, Query
  <1>3. CASE r.state = "live" /\ r.lookup # "running" /\ r.chan BY <1>3 DEF PhaseOf, Query
  <1>4. CASE r.state = "live" /\ r.lookup # "running" /\ ~r.chan BY <1>4 DEF PhaseOf, Query
  <1> QED BY <1>1, <1>2, <1>3, <1>4

\* The other queries keep their phase and their answers.
Only(s, t, Q) == \A o \in Queries \ Q : /\ PhaseOf(t.query[o]) = PhaseOf(s.query[o])
                                       /\ t.query[o].answers = s.query[o].answers

\* How a query may move.
Move(s, t) ==
    \/ Only(s, t, {})
    \/ \E q \in Queries :
         LET now  == PhaseOf(s.query[q])
             next == PhaseOf(t.query[q])
         IN  /\ Only(s, t, {q})
             /\ \/ now = "none" /\ next = "pending" /\ t.query[q].answers = 0
                \/ now = "none" /\ next = "idle" /\ t.query[q].answers = 1
                \/ now = "pending" /\ next \in {"idle", "dead"} /\ t.query[q].answers = 1
                \/ now = "idle" /\ next = "dead" /\ t.query[q].answers = s.query[q].answers
                \/ now # "none" /\ next = "none" /\ t.query[q].answers = 1
    \/ \E q, o \in Queries :
         LET next == PhaseOf(t.query[o])
         IN  /\ Only(s, t, {q, o})
             /\ PhaseOf(s.query[q]) # "none" /\ (PhaseOf(s.query[o]) = "none" \/ o = q)
             /\ o # q => PhaseOf(t.query[q]) = "none" /\ t.query[q].answers = 1
             /\ \/ next = "pending" /\ t.query[o].answers = 0
                \/ next = "idle" /\ t.query[o].answers = 1

\* A step that moves from an invariant state to another.
Serves(t) == Clean(t) /\ Owned(t) /\ Become(t) /\ Move(State, t)

\* A query changes in its fields, not in its phase.
LEMMA SamePhase ==
    ASSUME NEW s, NEW t, NEW q \in Queries, Others(s, t, q),
           PhaseOf(t.query[q]) = PhaseOf(s.query[q]),
           t.query[q].answers = s.query[q].answers
    PROVE  Move(s, t)
  BY DEF Move, Only, Others

\* The current query stays current.
LEMMA OwnedOthers ==
    ASSUME NEW s, Owned(s), NEW t, NEW q \in Queries, Others(s, t, q),
           t.query[q].state = s.query[q].state
    PROVE  Owned(t)
  BY DEF Owned, Others

\* Fields of a query of which neither the invariant nor the phase says anything.
LEMMA FieldClean ==
    ASSUME NEW s, Clean(s), Owned(s), NEW q \in Queries, NEW n \in Query, QueryOK(n),
           n.open = s.query[q].open, n.state = s.query[q].state,
           n.lookup = s.query[q].lookup, n.chan = s.query[q].chan,
           n.answers = s.query[q].answers
    PROVE  LET t == Put(s, q, n)
           IN  /\ Clean(t) /\ Owned(t) /\ Others(s, t, q) /\ t.query[q] = n /\ Move(s, t)
  <1> DEFINE t == Put(s, q, n)
  <1>1. s \in States /\ ~s.fault BY CleanSound
  <1>2. /\ t \in States /\ t.query[q] = n /\ Others(s, t, q)
        /\ t.watched = s.watched /\ t.fault = s.fault
    BY <1>1, PutEffect
  <1> HIDE DEF t
  <1>3. WatchedOK(t, q) BY <1>2 DEF Clean, WatchedOK
  <1>4. \A o \in Queries \ {q} : t.query[o] = s.query[o] BY <1>2 DEF Others
  <1>5. Clean(t) BY <1>1, <1>2, <1>3, <1>4, CleanChange
  <1>6. PhaseOf(n) = PhaseOf(s.query[q]) BY DEF PhaseOf
  <1>7. Owned(t) BY <1>2, OwnedOthers
  <1>8. Move(s, t) BY <1>2, <1>6, SamePhase
  <1> QED BY <1>2, <1>5, <1>7, <1>8 DEF t

\* A lookup is answered, or goes on.
LEMMA AnswerServes ==
    ASSUME NEW s, Clean(s), Owned(s), NEW q \in Queries, s.query[q].lookup = "running",
           NEW t, Clean(t), Others(s, t, q), t.query[q].state = s.query[q].state,
           \/ t.query[q].lookup = "running" /\ t.query[q].answers = 0
           \/ t.query[q].lookup # "running" /\ t.query[q].answers = 1
    PROVE  Owned(t) /\ Move(s, t)
  <1> DEFINE now == PhaseOf(s.query[q])
             next == PhaseOf(t.query[q])
  <1>1. s.query[q].state = "live" /\ s.query[q].answers = 0
        /\ s.query[q] \in Query /\ t.query[q] \in Query
    BY DEF Clean, QueryOK, States
  <1>2. now = "pending" BY <1>1, PhaseValue
  <1>3. CASE t.query[q].lookup = "running" /\ t.query[q].answers = 0
    <2>1. next = now BY <1>1, <1>2, <1>3, PhaseValue
    <2> QED BY <1>1, <1>3, <2>1, SamePhase, OwnedOthers
  <1>4. CASE t.query[q].lookup # "running" /\ t.query[q].answers = 1
    <2>1. next \in {"idle", "dead"} BY <1>1, <1>4, PhaseValue
    <2>2. Only(s, t, {q}) BY DEF Only, Others
    <2> QED BY <1>2, <1>4, <2>1, <2>2, OwnedOthers DEF Move
  <1> QED BY <1>3, <1>4

\* What the invariant says of the state of the program.
LEMMA InvState ==
    ASSUME Inv
    PROVE  /\ Clean(State) /\ Owned(State) /\ State \in States /\ ~fault
           /\ State.current = current /\ State.query = query /\ State.watched = watched
           /\ current \in Queries \cup {None}
           /\ \A q \in Queries : /\ query[q] \in Query /\ QueryOK(query[q])
                                 /\ query[q].state = "live" <=> q = current
  BY DEF Inv, Clean, Owned, State, States, TypeOK

\* The query that is current is closed.
LEMMA CurrentClosed ==
    ASSUME Inv, current # None, AtRest(current)
    PROVE  LET s == CloseDnsQuery(State, current)
           IN  /\ Clean(s) /\ Others(State, s, current)
               /\ s.query[current].state = "freed" /\ s.query[current].answers = 1
               /\ \A q \in Queries : s.query[q].state # "live"
  <1> DEFINE s == CloseDnsQuery(State, current)
             r == query[current]
  <1>1. /\ Clean(State) /\ Owned(State) /\ State \in States /\ ~State.fault
        /\ State.query = query /\ current \in Queries
        /\ \A q \in Queries : QueryOK(query[q]) /\ (query[q].state = "live" <=> q = current)
    BY InvState DEF State
  <1>2. r.state = "live" /\ r.lookup # "running" /\ r.destroy # "running"
    BY <1>1 DEF AtRest
  <1>3. r.fds = r.open /\ r.open = {} /\ r.answers = 1 /\ r.dns # "running"
    BY <1>1, <1>2 DEF QueryOK
  <1>4. \A o \in Queries : WatchedOK(State, o) BY <1>1 DEF Clean
  <1>5. /\ Clean(s) /\ Others(State, s, current)
        /\ s.query[current].state = "freed" /\ s.query[current].answers = 1
    BY <1>1, <1>2, <1>3, <1>4, CloseDnsQueryClean
  <1> HIDE DEF s
  <1>6. \A q \in Queries : s.query[q].state # "live"
    BY <1>1, <1>5 DEF Others
  <1> QED BY <1>5, <1>6 DEF s

\* resolve_endpoint_name: a query may take the place of the one that was closed.
LEMMA ResolveServes ==
    ASSUME ~Replacing, Inv, ResolveEndpointName
    PROVE  \E t : Serves(t)
  <1> DEFINE s == IF current = None THEN State ELSE CloseDnsQuery(State, current)
  <1>1. /\ Clean(State) /\ Owned(State) /\ State.query = query
        /\ \A q \in Queries : /\ query[q] \in Query
                              /\ query[q].state = "live" <=> q = current
    BY InvState
  <1>2. /\ Clean(s) /\ \A q \in Queries : s.query[q].state # "live"
        /\ current = None => s.query = query
        /\ current # None => /\ current \in Queries /\ Others(State, s, current)
                             /\ s.query[current].answers = 1
    <2>1. CASE current = None BY <1>1, <2>1, DnsAssumption
    <2>2. CASE current # None
      <3>1. AtRest(current) BY <2>2 DEF ResolveEndpointName
      <3>2. current \in Queries BY <2>2, InvState
      <3> QED BY <2>2, <3>1, <3>2, CurrentClosed
    <2> QED BY <2>1, <2>2
  <1>3. ~s.fault BY <1>2, CleanSound
  <1>4. PICK t \in OpenDnsQuery(s) : Become(t)
    BY <1>3 DEF ResolveEndpointName
  <1> HIDE DEF s
  <1>5. /\ Clean(t) /\ Owned(t)
        /\ \/ t.query = s.query
           \/ \E q \in Queries :
                 /\ s.query[q].state # "live" /\ t.query[q].state = "live"
                 /\ t.query[q].chan
                 /\ \A r \in Queries \ {q} : t.query[r] = s.query[r]
                 /\ \/ t.query[q].lookup = "running" /\ t.query[q].answers = 0
                    \/ t.query[q].lookup = "done" /\ t.query[q].answers = 1
    BY <1>2, OpenDnsQueryClean
  <1>6. \A q \in Queries : s.query[q] \in Query /\ t.query[q] \in Query
    BY <1>2, <1>5, CleanSound
  <1>7. \A q \in Queries : PhaseOf(s.query[q]) = "none" BY <1>2, <1>6, PhaseValue
  <1>8. current # None => PhaseOf(query[current]) # "none"
    BY <1>1, <1>2, PhaseValue
  <1>9. ASSUME t.query = s.query PROVE Move(State, t)
    <2>1. CASE current = None BY <1>1, <1>2, <1>9, <2>1 DEF Move, Only
    <2>2. CASE current # None
      <3>1. Only(State, t, {current}) BY <1>1, <1>2, <1>9, <2>2 DEF Only, Others
      <3>2. PhaseOf(t.query[current]) = "none" /\ t.query[current].answers = 1
        BY <1>2, <1>7, <1>9, <2>2
      <3> QED BY <1>1, <1>2, <1>8, <2>2, <3>1, <3>2 DEF Move
    <2> QED BY <2>1, <2>2
  <1>10. ASSUME NEW q \in Queries, t.query[q].state = "live", t.query[q].chan,
                \A r \in Queries \ {q} : t.query[r] = s.query[r],
                \/ t.query[q].lookup = "running" /\ t.query[q].answers = 0
                \/ t.query[q].lookup = "done" /\ t.query[q].answers = 1
         PROVE  Move(State, t)
    <2>1. \/ PhaseOf(t.query[q]) = "pending" /\ t.query[q].answers = 0
          \/ PhaseOf(t.query[q]) = "idle" /\ t.query[q].answers = 1
      BY <1>6, <1>10, PhaseValue
    <2>2. CASE current = None
      <3>1. Only(State, t, {q}) BY <1>1, <1>2, <1>10, <2>2 DEF Only
      <3>2. PhaseOf(State.query[q]) = "none" BY <1>1, <1>2, <1>7, <2>2
      <3> QED BY <2>1, <3>1, <3>2 DEF Move
    <2>3. CASE current # None
      <3>1. Only(State, t, {current, q}) BY <1>1, <1>2, <1>10, <2>3 DEF Only, Others
      <3>2. PhaseOf(State.query[q]) = "none" \/ q = current
        BY <1>1, <2>3, PhaseValue
      <3>3. q # current => PhaseOf(t.query[current]) = "none" /\ t.query[current].answers = 1
        BY <1>2, <1>7, <1>10, <2>3
      <3>4. PhaseOf(State.query[current]) # "none" /\ current \in Queries
        BY <1>1, <1>2, <1>8, <2>3
      <3> QED BY <2>1, <3>1, <3>2, <3>3, <3>4 DEF Move
    <2> QED BY <2>2, <2>3
  <1> QED BY <1>4, <1>5, <1>9, <1>10 DEF Serves

\* clear_remote_endpoint_properties: the current query is closed, whatever its
\* lookup does, when its timers are gone.
LEMMA ClearServes ==
    ASSUME Inv, Clear
    PROVE  \E t : Serves(t)
  <1> DEFINE r == query[current]
             a == DeleteTimers(State, current)
             n == TimerlessQuery(r)
             b == CloseDnsQuery(a, current)
             t == [b EXCEPT !.current = None]
  <1>1. /\ Clean(State) /\ Owned(State) /\ State \in States /\ State.query = query
        /\ State.fault = FALSE /\ current \in Queries
        /\ \A q \in Queries : /\ query[q] \in Query /\ QueryOK(query[q])
                              /\ query[q].state = "live" <=> q = current
    BY InvState DEF Clear, State
  <1>2. /\ a \in States /\ Others(State, a, current) /\ a.fault = FALSE
        /\ a.watched = State.watched /\ a.query[current] = n
    BY <1>1, DeleteTimersEffect
  <1>3. /\ n.state = "live" /\ n.fds = n.open /\ n.open = r.open
        /\ n.lookup = "running" => n.chan /\ n.answers = 0
        /\ n.lookup # "running" => n.open = {} /\ n.answers = 1 /\ n.dns # "running"
        /\ n.destroy = "none"
    <2>1. /\ n.state = r.state /\ n.fds = r.fds /\ n.open = r.open /\ n.lookup = r.lookup
          /\ n.chan = r.chan /\ n.answers = r.answers /\ n.dns = "none" /\ n.destroy = "none"
      BY <1>1 DEF TimerlessQuery, Query
    <2> QED BY <1>1, <2>1 DEF QueryOK
  <1> HIDE DEF n, a
  <1>4. \A o \in Queries : WatchedOK(a, o)
    <2> TAKE o \in Queries
    <2>1. a.query[o].open = query[o].open BY <1>1, <1>2, <1>3 DEF Others
    <2> QED BY <1>1, <1>2, <2>1 DEF Clean, WatchedOK
  <1>5. \A o \in Queries \ {current} : QueryOK(a.query[o])
    BY <1>1, <1>2 DEF Others
  <1>6. /\ Clean(b) /\ Others(a, b, current)
        /\ b.query[current].state = "freed" /\ b.query[current].answers = 1
    BY <1>1, <1>2, <1>3, <1>4, <1>5, CloseDnsQueryClean
  <1>7. Become(t) BY DEF Clear, a
  <1> HIDE DEF b
  <1>8. /\ t \in States /\ t.query = b.query /\ t.watched = b.watched /\ t.fault = b.fault
        /\ t.current = None
    BY <1>6, CleanSound DEF States
  <1>9. Clean(t) BY <1>6, <1>8 DEF Clean, WatchedOK
  <1>10. \A o \in Queries \ {current} : t.query[o] = query[o]
    BY <1>1, <1>2, <1>6, <1>8 DEF Others
  <1>11. Owned(t) BY <1>1, <1>6, <1>8, <1>10, DnsAssumption DEF Owned
  <1>12. Only(State, t, {current}) BY <1>1, <1>10 DEF Only
  <1>13. t.query[current] \in Query BY <1>1, <1>8 DEF States
  <1>14. PhaseOf(State.query[current]) # "none" /\ PhaseOf(t.query[current]) = "none"
    BY <1>1, <1>6, <1>8, <1>13, PhaseValue
  <1>15. Move(State, t) BY <1>1, <1>6, <1>8, <1>12, <1>14 DEF Move
  <1> QED BY <1>7, <1>9, <1>11, <1>15 DEF Serves

\* A query whose answer is late is otherwise as it was.
LEMMA LateFields ==
    ASSUME NEW r \in Query
    PROVE  LET n == [r EXCEPT !.late = TRUE]
           IN  /\ n \in Query /\ n.open = r.open /\ n.state = r.state
               /\ n.lookup = r.lookup /\ n.chan = r.chan /\ n.answers = r.answers
               /\ n.fds = r.fds /\ n.dns = r.dns /\ n.destroy = r.destroy
  BY DEF Query

\* dslite_ares_eventloop_cb: the query of the socket is live, and its lookup runs.
LEMMA EventloopServes ==
    ASSUME Inv, NEW fd \in Fds, EventloopCb(fd)
    PROVE  \E t : Serves(t)
  <1> DEFINE q == watched[fd]
             r == query[q]
             closed == SocketsClosed(State, q, {fd})
             late == [State EXCEPT !.query[q].late = TRUE]
  <1>1. /\ Clean(State) /\ Owned(State) /\ State \in States /\ State.query = query
        /\ State.watched = watched /\ watched \in [Fds -> Queries \cup {None}]
        /\ \A o \in Queries : query[o] \in Query /\ QueryOK(query[o])
    BY InvState DEF Inv, TypeOK
  <1>2. q \in Queries BY <1>1 DEF EventloopCb
  <1>3. fd \in r.open BY <1>1, <1>2 DEF Clean, WatchedOK
  <1>4. r.lookup = "running" /\ r.state = "live" /\ r.answers = 0
    BY <1>1, <1>2, <1>3 DEF QueryOK
  <1>5. PICK t \in {EndLookup(State, q)} \cup NextServer(closed, q) \cup {late} : Become(t)
    BY <1>4 DEF EventloopCb
  <1> HIDE DEF q
  <1>6. CASE t = EndLookup(State, q)
    <2>1. /\ Clean(t) /\ Others(State, t, q) /\ t.query[q].state = r.state
          /\ t.query[q].lookup = "done" /\ t.query[q].answers = 1
      BY <1>1, <1>2, <1>4, <1>6, EndLookupClean
    <2>2. Owned(t) /\ Move(State, t) BY <1>1, <1>2, <1>4, <2>1, AnswerServes
    <2> QED BY <1>5, <2>1, <2>2 DEF Serves
  <1>7. CASE t \in NextServer(closed, q)
    <2>1. /\ Clean(closed) /\ Others(State, closed, q)
          /\ closed.query[q].state = r.state /\ closed.query[q].lookup = "running"
      BY <1>1, <1>2, <1>4, SocketClosedClean
    <2> HIDE DEF closed
    <2>2. /\ Clean(t) /\ Others(closed, t, q) /\ t.query[q].state = closed.query[q].state
          /\ \/ t.query[q].lookup = "running" /\ t.query[q].answers = 0
             \/ t.query[q].lookup = "done" /\ t.query[q].answers = 1
      BY <1>2, <1>7, <2>1, NextServerClean
    <2>3. Others(State, t, q) BY <1>2, <2>1, <2>2, OthersTwice
    <2>4. Owned(t) /\ Move(State, t) BY <1>1, <1>2, <1>4, <2>1, <2>2, <2>3, AnswerServes
    <2> QED BY <1>5, <2>2, <2>4 DEF Serves
  <1>8. CASE t = late
    <2> DEFINE n == [r EXCEPT !.late = TRUE]
    <2>1. /\ n \in Query /\ n.open = r.open /\ n.state = r.state /\ n.lookup = r.lookup
          /\ n.chan = r.chan /\ n.answers = r.answers /\ n.fds = r.fds
          /\ n.dns = r.dns /\ n.destroy = r.destroy
      BY <1>1, <1>2, LateFields
    <2>3. late = Put(State, q, n) BY <1>1 DEF Put
    <2> HIDE DEF n, late
    <2>4. QueryOK(r) BY <1>1, <1>2
    <2>5. QueryOK(n) BY <2>1, <2>4 DEF QueryOK
    <2>6. Clean(t) /\ Owned(t) /\ Move(State, t)
      BY <1>1, <1>2, <1>8, <2>1, <2>3, <2>5, FieldClean
    <2> QED BY <1>5, <2>6 DEF Serves
  <1> QED BY <1>5, <1>6, <1>7, <1>8

\* dslite_ares_timeout_cb: timer_dns only runs while the lookup does.
LEMMA TimeoutServes ==
    ASSUME Inv, NEW q \in Queries, TimeoutCb(q)
    PROVE  \E t : Serves(t)
  <1> DEFINE r == query[q]
             n == [r EXCEPT !.dns = "off"]
             s == [State EXCEPT !.query[q].dns = "off"]
  <1>1. /\ Clean(State) /\ Owned(State) /\ State \in States /\ State.query = query
        /\ r \in Query /\ QueryOK(r)
    BY InvState
  <1>2. r.lookup = "running" /\ r.state = "live" /\ r.answers = 0
    BY <1>1 DEF TimeoutCb, QueryOK
  <1>3. n \in Query BY <1>1 DEF Query, Timer
  <1>4. /\ n.open = r.open /\ n.state = r.state /\ n.lookup = r.lookup
        /\ n.chan = r.chan /\ n.answers = r.answers /\ n.fds = r.fds
        /\ n.destroy = r.destroy
    BY <1>1 DEF Query
  <1>5. QueryOK(n) BY <1>1, <1>2, <1>4 DEF QueryOK
  <1>6. s = Put(State, q, n) BY <1>1 DEF Put
  <1>7. \E t \in IF Freed(s, q) THEN {Faulted(s)}
                 ELSE IF query[q].chan /\ query[q].lookup = "running" /\ ~query[q].late
                   THEN NextServer(s, q)
                 ELSE {s} : Become(t)
    BY DEF TimeoutCb
  <1> HIDE DEF s, n
  <1>8. Clean(s) /\ Owned(s) /\ Others(State, s, q) /\ s.query[q] = n /\ Move(State, s)
    BY <1>1, <1>3, <1>4, <1>5, <1>6, FieldClean
  <1>9. ~Freed(s, q) BY <1>2, <1>4, <1>8 DEF Freed
  <1>10. CASE Become(s) BY <1>8, <1>10 DEF Serves
  <1>11. ASSUME NEW t \in NextServer(s, q), Become(t) PROVE Serves(t)
    <2>1. /\ Clean(t) /\ Others(s, t, q) /\ t.query[q].state = s.query[q].state
          /\ \/ t.query[q].lookup = "running" /\ t.query[q].answers = 0
             \/ t.query[q].lookup = "done" /\ t.query[q].answers = 1
      BY <1>2, <1>4, <1>8, NextServerClean
    <2>2. Others(State, t, q) /\ t.query[q].state = r.state
      BY <1>4, <1>8, <2>1, OthersTwice
    <2>3. Owned(t) /\ Move(State, t) BY <1>1, <1>2, <2>1, <2>2, AnswerServes
    <2> QED BY <1>11, <2>1, <2>3 DEF Serves
  <1> QED BY <1>7, <1>9, <1>10, <1>11

\* dslite_ares_destroy_channel_cb: the query is live, and its channel idle unless
\* a new socket was opened since.
LEMMA DestroyServes ==
    ASSUME Inv, NEW q \in Queries, DestroyChannelCb(q)
    PROVE  \E t : Serves(t)
  <1> DEFINE r == query[q]
             n == [r EXCEPT !.destroy = "off"]
             s == [State EXCEPT !.query[q].destroy = "off"]
             t == [AresDestroy(s, q) EXCEPT !.query[q].destroy = "none"]
  <1>1. /\ Clean(State) /\ Owned(State) /\ State \in States /\ State.query = query
        /\ r \in Query /\ QueryOK(r)
    BY InvState
  <1>2. r.state = "live"
    BY <1>1 DEF DestroyChannelCb, QueryOK
  <1>3. n \in Query BY <1>1 DEF Query, Timer
  <1>4. /\ n.open = r.open /\ n.state = r.state /\ n.lookup = r.lookup
        /\ n.chan = r.chan /\ n.answers = r.answers /\ n.fds = r.fds
        /\ n.dns = r.dns /\ n.destroy = "off"
    BY <1>1 DEF Query
  <1>5. QueryOK(n) BY <1>1, <1>2, <1>4 DEF QueryOK
  <1>6. s = Put(State, q, n) BY <1>1 DEF Put
  <1>7. Become(IF Freed(s, q) THEN Faulted(s) ELSE IF ~query[q].chan THEN s ELSE t)
    BY DEF DestroyChannelCb
  <1> HIDE DEF s, n
  <1>8. Clean(s) /\ Owned(s) /\ Others(State, s, q) /\ s.query[q] = n /\ Move(State, s)
    BY <1>1, <1>3, <1>4, <1>5, <1>6, FieldClean
  <1>9. ~Freed(s, q) /\ s.query[q].state = "live" BY <1>2, <1>4, <1>8 DEF Freed
  <1>10. CASE Become(s) BY <1>8, <1>10 DEF Serves
  <1>11. CASE r.chan /\ Become(t)
    <2>1. /\ Clean(t) /\ Others(s, t, q) /\ t.query[q].state = "live" /\ ~t.query[q].chan
          /\ t.query[q].lookup # "running" /\ t.query[q].answers = 1
      BY <1>8, <1>9, DestroyChannelClean
    <2> HIDE DEF t
    <2>2. Others(State, t, q) BY <1>8, <2>1, OthersTwice
    <2>3. CASE r.lookup = "running"
      <3>1. Owned(t) /\ Move(State, t)
        BY <1>1, <1>2, <2>1, <2>2, <2>3, AnswerServes
      <3> QED BY <1>11, <2>1, <3>1 DEF Serves
    <2>4. CASE r.lookup # "running"
      <3>1. t.query[q] \in Query BY <2>1, CleanSound
      <3>2. PhaseOf(r) = "idle" /\ PhaseOf(t.query[q]) = "dead"
        BY <1>1, <1>2, <1>11, <2>1, <2>4, <3>1, PhaseValue
      <3>3. r.answers = 1 BY <1>1, <1>2, <2>4 DEF QueryOK
      <3>4. Only(State, t, {q}) BY <2>2 DEF Only, Others
      <3>5. Move(State, t) BY <1>1, <2>1, <3>2, <3>3, <3>4 DEF Move
      <3>6. Owned(t) BY <1>1, <1>2, <2>1, <2>2, OwnedOthers
      <3> QED BY <1>11, <2>1, <3>5, <3>6 DEF Serves
    <2> QED BY <2>3, <2>4
  <1> QED BY <1>7, <1>9, <1>10, <1>11

\* A step of the program is one of these.
LEMMA NextServes ==
    ASSUME ~Replacing, Inv, Next
    PROVE  \E t : Serves(t)
  BY ResolveServes, ClearServes, EventloopServes, TimeoutServes, DestroyServes DEF Next

\* The state that is become.
LEMMA Became ==
    ASSUME NEW t, Serves(t), TypeOK'
    PROVE  /\ current' = t.current /\ query' = t.query /\ watched' = t.watched
           /\ Inv'
  <1>1. t \in States /\ ~t.fault BY CleanSound DEF Serves
  <1>2. /\ current' = t.current /\ query' = t.query /\ watched' = t.watched
        /\ fault' = FALSE
    BY <1>1 DEF Serves, Become
  <1>3. State' = [current |-> t.current, query |-> t.query, watched |-> t.watched,
                  fault |-> FALSE]
    BY <1>2 DEF State
  <1>4. Clean(State') /\ Owned(State')
    BY <1>1, <1>3 DEF Serves, Clean, Owned, States, WatchedOK
  <1>5. Clean(State') = Clean(State)' /\ Owned(State') = Owned(State)'
    BY DEF Clean, Owned, WatchedOK
  <1> QED BY <1>2, <1>4, <1>5 DEF Inv

\* The program starts with nothing that runs.
LEMMA InitInv == Init => Inv
  <1> SUFFICES ASSUME Init PROVE Inv
    OBVIOUS
  <1>1. TypeOK BY InitTypeInv DEF TypeInv
  <1>2. State \in States /\ ~State.fault BY <1>1 DEF Init, TypeOK, State, States
  <1>3. /\ Unused.state = "unused" /\ ~Unused.chan /\ Unused.fds = {}
        /\ Unused.lookup = "none" /\ Unused.destroy = "none" /\ Unused.open = {}
        /\ Unused.dns = "none"
    BY DEF Unused
  <1>4. QueryOK(Unused) BY <1>3 DEF QueryOK
  <1>5. \A q \in Queries : State.query[q] = Unused /\ WatchedOK(State, q)
    BY <1>3, DnsAssumption DEF Init, State, WatchedOK
  <1>6. Owned(State) BY <1>3, <1>5, DnsAssumption DEF Init, State, Owned
  <1> QED BY <1>1, <1>2, <1>4, <1>5, <1>6 DEF Inv, Clean

\* The invariant is kept.
LEMMA InvStep ==
    ASSUME ~Replacing, Inv, [Next]_vars
    PROVE  Inv'
  <1>1. CASE Next
    <2>1. TypeInv BY CleanSound DEF Inv, TypeInv
    <2>2. TypeOK' BY <1>1, <2>1, TypeInvStep DEF TypeInv
    <2> QED BY <1>1, <2>2, NextServes, Became
  <1>2. CASE UNCHANGED vars
    BY <1>2 DEF vars, Inv, TypeOK, Clean, Owned, State, WatchedOK
  <1> QED BY <1>1, <1>2

\* Every reachable state is clean, where the caller waits for a query to rest.
LEMMA InvHolds == ASSUME ~Replacing PROVE Spec => []Inv
  <1>1. Inv /\ [Next]_vars => Inv' BY InvStep
  <1> QED BY <1>1, InitInv, PTL DEF Spec

-----------------------------------------------------------------------------
(* The theorems.                                                           *)

\* Between the callbacks, the event loop watches exactly the sockets c-ares has
\* open, each for the query whose list it is in.
THEOREM Watching == ASSUME ~Replacing PROVE Spec => []SocketsWatched
  <1>1. Inv => SocketsWatched
    BY DEF Inv, Clean, WatchedOK, QueryOK, State, SocketsWatched
  <1> QED BY <1>1, InvHolds, PTL

\* A query that was freed has no channel, no running timer and no socket in the
\* event loop: nothing calls back for it.
THEOREM NothingLeft == ASSUME ~Replacing PROVE Spec => []FreedLeavesNothing
  <1>1. Inv => FreedLeavesNothing
    BY DEF Inv, Clean, WatchedOK, QueryOK, State, FreedLeavesNothing
  <1> QED BY <1>1, InvHolds, PTL

\* No callback is ever given a query that was freed.
THEOREM CallbackSafe == ASSUME ~Replacing PROVE Spec => []CallbackHasQuery
  <1>1. Inv => CallbackHasQuery BY DEF Inv, Clean, State, CallbackHasQuery
  <1> QED BY <1>1, InvHolds, PTL

-----------------------------------------------------------------------------
(* DnsLookup.                                                              *)

\* How often the callback of each query was called, as DnsLookup counts.
Answers == [q \in Queries |-> query[q].answers]

\* A function whose values are known at all but some arguments.
LEMMA ChangedAt ==
    ASSUME NEW f, NEW g, f = [x \in Queries |-> f[x]], g = [x \in Queries |-> g[x]],
           NEW q \in Queries, \A x \in Queries \ {q} : g[x] = f[x]
    PROVE  g = [f EXCEPT ![q] = g[q]]
  OBVIOUS

\* Two arguments, of which the second may be the first.
LEMMA ChangedAtBoth ==
    ASSUME NEW f, NEW g, f = [x \in Queries |-> f[x]], g = [x \in Queries |-> g[x]],
           NEW q \in Queries, NEW o \in Queries, NEW v,
           \A x \in Queries \ {q, o} : g[x] = f[x], o # q => g[q] = v
    PROVE  g = [f EXCEPT ![q] = v, ![o] = g[o]]
  OBVIOUS

\* What a move says of the variables of DnsLookup.
LEMMA MoveLooksUp ==
    ASSUME NEW t, query' = t.query, Move(State, t)
    PROVE  [Lookup!Next]_(Lookup!vars)
  <1>1. /\ Phase = [x \in Queries |-> Phase[x]] /\ Phase' = [x \in Queries |-> Phase'[x]]
        /\ Answers = [x \in Queries |-> Answers[x]]
        /\ Answers' = [x \in Queries |-> Answers'[x]]
    BY DEF Phase, Answers
  <1>2. \A x \in Queries : /\ Phase[x] = PhaseOf(State.query[x])
                           /\ Phase'[x] = PhaseOf(t.query[x])
                           /\ Answers[x] = State.query[x].answers
                           /\ Answers'[x] = t.query[x].answers
    <2>1. State.query = query BY DEF State
    <2>2. Phase' = [q \in Queries |-> PhaseOf(t.query[q])]
          /\ Answers' = [q \in Queries |-> t.query[q].answers]
      BY DEF Phase, Answers, PhaseOf
    <2> QED BY <2>1, <2>2 DEF Phase, Answers
  <1>3. CASE Only(State, t, {})
    <2>1. Phase' = Phase /\ Answers' = Answers BY <1>1, <1>2, <1>3 DEF Only
    <2> QED BY <2>1 DEF Lookup!vars, Answers
  <1>4. ASSUME NEW q \in Queries, Only(State, t, {q})
        PROVE  /\ Phase' = [Phase EXCEPT ![q] = Phase'[q]]
               /\ Answers' = [Answers EXCEPT ![q] = Answers'[q]]
    <2>1. \A x \in Queries \ {q} : Phase'[x] = Phase[x] /\ Answers'[x] = Answers[x]
      BY <1>2, <1>4 DEF Only
    <2> QED BY <1>1, <2>1, ChangedAt
  <1>5. ASSUME NEW q \in Queries, Only(State, t, {q}),
               LET now == Phase[q]
                   next == Phase'[q]
               IN  \/ now = "none" /\ next = "pending" /\ Answers'[q] = 0
                   \/ now = "none" /\ next = "idle" /\ Answers'[q] = 1
                   \/ now = "pending" /\ next \in {"idle", "dead"} /\ Answers'[q] = 1
                   \/ now = "idle" /\ next = "dead" /\ Answers'[q] = Answers[q]
                   \/ now # "none" /\ next = "none" /\ Answers'[q] = 1
        PROVE  Lookup!Next
    <2>1. /\ Phase' = [Phase EXCEPT ![q] = Phase'[q]]
          /\ Answers' = [Answers EXCEPT ![q] = Answers'[q]]
      BY <1>4, <1>5
    <2>2. CASE /\ Phase[q] = "none"
               /\ \/ Phase'[q] = "pending" /\ Answers'[q] = 0
                  \/ Phase'[q] = "idle" /\ Answers'[q] = 1
      <3>1. Lookup!Open(q) BY <2>1, <2>2 DEF Lookup!Open, Lookup!Opened, Lookup!Free, Answers
      <3> QED BY <3>1 DEF Lookup!Next
    <2>3. CASE Phase[q] = "pending" /\ Phase'[q] \in {"idle", "dead"} /\ Answers'[q] = 1
      <3>1. Lookup!Answer(q) BY <2>1, <2>3 DEF Lookup!Answer, Answers
      <3> QED BY <3>1 DEF Lookup!Next
    <2>4. CASE Phase[q] = "idle" /\ Phase'[q] = "dead" /\ Answers'[q] = Answers[q]
      <3>1. Answers' = Answers BY <1>1, <2>1, <2>4
      <3>2. Lookup!Expire(q) BY <2>1, <2>4, <3>1 DEF Lookup!Expire, Answers
      <3> QED BY <3>2 DEF Lookup!Next
    <2>5. CASE Phase[q] # "none" /\ Phase'[q] = "none" /\ Answers'[q] = 1
      <3>1. Lookup!Close(q) BY <2>1, <2>5 DEF Lookup!Close, Lookup!Free, Answers
      <3> QED BY <3>1 DEF Lookup!Next
    <2> QED BY <1>5, <2>2, <2>3, <2>4, <2>5
  <1>6. ASSUME NEW q \in Queries, NEW o \in Queries, Only(State, t, {q, o}),
               Phase[q] # "none", Phase[o] = "none" \/ o = q,
               o # q => Phase'[q] = "none" /\ Answers'[q] = 1,
               \/ Phase'[o] = "pending" /\ Answers'[o] = 0
               \/ Phase'[o] = "idle" /\ Answers'[o] = 1
        PROVE  Lookup!Next
    <2>1. \A x \in Queries \ {q, o} : Phase'[x] = Phase[x] /\ Answers'[x] = Answers[x]
      BY <1>2, <1>6 DEF Only
    <2>2. o # q => Phase'[q] = "none" /\ Answers'[q] = 1 BY <1>6
    <2>3. Phase' = [Phase EXCEPT ![q] = "none", ![o] = Phase'[o]]
      BY <1>1, <2>1, <2>2, ChangedAtBoth
    <2>4. Answers' = [Answers EXCEPT ![q] = 1, ![o] = Answers'[o]]
      BY <1>1, <2>1, <2>2, ChangedAtBoth
    <2>5. /\ Phase' = [Phase EXCEPT ![q] = "none", ![o] = Phase'[o]]
          /\ Answers' = [Answers EXCEPT ![q] = 1, ![o] = Answers'[o]]
      BY <2>3, <2>4
    <2>6. Lookup!Replace(q, o)
      BY <1>6, <2>5 DEF Lookup!Replace, Lookup!Free, Answers
    <2> QED BY <2>6 DEF Lookup!Next
  <1> QED BY <1>2, <1>3, <1>5, <1>6 DEF Move

\* The program starts as DnsLookup does.
LEMMA InitLooksUp == Init => Lookup!Init
  <1>1. Unused.state = "unused" /\ Unused.answers = 0 BY DEF Unused
  <1> QED BY <1>1 DEF Init, Lookup!Init, Phase, PhaseOf

\* dslite_cares.c provides what DnsLookup asks of it: one answer for each query,
\* at the latest when it is closed, and none after.
THEOREM Implements == ASSUME ~Replacing PROVE Spec => LookupSpec
  <1>1. ASSUME Inv, [Next]_vars PROVE [Lookup!Next]_(Lookup!vars)
    <2>1. CASE Next
      <3>1. PICK t : Serves(t) BY <1>1, <2>1, NextServes
      <3>2. TypeInv BY <1>1, CleanSound DEF Inv, TypeInv
      <3>3. TypeOK' BY <2>1, <3>2, TypeInvStep DEF TypeInv
      <3>4. query' = t.query BY <3>1, <3>3, Became
      <3> QED BY <3>1, <3>4, MoveLooksUp DEF Serves
    <2>2. CASE UNCHANGED vars
      BY <2>2 DEF vars, Lookup!vars, Phase, PhaseOf
    <2> QED BY <1>1, <2>1, <2>2
  <1>2. Spec => []Inv BY InvHolds
  <1> QED BY <1>1, <1>2, InitLooksUp, PTL DEF Spec, LookupSpec, Lookup!Spec
=============================================================================
