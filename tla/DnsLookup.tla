----------------------------- MODULE DnsLookup -----------------------------
(***************************************************************************)
(* What dslite_utils.c relies on when it opens a DNS query: the lookup is  *)
(* answered once, also when the query is closed first, and the channel it  *)
(* used goes away afterwards, unless it was never needed.  These are the   *)
(* phases of the field dns of DSLite's private data; DnsQuery shows that   *)
(* dslite_cares.c provides them.                                           *)
(***************************************************************************)
CONSTANT Queries

VARIABLES phase,    \* "none", "pending", "idle" (answered) or "dead"
          answers   \* how often the callback of the query was called

vars == <<phase, answers>>

Init == phase = [q \in Queries |-> "none"] /\ answers = [q \in Queries |-> 0]

Free(q) == phase[q] = "none"

\* The query is opened, and perhaps answered before the call returns.
Opened(q) == \/ phase' = [phase EXCEPT ![q] = "pending"] /\ answers' = [answers EXCEPT ![q] = 0]
             \/ phase' = [phase EXCEPT ![q] = "idle"] /\ answers' = [answers EXCEPT ![q] = 1]

Open(q) == Free(q) /\ Opened(q)

\* An answer, a failure, or the end of the channel.
Answer(q) == /\ phase[q] = "pending"
             /\ \E next \in {"idle", "dead"} : phase' = [phase EXCEPT ![q] = next]
             /\ answers' = [answers EXCEPT ![q] = 1]

Expire(q) == /\ phase[q] = "idle"
             /\ phase' = [phase EXCEPT ![q] = "dead"]
             /\ UNCHANGED answers

\* A query that is closed has been answered.
Close(q) == /\ ~Free(q)
            /\ phase' = [phase EXCEPT ![q] = "none"]
            /\ answers' = [answers EXCEPT ![q] = 1]

\* One query takes the place of another in one step, perhaps at its address.
Replace(q, r) == /\ ~Free(q) /\ (Free(r) \/ r = q)
                 /\ \E next \in {"pending", "idle"} :
                      /\ phase' = [phase EXCEPT ![q] = "none", ![r] = next]
                      /\ answers' = [answers EXCEPT ![q] = 1,
                                                    ![r] = IF next = "idle" THEN 1 ELSE 0]

Next == \E q \in Queries :
          \/ Open(q) \/ Answer(q) \/ Expire(q) \/ Close(q)
          \/ \E r \in Queries : Replace(q, r)

Spec == Init /\ [][Next]_vars
=============================================================================
