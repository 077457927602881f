---------------------------- MODULE TunnelService ----------------------------
(***************************************************************************)
(* What the plug-in relies on when it calls its tunnel controller          *)
(* (update_dslite_tunnel and delete_dslite_tunnel): a call is one step.    *)
(*                                                                         *)
(* An update that returns 0 has brought the tunnel up between the two      *)
(* addresses it was given; one that fails has left the tunnel as it was,   *)
(* or between the new addresses and as little up as before.  A deletion    *)
(* that returns 0 has removed the tunnel; one that fails has left it.      *)
(***************************************************************************)
EXTENDS Integers

CONSTANTS
    None,      \* no tunnel, no request
    Requests,  \* records with the fields fn, local and remote
    Addresses  \* what a tunnel's remote end may be

VARIABLES
    tunnel,    \* the tunnel the plug-in finds when it is not in a call
    request,   \* the call it is in
    rv         \* what the last call returned

vars == <<tunnel, request, rv>>

Between(r, up) == [remote |-> r.remote, local |-> r.local, up |-> up]

IsUp(t) == t # None /\ t.up

\* The tunnels an update may leave where t was, with what it returns.
Updates(t, r) ==
    IF r.remote \notin Addresses THEN {<<t, -1>>}
    ELSE {<<t, -1>>, <<Between(r, IsUp(t)), -1>>, <<Between(r, TRUE), 0>>}

Deletions(t) == {<<t, -1>>} \cup (IF t = None THEN {} ELSE {<<None, 0>>})

Outcomes(t, r) == IF r.fn = "delete_tunnel" THEN Deletions(t) ELSE Updates(t, r)

\* A tunnel an earlier process left may be there already.
Init ==
    /\ tunnel = None \/ \E r \in Requests, up \in BOOLEAN :
                           r.remote \in Addresses /\ tunnel = Between(r, up)
    /\ request = None
    /\ rv = 0

Ask ==
    /\ request = None /\ request' \in Requests
    /\ UNCHANGED <<tunnel, rv>>

Answer ==
    /\ request # None /\ request' = None
    /\ <<tunnel', rv'>> \in Outcomes(tunnel, request)

Next == Ask \/ Answer

Spec == Init /\ [][Next]_vars
=============================================================================
