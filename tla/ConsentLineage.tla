--------------------------- MODULE ConsentLineage ---------------------------
(***************************************************************************)
(* What the calendar's authorization server promises of a consent, with no *)
(* requests, clocks or failures in it.  A consent lives in one bearer at a *)
(* time: a credential in the table, or the token request that has taken    *)
(* that credential out and not yet put another in.  A credential that has  *)
(* left the table never bears a consent again.                             *)
(***************************************************************************)
CONSTANT Requests   \* each request names the credential and the consent it makes

VARIABLES
    bearer,  \* bearer[k]: what bears consent k, at most one thing
    spent    \* the credentials that have left the table

vars == <<bearer, spent>>

InTable(c) == <<"table", c>>
InHand(r) == <<"request", r>>

Init ==
    /\ bearer = [k \in Requests |-> {}]
    /\ spent = {}

Grant(k) ==
    /\ bearer[k] = {}
    /\ k \notin spent
    /\ bearer' = [bearer EXCEPT ![k] = {InTable(k)}]
    /\ UNCHANGED spent

Take(k, c, r) ==
    /\ bearer[k] = {InTable(c)}
    /\ bearer' = [bearer EXCEPT ![k] = {InHand(r)}]
    /\ spent' = spent \cup {c}

Reissue(k, r) ==
    /\ bearer[k] = {InHand(r)}
    /\ r \notin spent
    /\ bearer' = [bearer EXCEPT ![k] = {InTable(r)}]
    /\ UNCHANGED spent

\* The credential lapses in the table, or is taken by a request that fails.
Lapse(k, c) ==
    /\ bearer[k] = {InTable(c)}
    /\ bearer' = [bearer EXCEPT ![k] = {}]
    /\ spent' = spent \cup {c}

Abandon(k, r) ==
    /\ bearer[k] = {InHand(r)}
    /\ bearer' = [bearer EXCEPT ![k] = {}]
    /\ UNCHANGED spent

Next ==
    \E k \in Requests :
        \/ Grant(k)
        \/ \E r \in Requests : Reissue(k, r) \/ Lapse(k, r) \/ Abandon(k, r)
        \/ \E c, r \in Requests : Take(k, c, r)

Spec == Init /\ [][Next]_vars
=============================================================================
