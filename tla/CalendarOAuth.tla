--------------------------- MODULE CalendarOAuth ---------------------------
(***************************************************************************)
(* The mock authorization server in front of the calendar: authorization   *)
(* codes, refresh tokens and events in one DynamoDB table, access tokens   *)
(* that nobody stores, and any number of requests served beside each       *)
(* other.  A code or refresh token is named by the request that made it,   *)
(* and so is a consent (by its authorize request) and an event id.         *)
(*                                                                         *)
(* The SDK repeats a call to the table whose answer it did not get.  An    *)
(* attempt it gave up on has landed by then or never will.  The clock is   *)
(* in the units of the lifetimes, Math.floor(Date.now() / 1000) in the     *)
(* code, and is the same for all requests.  GET /events changes nothing    *)
(* and is left out.                                                        *)
(***************************************************************************)
EXTENDS Naturals

CONSTANTS
    Requests,    \* requests to the server, each served at most once
    Holds,       \* hold ids events are written for
    CodeTtl, RefreshTtl, AccessTtl,
    MaxTime,     \* bound: the clock stops here
    NoRequest

ASSUME LifetimeAssumption ==
    /\ CodeTtl \in Nat \ {0} /\ RefreshTtl \in Nat \ {0} /\ AccessTtl \in Nat \ {0}
    /\ MaxTime \in Nat
ASSUME NoRequestAssumption == NoRequest \notin Requests

VARIABLES
    now,
    table,      \* codes and refresh tokens now in the table
    events,     \* events[h]: the event id stored for hold h
    pc,         \* the await each request is at
    request,
    outcome,    \* what the client learns; "lost" if it learns nothing
    ttl,        \* ttl[r]: the lifetime's end put beside r's code or refresh token
    exp,        \* exp[r]: the exp claim of r's access token, 0 if r signed none
    acked,      \* requests whose put has landed
    \* history
    took,       \* took[r]: whether r's delete removed an item, and r was told so
    consent     \* consent[r]: the consent r's credential descends from

clientVars == <<request, took, consent>>
vars == <<now, table, events, pc, outcome, ttl, exp, acked, clientVars>>

GrantKinds == {"exchange", "refresh"}
Record(kind, of, proof, hold) == [kind |-> kind, of |-> of, proof |-> proof, hold |-> hold]

TypeOK ==
    /\ now \in Nat
    /\ table \subseteq Requests
    /\ events \in [Holds -> Requests \cup {NoRequest}]
    /\ pc \in [Requests -> {"idle", "put", "take", "check", "putEvent", "done"}]
    /\ request \in [Requests ->
            [kind : {"none", "authorize", "write"} \cup GrantKinds,
             of : Requests \cup {NoRequest},
             proof : BOOLEAN,
             hold : Holds \cup {NoRequest}]]
    /\ outcome \in [Requests -> {"none", "granted", "lost", "refused", "error"}]
    /\ ttl \in [Requests -> Nat]
    /\ exp \in [Requests -> Nat]
    /\ acked \subseteq Requests
    /\ took \in [Requests -> {"no", "answered", "unanswered"}]
    /\ consent \in [Requests -> Requests \cup {NoRequest}]

Init ==
    /\ now = 0
    /\ table = {}
    /\ events = [h \in Holds |-> NoRequest]
    /\ pc = [r \in Requests |-> "idle"]
    /\ request = [r \in Requests |-> Record("none", NoRequest, FALSE, NoRequest)]
    /\ outcome = [r \in Requests |-> "none"]
    /\ ttl = [r \in Requests |-> 0]
    /\ exp = [r \in Requests |-> 0]
    /\ acked = {}
    /\ took = [r \in Requests |-> "no"]
    /\ consent = [r \in Requests |-> NoRequest]

-----------------------------------------------------------------------------

Goto(r, place) == pc' = [pc EXCEPT ![r] = place]
Finish(r, what) ==
    /\ Goto(r, "done")
    /\ outcome' = [outcome EXCEPT ![r] = what]

\* What the client can present is what it was handed.
Handed(c) == outcome[c] = "granted" /\ request[c].kind # "write"

\* CODE# and REFRESH# keep codes and refresh tokens apart.
Stored(r) ==
    LET c == request[r].of IN
    c \in table /\ (request[r].kind = "exchange" <=> request[c].kind = "authorize")

\* a lifetime counted back from now
SecondsAgo(seconds) == now - seconds
NowPlusSeconds(seconds) == now + seconds

\* left to the table's own removal of expired items
NeverExpired(c) == FALSE
\* expired in its last second
ExpiredInLastSecond(c) == ttl[c] <= now
IsExpired(c) == ttl[c] < now

\* a Get, with the Delete sent on its own
NotRemoved(c) == table
Removed(c) == table \ {c}

\* whoever holds the code is served
AnyRecord(r) == TRUE
\* The redirect_uri is the code's and the verifier hashes to its challenge; a
\* refresh token has nothing to match.
RecordMatches(r) == request[r].kind = "exchange" => request[r].proof
BearerValid(a) == now < exp[a]

\* the put is not awaited
NotAwaited(r) == TRUE
Acked(r) == r \in acked

-----------------------------------------------------------------------------

\* A request that fails the checks made before the table is touched.
Refuse(r) ==
    /\ pc[r] = "idle"
    /\ Finish(r, "refused")
    /\ UNCHANGED <<now, table, events, ttl, exp, acked, clientVars>>

Authorize(r) ==
    /\ pc[r] = "idle"
    /\ request' = [request EXCEPT ![r] = Record("authorize", NoRequest, FALSE, NoRequest)]
    /\ ttl' = [ttl EXCEPT ![r] = NowPlusSeconds(CodeTtl)]
    /\ consent' = [consent EXCEPT ![r] = r]
    /\ Goto(r, "put")
    /\ UNCHANGED <<now, table, events, outcome, exp, acked, took>>

Token(r) ==
    /\ pc[r] = "idle"
    /\ \E kind \in GrantKinds, c \in Requests, proof \in BOOLEAN :
        /\ Handed(c)
        /\ kind = "refresh" => ~proof    \* a refresh grant carries no verifier
        /\ request' = [request EXCEPT ![r] = Record(kind, c, proof, NoRequest)]
    /\ Goto(r, "take")
    /\ UNCHANGED <<now, table, events, outcome, ttl, exp, acked, took, consent>>

\* The conditional delete finds the item. If the answer is lost the SDK tries
\* again, and will find nothing.
TakeItem(r) ==
    /\ pc[r] = "take"
    /\ Stored(r)
    /\ table' = Removed(request[r].of)
    /\ \/ took' = [took EXCEPT ![r] = "answered"] /\ Goto(r, "check")
       \/ took' = [took EXCEPT ![r] = "unanswered"] /\ UNCHANGED pc
    /\ UNCHANGED <<now, events, request, outcome, ttl, exp, acked, consent>>

TakeNothing(r) ==
    /\ pc[r] = "take"
    /\ ~Stored(r)
    /\ Finish(r, "refused")
    /\ UNCHANGED <<now, table, events, ttl, exp, acked, clientVars>>

\* The record is judged when the answer is back, and the item is gone whatever
\* the verdict. What a served request makes, it makes now.
CheckRecord(r) ==
    LET c == request[r].of IN
    /\ pc[r] = "check"
    /\ IF IsExpired(c) \/ ~RecordMatches(r)
       THEN Finish(r, "refused") /\ UNCHANGED <<ttl, exp, consent>>
       ELSE /\ exp' = [exp EXCEPT ![r] = NowPlusSeconds(AccessTtl)]
            /\ ttl' = [ttl EXCEPT ![r] = NowPlusSeconds(RefreshTtl)]
            /\ consent' = [consent EXCEPT ![r] = consent[c]]
            /\ Goto(r, "put")
            /\ UNCHANGED outcome
    /\ UNCHANGED <<now, table, events, request, acked, took>>

\* Once, or again when the SDK repeats it.
PutItem(r) ==
    /\ pc[r] = "put"
    /\ table' = table \cup {r}
    /\ acked' = acked \cup {r}
    /\ UNCHANGED <<now, events, pc, outcome, ttl, exp, clientVars>>

PutEvent(r) ==
    /\ pc[r] = "putEvent"
    /\ events' = [events EXCEPT ![request[r].hold] = r]
    /\ acked' = acked \cup {r}
    /\ UNCHANGED <<now, table, pc, outcome, ttl, exp, clientVars>>

Answered(r) ==
    /\ pc[r] \in {"put", "putEvent"}
    /\ Acked(r)
    /\ \E what \in {"granted", "lost"} : Finish(r, what)
    /\ UNCHANGED <<now, table, events, ttl, exp, acked, clientVars>>

\* The SDK gives up, or the Lambda runs out of time.
StoreFails(r) ==
    /\ pc[r] \in {"take", "put", "putEvent"}
    /\ Finish(r, "error")
    /\ UNCHANGED <<now, table, events, ttl, exp, acked, clientVars>>

Write(r) ==
    /\ pc[r] = "idle"
    /\ \E a \in Requests, h \in Holds :
        /\ Handed(a) /\ exp[a] > 0
        /\ request' = [request EXCEPT ![r] = Record("write", a, FALSE, h)]
        /\ IF BearerValid(a)
           THEN Goto(r, "putEvent") /\ UNCHANGED outcome
           ELSE Finish(r, "refused")
    /\ UNCHANGED <<now, table, events, ttl, exp, acked, took, consent>>

\* The table's own removal of expired items, at any time after the fact. A put
\* is long over by then: a request has ten seconds, a code five minutes.
Sweep(c) ==
    /\ c \in table
    /\ ttl[c] < now
    /\ pc[c] = "done"
    /\ table' = table \ {c}
    /\ UNCHANGED <<now, events, pc, outcome, ttl, exp, acked, clientVars>>

Tick ==
    /\ now < MaxTime
    /\ now' = now + 1
    /\ UNCHANGED <<table, events, pc, outcome, ttl, exp, acked, clientVars>>

Next ==
    \/ \E r \in Requests :
        \/ Refuse(r) \/ Authorize(r) \/ Token(r) \/ Write(r)
        \/ TakeItem(r) \/ TakeNothing(r) \/ CheckRecord(r)
        \/ PutItem(r) \/ PutEvent(r) \/ Answered(r) \/ StoreFails(r)
        \/ Sweep(r)
    \/ Tick

Spec == Init /\ [][Next]_vars

-----------------------------------------------------------------------------

IsCredential(c) == request[c].kind \in {"authorize"} \cup GrantKinds
\* r has taken a credential out of the table and put none in yet.
Holding(r) == pc[r] = "check" \/ (pc[r] = "put" /\ request[r].kind \in GrantKinds /\ ~Acked(r))
ConsentTaken(r) == consent[request[r].of]

\* Bearers of consent k, to compare with the abstract ones.
BearerOf(k) ==
    {<<"table", c>> : c \in {d \in table : consent[d] = k}}
        \cup {<<"request", r>> : r \in {q \in Requests : Holding(q) /\ ConsentTaken(q) = k}}
Spent == {c \in acked \ table : IsCredential(c)}

Lineage == INSTANCE ConsentLineage WITH
    bearer <- [k \in Requests |-> BearerOf(k)], spent <- Spent

\* Codes and refresh tokens are single-use: whatever requests run beside each
\* other, are repeated or fail halfway, a consent is borne by one credential or
\* one request at a time, and a credential once taken never works again
\* (store.ts, takeItem; router.ts, issueTokenResponse).
ImplementsConsentLineage == Lineage!Spec

\* Every refresh token and every event goes back, over any number of rotations,
\* to one consent whose code was exchanged with its own redirect_uri and
\* verifier (router.ts, handleAuthorizationCodeGrant).
Proved(k) ==
    \E x \in Requests : /\ request[x].kind = "exchange" /\ request[x].of = k
                        /\ request[x].proof /\ took[x] = "answered"
ProvedConsent ==
    /\ \A c \in table : request[c].kind \in GrantKinds => Proved(consent[c])
    /\ \A h \in Holds : events[h] # NoRequest =>
            /\ request[events[h]].hold = h
            /\ Proved(consent[request[events[h]].of])

\* Nothing is granted on a credential past its lifetime, although the table may
\* still hold it and time passes between the delete and its answer (store.ts,
\* takeItem and isExpired). exp - AccessTtl is when the request was judged.
GrantedInLifetime ==
    \A r \in Requests : exp[r] > 0 => exp[r] <= ttl[request[r].of] + AccessTtl

TakenByAnother(r) ==
    \E q \in Requests \ {r} : request[q].of = request[r].of /\ took[q] # "no"
OfWrongKind(r) == request[r].kind = "exchange" <=> request[request[r].of].kind # "authorize"

\* invalid_grant has a reason: the client's own mistake, a lifetime that is
\* over, another request that took the credential, or a delete that landed
\* unheard. A credential in its last second is still good, and a token request
\* that failed to store its item was never handed out (router.ts,
\* handleAuthorizationCodeGrant and handleRefreshTokenGrant).
RefusedForAReason ==
    \A r \in Requests :
        request[r].kind \in GrantKinds /\ outcome[r] = "refused" =>
            \/ request[r].kind = "exchange" /\ ~request[r].proof
            \/ OfWrongKind(r)
            \/ ttl[request[r].of] < now
            \/ TakenByAnother(r)
            \/ took[r] = "unanswered"

\* What the client was told is so: a credential it was handed is in the table
\* until it is taken or its lifetime is over, and a hold whose event was
\* acknowledged has an event (router.ts, issueTokenResponse, handleWriteEvent).
GrantedIsStored ==
    \A r \in Requests : outcome[r] = "granted" =>
        IF request[r].kind = "write"
        THEN events[request[r].hold] # NoRequest
        ELSE \/ r \in table
             \/ ttl[r] < now
             \/ \E q \in Requests : request[q].of = r /\ took[q] # "no"
=============================================================================
