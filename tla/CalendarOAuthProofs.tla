------------------------ MODULE CalendarOAuthProofs ------------------------
(***************************************************************************)
(* Codes and refresh tokens are single-use for any number of requests, any *)
(* lifetimes and any clock: the server implements ConsentLineage.          *)
(*                                                                         *)
(* That a consent has one bearer at most is not inductive by itself.  A    *)
(* request puts its credential in the table with a fresh name, so nothing  *)
(* else can bear the consent then; this needs that whoever holds a taken   *)
(* credential is the only one who does, that only credentials handed out   *)
(* are ever taken, and that nobody descends from a consent whose own code  *)
(* has not landed.                                                         *)
(***************************************************************************)
EXTENDS CalendarOAuth, TLAPS

CredentialKinds == {"authorize"} \cup GrantKinds

\* What the place of a request says of what it has done so far.
InOrder ==
    \A r \in Requests :
        /\ pc[r] = "idle" =>
             request[r].kind = "none" /\ r \notin acked /\ consent[r] = NoRequest
        /\ pc[r] \in {"take", "check"} =>
             request[r].kind \in GrantKinds /\ r \notin acked /\ consent[r] = NoRequest
        /\ pc[r] = "put" =>
             request[r].kind \in CredentialKinds /\ consent[r] \in Requests
        /\ pc[r] = "putEvent" => request[r].kind = "write"
        /\ outcome[r] # "none" => pc[r] = "done"
        /\ outcome[r] = "granted" => request[r].kind # "none"

\* A token request presents a credential that was handed out, and only
\* credentials that landed were.
PresentsHanded ==
    /\ \A r \in Requests : request[r].kind \in GrantKinds =>
         request[r].of \in Requests /\ Handed(request[r].of) /\ IsCredential(request[r].of)
    /\ \A c \in Requests : Handed(c) /\ IsCredential(c) => c \in acked /\ consent[c] \in Requests
    /\ \A c \in table : c \in acked /\ IsCredential(c) /\ consent[c] \in Requests
    \* nothing takes or sweeps an item before its put is answered
    /\ \A c \in acked : pc[c] = "put" => c \in table

\* A consent is handed down, and begins with a code that landed.
Descent ==
    /\ \A r \in Requests : request[r].kind = "authorize" => consent[r] = r
    /\ \A r \in Requests : pc[r] = "put" /\ request[r].kind \in GrantKinds =>
         consent[r] = ConsentTaken(r)
    /\ \A r \in Requests : consent[r] \in Requests \ {r} => consent[r] \in acked

OneBearer ==
    \A k \in Requests : \A x, y \in BearerOf(k) : x = y

IInv == TypeOK /\ InOrder /\ PresentsHanded /\ Descent /\ OneBearer

-----------------------------------------------------------------------------
TypeInv ==
    /\ TypeOK
    /\ \A r \in Requests : pc[r] \in {"take", "check"} => request[r].of \in Requests

LEMMA TypeInvariant == Spec => []TypeInv
<1>1. Init => TypeInv
  BY DEF Init, TypeInv, TypeOK, Record
<1>2. TypeInv /\ [Next]_vars => TypeInv'
  <2> SUFFICES ASSUME TypeInv, [Next]_vars PROVE TypeInv'
    OBVIOUS
  <2> USE LifetimeAssumption DEF TypeInv, TypeOK, Goto, Finish, Record, GrantKinds,
          clientVars, NowPlusSeconds
  <2>1. ASSUME NEW r \in Requests, Refuse(r) PROVE TypeInv'
    BY <2>1 DEF Refuse
  <2>2. ASSUME NEW r \in Requests, Authorize(r) PROVE TypeInv'
    BY <2>2 DEF Authorize
  <2>3. ASSUME NEW r \in Requests, Token(r) PROVE TypeInv'
    BY <2>3 DEF Token
  <2>4. ASSUME NEW r \in Requests, Write(r) PROVE TypeInv'
    BY <2>4 DEF Write
  <2>5. ASSUME NEW r \in Requests, TakeItem(r) PROVE TypeInv'
    BY <2>5 DEF TakeItem, Removed
  <2>6. ASSUME NEW r \in Requests, TakeNothing(r) PROVE TypeInv'
    BY <2>6 DEF TakeNothing
  <2>7. ASSUME NEW r \in Requests, CheckRecord(r) PROVE TypeInv'
    <3>1. request[r].of \in Requests
      BY <2>7 DEF CheckRecord
    <3>2. CASE pc'[r] = "done" /\ Finish(r, "refused") /\ UNCHANGED <<ttl, exp, consent>>
      BY <2>7, <3>2 DEF CheckRecord
    <3>3. CASE /\ exp' = [exp EXCEPT ![r] = now + AccessTtl]
               /\ ttl' = [ttl EXCEPT ![r] = now + RefreshTtl]
               /\ consent' = [consent EXCEPT ![r] = consent[request[r].of]]
               /\ pc' = [pc EXCEPT ![r] = "put"]
               /\ UNCHANGED outcome
      BY <2>7, <3>1, <3>3 DEF CheckRecord
    <3> QED
      BY <2>7, <3>2, <3>3 DEF CheckRecord
  <2>8. ASSUME NEW r \in Requests, PutItem(r) PROVE TypeInv'
    BY <2>8 DEF PutItem
  <2>9. ASSUME NEW r \in Requests, PutEvent(r) PROVE TypeInv'
    BY <2>9 DEF PutEvent
  <2>10. ASSUME NEW r \in Requests, Answered(r) PROVE TypeInv'
    BY <2>10 DEF Answered
  <2>11. ASSUME NEW r \in Requests, StoreFails(r) PROVE TypeInv'
    BY <2>11 DEF StoreFails
  <2>12. ASSUME NEW r \in Requests, Sweep(r) PROVE TypeInv'
    BY <2>12 DEF Sweep
  <2>13. CASE Tick
    BY <2>13 DEF Tick
  <2>14. CASE UNCHANGED vars
    BY <2>14 DEF vars
  <2> QED
    BY <2>1, <2>2, <2>3, <2>4, <2>5, <2>6, <2>7, <2>8, <2>9, <2>10, <2>11, <2>12,
       <2>13, <2>14 DEF Next
<1> QED
  BY <1>1, <1>2, PTL DEF Spec

\* The variables keep their types.
THEOREM TypeCorrect == Spec => []TypeOK
<1>1. TypeInv => TypeOK
  BY DEF TypeInv
<1> QED
  BY <1>1, TypeInvariant, PTL

-----------------------------------------------------------------------------

LocalInv == InOrder /\ PresentsHanded /\ Descent

\* The two ends of a take that was answered.
LEMMA CheckRecordCases ==
    ASSUME TypeInv, NEW r \in Requests, CheckRecord(r)
    PROVE  /\ pc[r] = "check" /\ request[r].of \in Requests
           /\ UNCHANGED <<now, table, events, request, acked, took>>
           /\ \/ /\ pc' = [pc EXCEPT ![r] = "done"]
                 /\ outcome' = [outcome EXCEPT ![r] = "refused"]
                 /\ UNCHANGED consent
              \/ /\ pc' = [pc EXCEPT ![r] = "put"]
                 /\ consent' = [consent EXCEPT ![r] = consent[request[r].of]]
                 /\ UNCHANGED outcome
  BY DEF TypeInv, CheckRecord, Finish, Goto

\* What requests know of themselves and of the credential they present.
LEMMA LocalInvInductive ==
    ASSUME TypeInv, TypeInv', LocalInv, [Next]_vars
    PROVE  LocalInv'
<1> USE NoRequestAssumption DEF TypeInv, TypeOK, Goto, Finish, Record, GrantKinds,
        CredentialKinds, LocalInv, InOrder, PresentsHanded, Descent, Handed, IsCredential,
        ConsentTaken, clientVars
<1>1. ASSUME NEW r \in Requests, Refuse(r) PROVE LocalInv'
  BY <1>1 DEF Refuse
<1>2. ASSUME NEW r \in Requests, Authorize(r) PROVE LocalInv'
  BY <1>2 DEF Authorize
<1>3. ASSUME NEW r \in Requests, Token(r) PROVE LocalInv'
  BY <1>3 DEF Token
<1>4. ASSUME NEW r \in Requests, Write(r) PROVE LocalInv'
  BY <1>4 DEF Write
<1>5. ASSUME NEW r \in Requests, TakeItem(r) PROVE LocalInv'
  BY <1>5 DEF TakeItem, Removed
<1>6. ASSUME NEW r \in Requests, TakeNothing(r) PROVE LocalInv'
  BY <1>6 DEF TakeNothing
<1>7. ASSUME NEW r \in Requests, CheckRecord(r) PROVE LocalInv'
  <2>1. request[r].kind \in GrantKinds /\ r \notin acked /\ pc[r] = "check"
    BY <1>7, CheckRecordCases
  <2>2. consent[request[r].of] \in Requests \cap acked
    BY <1>7, <2>1, CheckRecordCases
  <2>3. InOrder'
    BY <1>7, <2>1, <2>2, CheckRecordCases
  <2>4. PresentsHanded'
    <3>1. /\ \A c \in Requests : Handed(c)' <=> Handed(c)
          /\ UNCHANGED <<request, acked, table>>
      BY <1>7, <2>1, CheckRecordCases
    <3>2. \A c \in Requests \ {r} : pc'[c] = pc[c] /\ consent'[c] = consent[c]
      BY <1>7, CheckRecordCases
    <3>3. ~Handed(r)
      BY <2>1
    <3> QED
      BY <2>1, <3>1, <3>2, <3>3
  <2>5. Descent'
    BY <1>7, <2>1, <2>2, CheckRecordCases
  <2> QED
    BY <2>3, <2>4, <2>5
<1>8. ASSUME NEW r \in Requests, PutItem(r) PROVE LocalInv'
  BY <1>8 DEF PutItem
<1>9. ASSUME NEW r \in Requests, PutEvent(r) PROVE LocalInv'
  BY <1>9 DEF PutEvent
<1>10. ASSUME NEW r \in Requests, Answered(r) PROVE LocalInv'
  BY <1>10 DEF Answered, Acked
<1>11. ASSUME NEW r \in Requests, StoreFails(r) PROVE LocalInv'
  BY <1>11 DEF StoreFails
<1>12. ASSUME NEW r \in Requests, Sweep(r) PROVE LocalInv'
  BY <1>12 DEF Sweep
<1>13. CASE Tick
  BY <1>13 DEF Tick
<1>14. CASE UNCHANGED vars
  BY <1>14 DEF vars
<1> QED
  BY <1>1, <1>2, <1>3, <1>4, <1>5, <1>6, <1>7, <1>8, <1>9, <1>10, <1>11, <1>12,
     <1>13, <1>14 DEF Next

-----------------------------------------------------------------------------

\* A step that neither moves a credential nor changes who holds one stutters.
LEMMA StutterStep ==
    ASSUME UNCHANGED table,
           \A c \in table : consent'[c] = consent[c],
           \A q \in Requests : /\ Holding(q)' <=> Holding(q)
                               /\ Holding(q) => ConsentTaken(q)' = ConsentTaken(q),
           \A c : c \in Spent' <=> c \in Spent
    PROVE  UNCHANGED Lineage!vars
<1>1. \A k \in Requests : BearerOf(k)' = BearerOf(k)
  BY DEF BearerOf
<1>2. Spent' = Spent
  OBVIOUS
<1> QED
  BY <1>1, <1>2 DEF Lineage!vars

\* Requests that start, fail before they take anything, or write an event.
LEMMA QuietStep ==
    ASSUME IInv, TypeInv, NEW r \in Requests,
           \/ Refuse(r) \/ Authorize(r) \/ Token(r) \/ Write(r)
           \/ TakeNothing(r) \/ PutEvent(r) \/ Answered(r)
    PROVE  UNCHANGED Lineage!vars
<1> USE DEF IInv, TypeOK, InOrder, PresentsHanded, Handed, Goto, Finish, Record, Acked,
        clientVars, GrantKinds, CredentialKinds
<1>1. UNCHANGED table
  BY DEF Refuse, Authorize, Token, Write, TakeNothing, PutEvent, Answered
<1>2. \A c \in table : consent'[c] = consent[c]
  BY DEF Refuse, Authorize, Token, Write, TakeNothing, PutEvent, Answered
<1>3. ASSUME NEW q \in Requests
      PROVE  /\ Holding(q)' <=> Holding(q)
             /\ Holding(q) => ConsentTaken(q)' = ConsentTaken(q)
  BY DEF Refuse, Authorize, Token, Write, TakeNothing, PutEvent, Answered, Holding, ConsentTaken
<1>4. \A c : c \in Spent' <=> c \in Spent
  BY DEF Refuse, Authorize, Token, Write, TakeNothing, PutEvent, Answered, Spent, IsCredential
<1> QED
  BY <1>1, <1>2, <1>3, <1>4, StutterStep

\* A credential in the table is the only bearer of its consent.
LEMMA SoleCredential ==
    ASSUME OneBearer, NEW k \in Requests, NEW c \in table, consent[c] = k
    PROVE  /\ BearerOf(k) = {<<"table", c>>}
           /\ \A d \in table : consent[d] = k => d = c
           /\ \A q \in Requests : ~(Holding(q) /\ ConsentTaken(q) = k)
<1>1. <<"table", c>> \in BearerOf(k)
  BY DEF BearerOf
<1>2. BearerOf(k) = {<<"table", c>>}
  BY <1>1 DEF OneBearer
<1>3. ASSUME NEW d \in table, consent[d] = k PROVE d = c
  <2>1. <<"table", d>> \in BearerOf(k)
    BY <1>3 DEF BearerOf
  <2> QED
    BY <1>2, <2>1
<1>4. ASSUME NEW q \in Requests, Holding(q), ConsentTaken(q) = k PROVE FALSE
  <2>1. <<"request", q>> \in BearerOf(k)
    BY <1>4 DEF BearerOf
  <2>2. <<"request", q>>[1] # <<"table", c>>[1]
    OBVIOUS
  <2> QED
    BY <1>2, <2>1, <2>2
<1> QED
  BY <1>2, <1>3, <1>4

\* A request that holds a taken credential is the only bearer of its consent.
LEMMA SoleHolder ==
    ASSUME OneBearer, NEW k \in Requests, NEW r \in Requests, Holding(r), ConsentTaken(r) = k
    PROVE  /\ BearerOf(k) = {<<"request", r>>}
           /\ \A d \in table : consent[d] # k
           /\ \A q \in Requests : Holding(q) /\ ConsentTaken(q) = k => q = r
<1>1. <<"request", r>> \in BearerOf(k)
  BY DEF BearerOf
<1>2. BearerOf(k) = {<<"request", r>>}
  BY <1>1 DEF OneBearer
<1>3. ASSUME NEW d \in table, consent[d] = k PROVE FALSE
  <2>1. <<"table", d>> \in BearerOf(k)
    BY <1>3 DEF BearerOf
  <2>2. <<"request", r>>[1] # <<"table", d>>[1]
    OBVIOUS
  <2> QED
    BY <1>2, <2>1, <2>2
<1>4. ASSUME NEW q \in Requests, Holding(q), ConsentTaken(q) = k PROVE q = r
  <2>1. <<"request", q>> \in BearerOf(k)
    BY <1>4 DEF BearerOf
  <2> QED
    BY <1>2, <2>1
<1> QED
  BY <1>2, <1>3, <1>4

\* What a step makes of the bearers when it moves the consent k only.
LEMMA Moved ==
    ASSUME NEW k \in Requests, NEW X, BearerOf(k)' = X,
           \A j \in Requests \ {k} : BearerOf(j)' = BearerOf(j)
    PROVE  [j \in Requests |-> BearerOf(j)]' =
             [[j \in Requests |-> BearerOf(j)] EXCEPT ![k] = X]
  OBVIOUS

\* The delete of a stored item takes it, or loses it unheard.
LEMMA TakeStep ==
    ASSUME IInv, TypeInv, NEW r \in Requests, TakeItem(r)
    PROVE  Lineage!Next
<1> USE DEF IInv, TypeOK, InOrder, PresentsHanded, Goto, GrantKinds
<1>0. request[r].of \in table /\ consent[request[r].of] \in Requests
  BY DEF TakeItem, Stored
<1>a. PICK c \in Requests, k \in Requests : c = request[r].of /\ k = consent[c]
  BY <1>0
<1>1. /\ c \in table /\ c \in acked /\ IsCredential(c) /\ consent[c] = k
      /\ table' = table \ {c} /\ UNCHANGED <<consent, request, acked>>
      /\ pc[r] = "take" /\ ~Holding(r) /\ ConsentTaken(r) = k
  BY <1>0, <1>a DEF TakeItem, Removed, Holding, ConsentTaken
<1>2. /\ BearerOf(k) = {<<"table", c>>}
      /\ \A d \in table : consent[d] = k => d = c
      /\ \A q \in Requests : ~(Holding(q) /\ ConsentTaken(q) = k)
  BY <1>1, SoleCredential
<1>3. \A q \in Requests : ConsentTaken(q)' = ConsentTaken(q)
  BY <1>1 DEF ConsentTaken
<1>4. \A q \in Requests \ {r} : Holding(q)' <=> Holding(q)
  BY <1>1 DEF TakeItem, Holding, Acked
<1>5. Spent' = Spent \cup {c}
  BY <1>1 DEF Spent, IsCredential
<1>6. \A j \in Requests \ {k} : BearerOf(j)' = BearerOf(j)
  BY <1>1, <1>3, <1>4 DEF BearerOf
<1>7. \A d \in table' : consent'[d] # k
  BY <1>1, <1>2
<1>8. CASE pc' = [pc EXCEPT ![r] = "check"]
  <2>1. Holding(r)'
    BY <1>8 DEF Holding
  <2>2. BearerOf(k)' = {<<"request", r>>}
    BY <1>1, <1>2, <1>3, <1>4, <1>7, <2>1 DEF BearerOf
  <2>3. Lineage!Take(k, c, r)
    BY <1>2, <1>5, <1>6, <2>2, Moved DEF Lineage!Take, Lineage!InTable, Lineage!InHand
  <2> QED
    BY <2>3 DEF Lineage!Next
<1>9. CASE UNCHANGED pc
  <2>1. ~Holding(r)'
    BY <1>1, <1>9 DEF Holding
  <2>2. BearerOf(k)' = {}
    BY <1>2, <1>3, <1>4, <1>7, <2>1 DEF BearerOf
  <2>3. Lineage!Lapse(k, c)
    BY <1>2, <1>5, <1>6, <2>2, Moved DEF Lineage!Lapse, Lineage!InTable
  <2> QED
    BY <2>3 DEF Lineage!Next
<1> QED
  BY <1>8, <1>9 DEF TakeItem

\* A put of r makes r the bearer of its consent, if nothing else bears it.
LEMMA Landed ==
    ASSUME NEW r \in Requests, NEW k \in Requests, consent[r] = k,
           table' = table \cup {r}, UNCHANGED consent,
           \A q \in Requests : ConsentTaken(q)' = ConsentTaken(q),
           \A q \in Requests \ {r} : Holding(q)' <=> Holding(q),
           ~Holding(r)', Holding(r) => ConsentTaken(r) = k,
           \A d \in table : consent[d] # k,
           \A q \in Requests : Holding(q) /\ ConsentTaken(q) = k => q = r
    PROVE  /\ BearerOf(k)' = {<<"table", r>>}
           /\ \A j \in Requests \ {k} : BearerOf(j)' = BearerOf(j)
<1>1. {d \in table' : consent'[d] = k} = {r}
  OBVIOUS
<1>2. {q \in Requests : Holding(q)' /\ ConsentTaken(q)' = k} = {}
  OBVIOUS
<1>3. ASSUME NEW j \in Requests \ {k} PROVE BearerOf(j)' = BearerOf(j)
  <2>1. {d \in table' : consent'[d] = j} = {d \in table : consent[d] = j}
    OBVIOUS
  <2>2. {q \in Requests : Holding(q)' /\ ConsentTaken(q)' = j}
          = {q \in Requests : Holding(q) /\ ConsentTaken(q) = j}
    OBVIOUS
  <2> QED
    BY <2>1, <2>2 DEF BearerOf
<1> QED
  BY <1>1, <1>2, <1>3 DEF BearerOf

\* The first put of a code begins a consent, that of a refresh token hands one
\* on; a repeated put changes nothing.
LEMMA PutStep ==
    ASSUME IInv, TypeInv, NEW r \in Requests, PutItem(r)
    PROVE  Lineage!Next \/ UNCHANGED Lineage!vars
<1> USE DEF IInv, TypeOK, InOrder, PresentsHanded, Descent, CredentialKinds, clientVars
<1>a. PICK k \in Requests : k = consent[r]
  BY DEF PutItem
<1>1. /\ table' = table \cup {r} /\ acked' = acked \cup {r}
      /\ UNCHANGED <<pc, consent, request>>
      /\ pc[r] = "put" /\ IsCredential(r)
  BY DEF PutItem, IsCredential
<1>2. \A q \in Requests : ConsentTaken(q)' = ConsentTaken(q)
  BY <1>1 DEF ConsentTaken
<1>3. \A q \in Requests \ {r} : Holding(q)' <=> Holding(q)
  BY <1>1 DEF Holding, Acked
<1>4. ~Holding(r)'
  BY <1>1 DEF Holding, Acked
<1>5. CASE r \in acked
  <2>1. r \in table /\ ~Holding(r) /\ acked' = acked /\ table' = table
    BY <1>1, <1>5 DEF Holding, Acked
  <2>2. \A c : c \in Spent' <=> c \in Spent
    BY <1>1, <2>1 DEF Spent, IsCredential
  <2> QED
    BY <1>1, <1>2, <1>3, <1>4, <2>1, <2>2, StutterStep
<1>6. ASSUME r \notin acked PROVE Lineage!Next
  <2>1. r \notin table /\ r \notin Spent /\ UNCHANGED Spent
    BY <1>1, <1>6 DEF Spent, IsCredential
  <2>2. CASE request[r].kind = "authorize"
    <3>1. k = r /\ consent[r] = r /\ ~Holding(r)
      BY <1>a, <1>1, <2>2 DEF Holding, GrantKinds
    <3>2. \A d \in table : consent[d] # r
      BY <1>6, <2>1
    <3>3. \A q \in Requests : ~(Holding(q) /\ ConsentTaken(q) = r)
      <4> SUFFICES ASSUME NEW q \in Requests, Holding(q), ConsentTaken(q) = r PROVE FALSE
        OBVIOUS
      <4>1. request[q].of \in acked /\ request[q].of \in Requests
        BY DEF Holding, Handed
      <4> QED
        BY <1>6, <4>1 DEF ConsentTaken
    <3>4. BearerOf(r) = {}
      BY <3>2, <3>3 DEF BearerOf
    <3>5. /\ BearerOf(r)' = {<<"table", r>>}
          /\ \A j \in Requests \ {r} : BearerOf(j)' = BearerOf(j)
      <4>1. UNCHANGED consent /\ table' = table \cup {r}
        BY <1>1
      <4>2. \A q \in Requests : Holding(q) /\ ConsentTaken(q) = r => q = r
        BY <3>3
      <4> HIDE DEF IInv
      <4> QED
        BY <1>2, <1>3, <1>4, <3>1, <3>2, <4>1, <4>2, Landed
    <3>6. Lineage!Grant(r)
      BY <2>1, <3>4, <3>5, Moved DEF Lineage!Grant, Lineage!InTable
    <3> QED
      BY <3>6 DEF Lineage!Next
  <2>3. CASE request[r].kind \in GrantKinds
    <3>1. Holding(r) /\ ConsentTaken(r) = k
      BY <1>a, <1>1, <1>6, <2>3 DEF Holding, Acked
    <3>2. /\ BearerOf(k) = {<<"request", r>>}
          /\ \A d \in table : consent[d] # k
          /\ \A q \in Requests : Holding(q) /\ ConsentTaken(q) = k => q = r
      BY <3>1, SoleHolder
    <3>3. /\ BearerOf(k)' = {<<"table", r>>}
          /\ \A j \in Requests \ {k} : BearerOf(j)' = BearerOf(j)
      BY <1>1, <1>a, <1>2, <1>3, <1>4, <3>1, <3>2, Landed
    <3>4. Lineage!Reissue(k, r)
      BY <2>1, <3>2, <3>3, Moved DEF Lineage!Reissue, Lineage!InTable, Lineage!InHand
    <3> QED
      BY <3>4 DEF Lineage!Next
  <2> QED
    BY <1>1, <2>2, <2>3 DEF IsCredential, GrantKinds
<1> QED
  BY <1>5, <1>6

\* A request that ends while it holds a credential loses the consent.
LEMMA AbandonStep ==
    ASSUME IInv, TypeInv, NEW r \in Requests, Holding(r), ~Holding(r)',
           \A q \in Requests \ {r} : Holding(q)' <=> Holding(q),
           UNCHANGED <<table, acked, request, consent>>
    PROVE  Lineage!Next
<1> USE DEF IInv, TypeOK, InOrder, PresentsHanded
<1>a. PICK k \in Requests : k = ConsentTaken(r)
  BY DEF Holding, ConsentTaken
<1>1. /\ BearerOf(k) = {<<"request", r>>}
      /\ \A d \in table : consent[d] # k
      /\ \A q \in Requests : Holding(q) /\ ConsentTaken(q) = k => q = r
  BY <1>a, SoleHolder
<1>2. \A q \in Requests : ConsentTaken(q)' = ConsentTaken(q)
  BY DEF ConsentTaken
<1>3. BearerOf(k)' = {}
  BY <1>1, <1>2 DEF BearerOf
<1>4. \A j \in Requests \ {k} : BearerOf(j)' = BearerOf(j)
  BY <1>a, <1>2 DEF BearerOf
<1>5. UNCHANGED Spent
  BY DEF Spent, IsCredential
<1>6. Lineage!Abandon(k, r)
  BY <1>1, <1>3, <1>4, <1>5, Moved DEF Lineage!Abandon, Lineage!InHand
<1> QED
  BY <1>6 DEF Lineage!Next

\* A refused record is lost with its request; a served one stays in its hands.
LEMMA CheckStep ==
    ASSUME IInv, TypeInv, NEW r \in Requests, CheckRecord(r)
    PROVE  Lineage!Next \/ UNCHANGED Lineage!vars
<1> USE DEF IInv, TypeOK, InOrder, PresentsHanded
<1>1. /\ pc[r] = "check" /\ r \notin acked /\ r \notin table /\ Holding(r)
      /\ UNCHANGED <<table, request, acked>>
      /\ request[r].kind \in GrantKinds
  BY CheckRecordCases DEF Holding
<1>2. \A q \in Requests \ {r} : Holding(q)' <=> Holding(q)
  BY <1>1, CheckRecordCases DEF Holding, Acked
<1>3. CASE pc' = [pc EXCEPT ![r] = "done"] /\ UNCHANGED consent
  <2>1. ~Holding(r)'
    BY <1>3 DEF Holding
  <2> QED
    BY <1>1, <1>2, <1>3, <2>1, AbandonStep
<1>4. CASE /\ pc' = [pc EXCEPT ![r] = "put"]
           /\ consent' = [consent EXCEPT ![r] = consent[request[r].of]]
  <2>1. Holding(r)'
    BY <1>1, <1>4 DEF Holding, Acked
  <2>2. \A q \in Requests : Holding(q) => ConsentTaken(q)' = ConsentTaken(q)
    <3> SUFFICES ASSUME NEW q \in Requests, Holding(q)
                 PROVE  ConsentTaken(q)' = ConsentTaken(q)
      OBVIOUS
    <3>1. request[q].of \in Requests /\ request[q].of \in acked
      BY DEF Holding
    <3> QED
      BY <1>1, <1>4, <3>1 DEF ConsentTaken
  <2>3. \A c : c \in Spent' <=> c \in Spent
    BY <1>1 DEF Spent, IsCredential
  <2>4. \A c \in table : consent'[c] = consent[c]
    BY <1>1, <1>4
  <2> QED
    BY <1>1, <1>2, <2>1, <2>2, <2>3, <2>4, StutterStep
<1> QED
  BY <1>3, <1>4, CheckRecordCases

\* A request the table fails loses what it holds, if it holds anything.
LEMMA FailStep ==
    ASSUME IInv, TypeInv, NEW r \in Requests, StoreFails(r)
    PROVE  Lineage!Next \/ UNCHANGED Lineage!vars
<1>1. /\ pc' = [pc EXCEPT ![r] = "done"] /\ DOMAIN pc = Requests
      /\ UNCHANGED <<table, acked, request, consent>>
  BY DEF StoreFails, Finish, Goto, clientVars, IInv, TypeOK
<1>2. /\ \A q \in Requests \ {r} : Holding(q)' <=> Holding(q)
      /\ ~Holding(r)'
  BY <1>1 DEF Holding, Acked
<1>3. CASE Holding(r)
  BY <1>1, <1>2, <1>3, AbandonStep
<1>4. CASE ~Holding(r)
  <2>1. \A q \in Requests : ConsentTaken(q)' = ConsentTaken(q)
    BY <1>1 DEF ConsentTaken
  <2>2. \A c : c \in Spent' <=> c \in Spent
    BY <1>1 DEF Spent, IsCredential
  <2> QED
    BY <1>1, <1>2, <1>4, <2>1, <2>2, StutterStep
<1> QED
  BY <1>3, <1>4

\* A credential the table removes lapses.
LEMMA SweepStep ==
    ASSUME IInv, NEW c \in Requests, Sweep(c)
    PROVE  Lineage!Next
<1> USE DEF IInv, TypeOK, PresentsHanded
<1>a. PICK k \in Requests : k = consent[c]
  BY DEF Sweep
<1>1. /\ c \in table /\ c \in acked /\ IsCredential(c) /\ consent[c] = k
      /\ table' = table \ {c} /\ UNCHANGED <<consent, request, acked, pc>>
  BY <1>a DEF Sweep, clientVars
<1>2. /\ BearerOf(k) = {<<"table", c>>}
      /\ \A d \in table : consent[d] = k => d = c
      /\ \A q \in Requests : ~(Holding(q) /\ ConsentTaken(q) = k)
  BY <1>1, SoleCredential
<1>3. \A q \in Requests : ConsentTaken(q)' = ConsentTaken(q) /\ (Holding(q)' <=> Holding(q))
  BY <1>1 DEF ConsentTaken, Holding, Acked
<1>4. Spent' = Spent \cup {c}
  BY <1>1 DEF Spent, IsCredential
<1>5. BearerOf(k)' = {}
  BY <1>1, <1>2, <1>3 DEF BearerOf
<1>6. \A j \in Requests \ {k} : BearerOf(j)' = BearerOf(j)
  BY <1>1, <1>3 DEF BearerOf
<1>7. Lineage!Lapse(k, c)
  BY <1>2, <1>4, <1>5, <1>6, Moved DEF Lineage!Lapse, Lineage!InTable
<1> QED
  BY <1>7 DEF Lineage!Next

-----------------------------------------------------------------------------

\* Every step of the server is a step of the lineage or leaves it alone.
LEMMA LineageStep ==
    ASSUME IInv, TypeInv, [Next]_vars
    PROVE  Lineage!Next \/ UNCHANGED Lineage!vars
<1>1. ASSUME NEW r \in Requests,
             \/ Refuse(r) \/ Authorize(r) \/ Token(r) \/ Write(r)
             \/ TakeNothing(r) \/ PutEvent(r) \/ Answered(r)
      PROVE  UNCHANGED Lineage!vars
  BY <1>1, QuietStep
<1>2. ASSUME NEW r \in Requests, TakeItem(r) PROVE Lineage!Next
  BY <1>2, TakeStep
<1>3. ASSUME NEW r \in Requests, CheckRecord(r)
      PROVE  Lineage!Next \/ UNCHANGED Lineage!vars
  BY <1>3, CheckStep
<1>4. ASSUME NEW r \in Requests, PutItem(r)
      PROVE  Lineage!Next \/ UNCHANGED Lineage!vars
  BY <1>4, PutStep
<1>5. ASSUME NEW r \in Requests, StoreFails(r)
      PROVE  Lineage!Next \/ UNCHANGED Lineage!vars
  BY <1>5, FailStep
<1>6. ASSUME NEW r \in Requests, Sweep(r) PROVE Lineage!Next
  BY <1>6, SweepStep
<1>7. ASSUME Tick \/ UNCHANGED vars PROVE UNCHANGED Lineage!vars
  <2>1. UNCHANGED <<table, pc, acked, request, consent>>
    BY <1>7 DEF Tick, vars, clientVars
  <2>2. \A q \in Requests : /\ Holding(q)' <=> Holding(q)
                            /\ ConsentTaken(q)' = ConsentTaken(q)
    BY <2>1 DEF Holding, Acked, ConsentTaken
  <2>3. \A c : c \in Spent' <=> c \in Spent
    BY <2>1 DEF Spent, IsCredential
  <2> QED
    BY <2>1, <2>2, <2>3, StutterStep
<1> QED
  BY <1>1, <1>2, <1>3, <1>4, <1>5, <1>6, <1>7 DEF Next

\* The lineage never gives a consent two bearers.
LEMMA OneBearerKept ==
    ASSUME OneBearer, Lineage!Next \/ UNCHANGED Lineage!vars
    PROVE  OneBearer'
<1> DEFINE B == [k \in Requests |-> BearerOf(k)]
<1>1. \/ B' = B
      \/ \E k \in Requests : B' = [B EXCEPT ![k] = {}]
      \/ \E k \in Requests : \E b : B' = [B EXCEPT ![k] = {b}]
  <2>1. CASE UNCHANGED Lineage!vars
    BY <2>1 DEF Lineage!vars
  <2>2. ASSUME NEW k \in Requests, NEW c \in Requests, NEW r \in Requests,
               \/ Lineage!Grant(k) \/ Lineage!Reissue(k, r) \/ Lineage!Lapse(k, r)
               \/ Lineage!Abandon(k, r) \/ Lineage!Take(k, c, r)
        PROVE  \/ B' = [B EXCEPT ![k] = {}]
               \/ \E b : B' = [B EXCEPT ![k] = {b}]
    BY <2>2 DEF Lineage!Grant, Lineage!Reissue, Lineage!Lapse, Lineage!Abandon, Lineage!Take
  <2> QED
    BY <2>1, <2>2 DEF Lineage!Next
<1>2. \A j \in Requests : BearerOf(j) = B[j] /\ BearerOf(j)' = B'[j]
  OBVIOUS
<1>3. \A j \in Requests : \/ BearerOf(j)' = BearerOf(j)
                          \/ BearerOf(j)' = {}
                          \/ \E b : BearerOf(j)' = {b}
  <2> HIDE DEF B
  <2>1. DOMAIN B = Requests
    BY DEF B
  <2> QED
    BY <1>1, <1>2, <2>1
<1> QED
  BY <1>3 DEF OneBearer

\* The inductive invariant.
THEOREM LineageInvariant == Spec => []IInv
<1>1. Init => IInv
  <2> SUFFICES ASSUME Init PROVE IInv
    OBVIOUS
  <2> USE NoRequestAssumption DEF Init, Record
  <2>1. TypeOK /\ InOrder
    BY DEF TypeOK, InOrder
  <2>2. PresentsHanded /\ Descent
    BY DEF PresentsHanded, Descent, GrantKinds, Handed
  <2>3. OneBearer
    BY DEF OneBearer, BearerOf, Holding
  <2> QED
    BY <2>1, <2>2, <2>3 DEF IInv
<1>2. IInv /\ TypeInv /\ TypeInv' /\ [Next]_vars => IInv'
  <2> SUFFICES ASSUME IInv, TypeInv, TypeInv', [Next]_vars PROVE IInv'
    OBVIOUS
  <2>1. LocalInv'
    BY LocalInvInductive DEF IInv, LocalInv
  <2>2. OneBearer'
    BY LineageStep, OneBearerKept DEF IInv
  <2> QED
    BY <2>1, <2>2 DEF IInv, LocalInv, TypeInv
<1> QED
  BY <1>1, <1>2, TypeInvariant, PTL DEF Spec

\* Codes and refresh tokens are single-use and a consent has one bearer, for
\* any number of requests beside each other, repeated or cut off.
THEOREM RefinesConsentLineage == Spec => ImplementsConsentLineage
<1>1. Init => Lineage!Init
  <2> SUFFICES ASSUME Init PROVE Lineage!Init
    OBVIOUS
  <2>1. \A k \in Requests : BearerOf(k) = {}
    BY DEF Init, BearerOf, Holding
  <2>2. Spent = {}
    BY DEF Init, Spent
  <2> QED
    BY <2>1, <2>2 DEF Lineage!Init
<1>2. IInv /\ TypeInv /\ [Next]_vars => [Lineage!Next]_Lineage!vars
  BY LineageStep
<1> QED
  BY <1>1, <1>2, LineageInvariant, TypeInvariant, PTL
     DEF Spec, ImplementsConsentLineage, Lineage!Spec

-----------------------------------------------------------------------------

\* An access token was signed by a token request, and no later than its
\* credential's last second.
LifetimeInv ==
    \A r \in Requests : exp[r] > 0 =>
        request[r].kind \in GrantKinds /\ exp[r] <= ttl[request[r].of] + AccessTtl

LEMMA LifetimeInvInductive ==
    ASSUME IInv, LifetimeInv, TypeInv, [Next]_vars
    PROVE  LifetimeInv'
<1> USE LifetimeAssumption DEF IInv, TypeInv, TypeOK, InOrder, PresentsHanded, Handed,
        LifetimeInv, Record, GrantKinds, NowPlusSeconds
<1>0. \A q \in Requests : exp[q] > 0 => request[q].of \in Requests /\ pc[request[q].of] = "done"
  OBVIOUS
<1>1. ASSUME NEW r \in Requests,
             \/ Refuse(r) \/ TakeItem(r) \/ TakeNothing(r) \/ PutItem(r) \/ PutEvent(r)
             \/ Answered(r) \/ StoreFails(r) \/ Sweep(r) \/ Tick \/ UNCHANGED vars
      PROVE  LifetimeInv'
  <2>1. UNCHANGED <<exp, ttl, request>>
    BY <1>1 DEF Refuse, TakeItem, TakeNothing, PutItem, PutEvent, Answered, StoreFails,
       Sweep, Tick, vars, clientVars
  <2> QED
    BY <2>1
<1>2. ASSUME NEW r \in Requests, Authorize(r) PROVE LifetimeInv'
  BY <1>0, <1>2 DEF Authorize, Goto
<1>3. ASSUME NEW r \in Requests, Token(r) \/ Write(r) PROVE LifetimeInv'
  <2>1. /\ UNCHANGED <<exp, ttl>> /\ exp[r] = 0
        /\ \A q \in Requests \ {r} : request'[q] = request[q]
    BY <1>3 DEF Token, Write
  <2> QED
    BY <2>1
<1>4. ASSUME NEW r \in Requests, CheckRecord(r) PROVE LifetimeInv'
  <2>1. /\ pc[r] = "check" /\ request[r].of \in Requests /\ request[r].of # r
        /\ request[r].kind \in GrantKinds /\ UNCHANGED request
    BY <1>4 DEF CheckRecord
  <2>2. \/ UNCHANGED <<exp, ttl>>
        \/ /\ now <= ttl[request[r].of]
           /\ exp' = [exp EXCEPT ![r] = now + AccessTtl]
           /\ ttl' = [ttl EXCEPT ![r] = now + RefreshTtl]
    <3>1. ~IsExpired(request[r].of) => now <= ttl[request[r].of]
      BY <2>1 DEF IsExpired
    <3> QED
      BY <1>4, <3>1 DEF CheckRecord
  <2>3. CASE UNCHANGED <<exp, ttl>>
    BY <2>1, <2>3
  <2>4. CASE /\ now <= ttl[request[r].of]
             /\ exp' = [exp EXCEPT ![r] = now + AccessTtl]
             /\ ttl' = [ttl EXCEPT ![r] = now + RefreshTtl]
    <3>1. exp'[r] <= ttl'[request[r].of] + AccessTtl
      BY <2>1, <2>4
    <3>2. ASSUME NEW q \in Requests \ {r}, exp'[q] > 0
          PROVE  request[q].kind \in GrantKinds /\ exp'[q] <= ttl'[request[q].of] + AccessTtl
      <4>1. exp[q] > 0 /\ exp'[q] = exp[q]
        BY <2>4, <3>2
      <4>2. request[q].of # r
        BY <1>0, <2>1, <4>1
      <4> QED
        BY <1>0, <2>4, <4>1, <4>2
    <3> QED
      BY <2>1, <3>1, <3>2
  <2> QED
    BY <2>2, <2>3, <2>4
<1> QED
  BY <1>1, <1>2, <1>3, <1>4 DEF Next

\* No grant was made on a credential past its lifetime.
THEOREM GrantedInLifetimeHolds == Spec => []GrantedInLifetime
<1>1. Init => LifetimeInv
  BY DEF Init, LifetimeInv
<1>2. LifetimeInv => GrantedInLifetime
  BY DEF LifetimeInv, GrantedInLifetime
<1> QED
  BY <1>1, <1>2, LifetimeInvInductive, LineageInvariant, TypeInvariant, PTL DEF Spec

-----------------------------------------------------------------------------

ProvedConsents == {k \in Requests : Proved(k)}

\* Every consent that tokens descend from was proved, and events are written
\* with such tokens.
ProofInv ==
    /\ \A r \in Requests :
         /\ took[r] = "answered" => pc[r] \notin {"idle", "take"}
         /\ pc[r] = "check" => /\ took[r] = "answered"
                               /\ request[r].kind = "exchange" <=>
                                    request[request[r].of].kind = "authorize"
         /\ request[r].kind \in GrantKinds /\ consent[r] \in Requests =>
              consent[r] \in ProvedConsents
         /\ pc[r] = "putEvent" => /\ request[r].hold \in Holds
                                  /\ request[r].of \in Requests
                                  /\ consent[request[r].of] \in ProvedConsents
                                  /\ pc[request[r].of] = "done"
    /\ \A h \in Holds : events[h] # NoRequest =>
         /\ pc[events[h]] \in {"putEvent", "done"}
         /\ request[events[h]].hold = h
         /\ request[events[h]].of \in Requests
         /\ pc[request[events[h]].of] = "done"
         /\ consent[request[events[h]].of] \in ProvedConsents

\* A consent that is proved stays so.
LEMMA ProvedStays ==
    ASSUME TypeInv, ProofInv, [Next]_vars
    PROVE  ProvedConsents \subseteq ProvedConsents'
<1> SUFFICES ASSUME NEW k \in Requests, Proved(k) PROVE Proved(k)'
  BY DEF ProvedConsents
<1>1. PICK x \in Requests : /\ request[x].kind = "exchange" /\ request[x].of = k
                            /\ request[x].proof /\ took[x] = "answered"
  BY DEF Proved
<1>2. pc[x] \notin {"idle", "take"}
  BY <1>1 DEF ProofInv
<1>3. request'[x] = request[x] /\ took'[x] = took[x]
  <2> HIDE DEF ProofInv
  <2> USE DEF TypeInv, TypeOK, clientVars
  <2>1. ASSUME NEW r \in Requests, TakeItem(r)
        PROVE  request'[x] = request[x] /\ took'[x] = took[x]
    BY <1>2, <2>1 DEF TakeItem
  <2>2. ASSUME NEW r \in Requests, Authorize(r) \/ Token(r) \/ Write(r)
        PROVE  request'[x] = request[x] /\ took'[x] = took[x]
    BY <1>2, <2>2 DEF Authorize, Token, Write
  <2>3. ASSUME NEW r \in Requests, CheckRecord(r)
        PROVE  request'[x] = request[x] /\ took'[x] = took[x]
    BY <2>3, CheckRecordCases
  <2>4. ASSUME NEW r \in Requests,
               \/ Refuse(r) \/ TakeNothing(r) \/ PutItem(r) \/ PutEvent(r)
               \/ Answered(r) \/ StoreFails(r) \/ Sweep(r)
        PROVE  request'[x] = request[x] /\ took'[x] = took[x]
    BY <2>4 DEF Refuse, TakeNothing, PutItem, PutEvent, Answered, StoreFails, Sweep
  <2>5. ASSUME Tick \/ UNCHANGED vars
        PROVE  request'[x] = request[x] /\ took'[x] = took[x]
    BY <2>5 DEF Tick, vars
  <2> QED
    BY <2>1, <2>2, <2>3, <2>4, <2>5 DEF Next
<1> QED
  BY <1>1, <1>3 DEF Proved

\* Steps that at most end requests.
LEMMA EndingStep ==
    ASSUME ProofInv, ProvedConsents \subseteq ProvedConsents',
           UNCHANGED <<request, consent, events, took>>,
           events \in [Holds -> Requests \cup {NoRequest}],
           \A q \in Requests : pc'[q] = pc[q] \/ pc'[q] = "done"
    PROVE  ProofInv'
<1>1. \A h \in Holds : events[h] # NoRequest => events[h] \in Requests
  OBVIOUS
<1> QED
  BY <1>1 DEF ProofInv

\* The credential a token request presents is nobody's work in progress.
LEMMA PresentedIsDone ==
    ASSUME IInv, NEW q \in Requests, request[q].kind \in GrantKinds
    PROVE  request[q].of \in Requests /\ pc[request[q].of] = "done"
  BY DEF IInv, InOrder, PresentsHanded, Handed

\* A request that starts.
LEMMA StartingStep ==
    ASSUME IInv, TypeInv, LifetimeInv, ProofInv, ProvedConsents \subseteq ProvedConsents',
           NEW r \in Requests, Authorize(r) \/ Token(r) \/ Write(r)
    PROVE  ProofInv'
<1>1. /\ pc[r] = "idle" /\ UNCHANGED <<events, took>>
      /\ pc'[r] \in {"put", "take", "putEvent", "done"}
      /\ \A q \in Requests \ {r} : /\ pc'[q] = pc[q] /\ request'[q] = request[q]
                                   /\ consent'[q] = consent[q]
  BY DEF Authorize, Token, Write, Goto, Finish, TypeInv, TypeOK
<1>2. took[r] # "answered"
  BY <1>1 DEF ProofInv
<1>3. \A q \in Requests : request[q].kind \in GrantKinds =>
         request[q].of \in Requests /\ pc[request[q].of] = "done"
  BY PresentedIsDone
<1>4. \A q \in Requests : pc[q] = "check" => request[q].kind \in GrantKinds
  BY DEF IInv, InOrder
<1>5. consent[r] = NoRequest
  BY <1>1 DEF IInv, InOrder
<1>6. request'[r].kind \in GrantKinds => consent'[r] = NoRequest
  BY <1>5 DEF Authorize, Token, Write, Record, GrantKinds, TypeInv, TypeOK
<1>7. pc'[r] = "putEvent" =>
        /\ request'[r].hold \in Holds
        /\ request'[r].of \in Requests \ {r}
        /\ pc[request'[r].of] = "done"
        /\ consent[request'[r].of] \in ProvedConsents
  <2> SUFFICES ASSUME pc'[r] = "putEvent" PROVE
        /\ request'[r].hold \in Holds
        /\ request'[r].of \in Requests \ {r}
        /\ pc[request'[r].of] = "done"
        /\ consent[request'[r].of] \in ProvedConsents
    OBVIOUS
  <2>1. Write(r)
    BY DEF Authorize, Token, Goto, TypeInv, TypeOK
  <2>2. PICK a \in Requests, h \in Holds :
           Handed(a) /\ exp[a] > 0 /\ request'[r] = Record("write", a, FALSE, h)
    BY <2>1 DEF Write, TypeInv, TypeOK
  <2>3. request'[r].of = a /\ request'[r].hold = h
    BY <2>2 DEF Record
  <2>4. pc[a] = "done" /\ request[a].kind \in GrantKinds /\ consent[a] \in Requests
    BY <2>2 DEF IInv, InOrder, PresentsHanded, Handed, LifetimeInv, IsCredential
  <2> QED
    BY <1>1, <2>2, <2>3, <2>4 DEF ProofInv
<1>8. \A h \in Holds : events[h] # NoRequest => events[h] \in Requests
  BY DEF TypeInv, TypeOK
<1>9. ASSUME NEW q \in Requests \ {r}
      PROVE  /\ pc'[q] = "check" => (request'[q].kind = "exchange" <=>
                                       request'[request'[q].of].kind = "authorize")
             /\ request'[q].kind \in GrantKinds /\ consent'[q] \in Requests =>
                  consent'[q] \in ProvedConsents'
             /\ pc'[q] = "putEvent" => /\ request'[q].hold \in Holds
                                       /\ request'[q].of \in Requests
                                       /\ consent'[request'[q].of] \in ProvedConsents'
                                       /\ pc'[request'[q].of] = "done"
  BY <1>1, <1>3, <1>4 DEF ProofInv
<1>10. ASSUME NEW h \in Holds, events[h] # NoRequest
       PROVE  /\ pc'[events[h]] \in {"putEvent", "done"}
              /\ request'[events[h]].hold = h
              /\ request'[events[h]].of \in Requests
              /\ pc'[request'[events[h]].of] = "done"
              /\ consent'[request'[events[h]].of] \in ProvedConsents'
  BY <1>1, <1>8, <1>10 DEF ProofInv
<1> QED
  BY <1>1, <1>2, <1>6, <1>7, <1>9, <1>10, NoRequestAssumption DEF ProofInv

\* A request that takes a credential knows by the key it used what it took.
LEMMA TakingStep ==
    ASSUME IInv, TypeInv, ProofInv, ProvedConsents \subseteq ProvedConsents',
           NEW r \in Requests, TakeItem(r)
    PROVE  ProofInv'
<1>1. /\ pc[r] = "take" /\ UNCHANGED <<events, request, consent>>
      /\ \A q \in Requests \ {r} : pc'[q] = pc[q] /\ took'[q] = took[q]
      /\ \/ pc'[r] = "check" /\ took'[r] = "answered"
         \/ pc'[r] = "take" /\ took'[r] = "unanswered"
  BY DEF TakeItem, Goto, TypeInv, TypeOK
<1>2. request[r].kind = "exchange" <=> request[request[r].of].kind = "authorize"
  BY DEF TakeItem, Stored
<1>3. \A h \in Holds : events[h] # NoRequest => events[h] \in Requests
  BY DEF TypeInv, TypeOK
<1> QED
  BY <1>1, <1>2, <1>3 DEF ProofInv

\* A request that is served proved the consent, or descends from one proved.
LEMMA ServingStep ==
    ASSUME IInv, TypeInv, ProofInv, ProvedConsents \subseteq ProvedConsents',
           NEW r \in Requests, CheckRecord(r)
    PROVE  ProofInv'
<1> DEFINE c == request[r].of
<1>1. /\ pc[r] = "check" /\ c \in Requests /\ pc[c] = "done"
      /\ UNCHANGED <<events, request, took>>
      /\ request[r].kind \in GrantKinds /\ consent[r] = NoRequest
  BY CheckRecordCases, PresentedIsDone DEF IInv, InOrder
<1>2. \A h \in Holds : events[h] # NoRequest => events[h] \in Requests
  BY DEF TypeInv, TypeOK
<1>3. CASE pc' = [pc EXCEPT ![r] = "done"] /\ UNCHANGED consent
  BY <1>1, <1>3, EndingStep DEF TypeInv, TypeOK
<1>4. CASE /\ pc' = [pc EXCEPT ![r] = "put"]
           /\ consent' = [consent EXCEPT ![r] = consent[c]]
           /\ RecordMatches(r)
  <2>1. consent[c] \in ProvedConsents
    <3>1. IsCredential(c) /\ consent[c] \in Requests
      BY <1>1 DEF IInv, PresentsHanded
    <3>2. CASE request[c].kind = "authorize"
      <4>1. request[r].kind = "exchange" /\ request[r].proof /\ took[r] = "answered"
        BY <1>1, <1>4, <3>2 DEF ProofInv, RecordMatches
      <4>2. consent[c] = c
        BY <1>1, <3>2 DEF IInv, Descent
      <4> QED
        BY <1>1, <4>1, <4>2 DEF ProvedConsents, Proved
    <3>3. CASE request[c].kind \in GrantKinds
      BY <1>1, <3>1, <3>3 DEF ProofInv
    <3> QED
      BY <3>1, <3>2, <3>3 DEF IsCredential
  <2>2. /\ \A q \in Requests \ {r} : pc'[q] = pc[q] /\ consent'[q] = consent[q]
        /\ pc'[r] = "put" /\ consent'[r] \in ProvedConsents
    BY <1>4, <2>1 DEF TypeInv, TypeOK
  <2>3. ASSUME NEW q \in Requests \ {r}, pc[q] = "putEvent"
        PROVE  /\ request[q].of \in Requests /\ request[q].of # r
               /\ request[q].hold \in Holds
               /\ consent[request[q].of] \in ProvedConsents
               /\ pc[request[q].of] = "done"
    BY <1>1, <2>3 DEF ProofInv
  <2>4. ASSUME NEW h \in Holds, events[h] # NoRequest
        PROVE  /\ events[h] \in Requests \ {r}
               /\ pc[events[h]] \in {"putEvent", "done"}
               /\ request[events[h]].hold = h
               /\ request[events[h]].of \in Requests \ {r}
               /\ pc[request[events[h]].of] = "done"
               /\ consent[request[events[h]].of] \in ProvedConsents
    BY <1>1, <1>2, <2>4 DEF ProofInv
  <2> QED
    BY <1>1, <2>2, <2>3, <2>4 DEF ProofInv
<1> QED
  <2>1. \/ pc' = [pc EXCEPT ![r] = "done"] /\ UNCHANGED consent
        \/ /\ pc' = [pc EXCEPT ![r] = "put"]
           /\ consent' = [consent EXCEPT ![r] = consent[c]]
           /\ RecordMatches(r)
    BY DEF CheckRecord, Finish, Goto
  <2> QED
    BY <2>1, <1>3, <1>4

\* An event is written by a request that showed an access token.
LEMMA EventStep ==
    ASSUME TypeInv, ProofInv, ProvedConsents \subseteq ProvedConsents',
           NEW r \in Requests, PutEvent(r)
    PROVE  ProofInv'
<1>1. /\ pc[r] = "putEvent" /\ UNCHANGED <<pc, request, took, consent>>
      /\ events' = [events EXCEPT ![request[r].hold] = r]
  BY DEF PutEvent, clientVars
<1>2. \A h \in Holds : (events'[h] = r /\ h = request[r].hold) \/ events'[h] = events[h]
  BY <1>1 DEF TypeInv, TypeOK
<1> QED
  BY <1>1, <1>2 DEF ProofInv

LEMMA ProofInvInductive ==
    ASSUME IInv, LifetimeInv, TypeInv, ProofInv, [Next]_vars
    PROVE  ProofInv'
<1>1. ProvedConsents \subseteq ProvedConsents'
  BY ProvedStays
<1>2. ASSUME NEW r \in Requests, Authorize(r) \/ Token(r) \/ Write(r) PROVE ProofInv'
  BY <1>1, <1>2, StartingStep
<1>3. ASSUME NEW r \in Requests, TakeItem(r) PROVE ProofInv'
  BY <1>1, <1>3, TakingStep
<1>4. ASSUME NEW r \in Requests, CheckRecord(r) PROVE ProofInv'
  BY <1>1, <1>4, ServingStep
<1>5. ASSUME NEW r \in Requests, PutEvent(r) PROVE ProofInv'
  BY <1>1, <1>5, EventStep
<1>6. ASSUME NEW r \in Requests,
             \/ Refuse(r) \/ TakeNothing(r) \/ Answered(r) \/ StoreFails(r)
             \/ PutItem(r) \/ Sweep(r)
      PROVE  ProofInv'
  <2>1. /\ UNCHANGED <<request, consent, events, took>>
        /\ \A q \in Requests : pc'[q] = pc[q] \/ pc'[q] = "done"
    BY <1>6 DEF Refuse, TakeNothing, Answered, StoreFails, PutItem, Sweep, Finish, Goto,
       clientVars, TypeInv, TypeOK
  <2> QED
    BY <1>1, <2>1, EndingStep DEF TypeInv, TypeOK
<1>7. ASSUME Tick \/ UNCHANGED vars PROVE ProofInv'
  <2>1. UNCHANGED <<request, consent, events, took, pc>>
    BY <1>7 DEF Tick, vars, clientVars
  <2> QED
    BY <1>1, <2>1, EndingStep DEF TypeInv, TypeOK
<1> QED
  BY <1>2, <1>3, <1>4, <1>5, <1>6, <1>7 DEF Next

\* However often a credential was rotated, a proved consent is behind it and
\* behind every event.
THEOREM ProvedConsentHolds == Spec => []ProvedConsent
<1>1. Init => ProofInv /\ LifetimeInv
  BY DEF Init, ProofInv, LifetimeInv, Record, GrantKinds
<1>2. ProofInv /\ IInv => ProvedConsent
  BY DEF ProofInv, IInv, TypeOK, PresentsHanded, ProvedConsent, ProvedConsents
<1> QED
  BY <1>1, <1>2, ProofInvInductive, LifetimeInvInductive, LineageInvariant,
     TypeInvariant, PTL DEF Spec

-----------------------------------------------------------------------------

\* What a request knows that the answers are accounted for with.
AccountInv ==
    \A r \in Requests :
        /\ took[r] # "no" => pc[r] # "idle"
        /\ took[r] = "answered" => pc[r] # "take"
        /\ request[r].kind = "write" => request[r].hold \in Holds
        /\ pc[r] = "putEvent" /\ r \in acked => events[request[r].hold] # NoRequest

AnswerInv == AccountInv /\ GrantedIsStored /\ RefusedForAReason

\* What no step undoes.
Stays ==
    /\ now <= now'
    /\ \A q \in Requests :
         /\ pc[q] # "idle" => request'[q] = request[q] /\ pc'[q] # "idle"
         /\ took[q] # "no" => took'[q] # "no"
         /\ pc[q] = "done" => /\ pc'[q] = "done" /\ ttl'[q] = ttl[q]
                              /\ outcome'[q] = outcome[q] /\ took'[q] = took[q]
    /\ \A h \in Holds : events[h] # NoRequest => events'[h] # NoRequest

LEMMA NothingUndone ==
    ASSUME TypeInv, NEW r \in Requests,
           \/ Refuse(r) \/ Authorize(r) \/ Token(r) \/ Write(r)
           \/ TakeItem(r) \/ TakeNothing(r) \/ CheckRecord(r)
           \/ PutItem(r) \/ PutEvent(r) \/ Answered(r) \/ StoreFails(r)
           \/ Sweep(r) \/ Tick \/ UNCHANGED vars
    PROVE  Stays
<1> USE NoRequestAssumption DEF TypeInv, TypeOK, Goto, Finish, clientVars, Stays
<1>1. CASE Refuse(r) \/ TakeNothing(r) \/ Answered(r) \/ StoreFails(r)
  BY <1>1 DEF Refuse, TakeNothing, Answered, StoreFails
<1>3. CASE Authorize(r) \/ Token(r) \/ Write(r)
  <2>1. /\ pc[r] = "idle" /\ UNCHANGED <<now, took, events>>
        /\ \A q \in Requests \ {r} : /\ pc'[q] = pc[q] /\ request'[q] = request[q]
                                     /\ outcome'[q] = outcome[q] /\ ttl'[q] = ttl[q]
    BY <1>3 DEF Authorize, Token, Write
  <2> QED
    BY <2>1
<1>4. CASE TakeItem(r)
  BY <1>4 DEF TakeItem
<1>5. CASE CheckRecord(r)
  <2>1. /\ pc[r] = "check" /\ pc'[r] # "idle" /\ UNCHANGED <<now, events, request, took>>
        /\ \A q \in Requests \ {r} : /\ pc'[q] = pc[q] /\ ttl'[q] = ttl[q]
                                     /\ outcome'[q] = outcome[q]
    BY <1>5 DEF CheckRecord
  <2> QED
    BY <2>1
<1>6. CASE PutEvent(r)
  <2>1. /\ UNCHANGED <<now, pc, outcome, ttl, request, took>>
        /\ events' = [events EXCEPT ![request[r].hold] = r]
    BY <1>6 DEF PutEvent
  <2> QED
    BY <2>1
<1>7. CASE PutItem(r) \/ Sweep(r) \/ Tick \/ UNCHANGED vars
  BY <1>7 DEF PutItem, Sweep, Tick, vars
<1> QED
  BY <1>1, <1>3, <1>4, <1>5, <1>6, <1>7

LEMMA NothingUndoneByNext ==
    ASSUME TypeInv, [Next]_vars
    PROVE  Stays
<1>1. CASE \E r \in Requests : TRUE
  <2>1. PICK r \in Requests : TRUE
    BY <1>1
  <2> QED
    BY <2>1, NothingUndone DEF Next
<1>2. CASE Requests = {}
  BY <1>2, NothingUndone DEF Next, Tick, vars, clientVars, Stays, TypeInv, TypeOK
<1> QED
  BY <1>1, <1>2

\* An item leaves the table when a request takes it or its lifetime is over.
LEMMA LeavesTable ==
    ASSUME TypeInv, [Next]_vars, NEW c \in table, c \notin table'
    PROVE  \/ ttl[c] < now
           \/ \E q \in Requests : pc[q] = "take" /\ request[q].of = c /\ took'[q] # "no"
<1> USE DEF TypeInv, TypeOK
<1>1. ASSUME NEW r \in Requests, TakeItem(r)
      PROVE  pc[r] = "take" /\ request[r].of = c /\ took'[r] # "no"
  BY <1>1 DEF TakeItem, Removed
<1>2. ASSUME NEW r \in Requests, Sweep(r)
      PROVE  ttl[c] < now
  BY <1>2 DEF Sweep
<1>3. ASSUME NEW r \in Requests,
             \/ Refuse(r) \/ Authorize(r) \/ Token(r) \/ Write(r) \/ TakeNothing(r)
             \/ CheckRecord(r) \/ PutItem(r) \/ PutEvent(r) \/ Answered(r) \/ StoreFails(r)
      PROVE  FALSE
  BY <1>3 DEF Refuse, Authorize, Token, Write, TakeNothing, CheckRecord, PutItem, PutEvent,
     Answered, StoreFails
<1>4. ASSUME Tick \/ UNCHANGED vars PROVE FALSE
  BY <1>4 DEF Tick, vars
<1> QED
  BY <1>1, <1>2, <1>3, <1>4 DEF Next

LEMMA AccountInvInductive ==
    ASSUME IInv, TypeInv, AccountInv, [Next]_vars
    PROVE  AccountInv'
<1> USE NoRequestAssumption DEF TypeInv, TypeOK, Goto, Finish, clientVars, AccountInv
<1>0. \A q \in Requests : pc[q] = "putEvent" => request[q].kind = "write"
  BY DEF IInv, InOrder
<1>1. ASSUME NEW r \in Requests, Refuse(r) \/ TakeNothing(r) \/ Answered(r) \/ StoreFails(r)
      PROVE  AccountInv'
  BY <1>1 DEF Refuse, TakeNothing, Answered, StoreFails
<1>2. ASSUME NEW r \in Requests, Authorize(r) PROVE AccountInv'
  BY <1>2 DEF Authorize, Record
<1>3. ASSUME NEW r \in Requests, Token(r) PROVE AccountInv'
  BY <1>3 DEF Token, Record, GrantKinds
<1>4. ASSUME NEW r \in Requests, Write(r) PROVE AccountInv'
  <2>1. PICK a \in Requests, h \in Holds :
           request' = [request EXCEPT ![r] = Record("write", a, FALSE, h)]
    BY <1>4 DEF Write
  <2>2. request'[r].hold = h /\ \A q \in Requests \ {r} : request'[q] = request[q]
    BY <2>1 DEF Record
  <2>3. /\ pc[r] = "idle" /\ pc'[r] \in {"putEvent", "done"} /\ UNCHANGED <<events, acked, took>>
        /\ \A q \in Requests \ {r} : pc'[q] = pc[q]
        /\ r \notin acked
    BY <1>4 DEF Write, IInv, InOrder
  <2> QED
    BY <2>2, <2>3
<1>5. ASSUME NEW r \in Requests, TakeItem(r) PROVE AccountInv'
  BY <1>5 DEF TakeItem
<1>6. ASSUME NEW r \in Requests, CheckRecord(r) PROVE AccountInv'
  <2>1. pc[r] = "check" /\ UNCHANGED <<events, acked, took, request>>
        /\ pc'[r] \in {"put", "done"} /\ \A q \in Requests \ {r} : pc'[q] = pc[q]
    BY <1>6, CheckRecordCases
  <2> QED
    BY <2>1
<1>7. ASSUME NEW r \in Requests, PutItem(r) PROVE AccountInv'
  BY <1>7 DEF PutItem
<1>8. ASSUME NEW r \in Requests, PutEvent(r) PROVE AccountInv'
  <2>1. /\ pc[r] = "putEvent" /\ UNCHANGED <<pc, request, took>>
        /\ acked' = acked \cup {r}
        /\ events' = [events EXCEPT ![request[r].hold] = r]
        /\ request[r].hold \in Holds
    BY <1>0, <1>8 DEF PutEvent
  <2>2. \A h \in Holds : events'[h] = (IF h = request[r].hold THEN r ELSE events[h])
    BY <2>1
  <2> QED
    BY <1>0, <2>1, <2>2
<1>9. ASSUME NEW r \in Requests, Sweep(r) PROVE AccountInv'
  BY <1>9 DEF Sweep
<1>10. CASE Tick \/ UNCHANGED vars
  BY <1>10 DEF Tick, vars
<1> QED
  BY <1>1, <1>2, <1>3, <1>4, <1>5, <1>6, <1>7, <1>8, <1>9, <1>10 DEF Next

\* Who is granted something was answered.
LEMMA GrantedAnew ==
    ASSUME TypeInv, [Next]_vars, NEW r \in Requests,
           outcome[r] # "granted", outcome'[r] = "granted"
    PROVE  Answered(r)
<1> USE DEF TypeInv, TypeOK, Goto, Finish
<1>1. ASSUME NEW q \in Requests,
             \/ Refuse(q) \/ Authorize(q) \/ Token(q) \/ Write(q) \/ TakeItem(q) \/ TakeNothing(q)
             \/ CheckRecord(q) \/ PutItem(q) \/ PutEvent(q) \/ StoreFails(q) \/ Sweep(q)
      PROVE  FALSE
  BY <1>1 DEF Refuse, Authorize, Token, Write, TakeItem, TakeNothing, CheckRecord, PutItem,
     PutEvent, StoreFails, Sweep
<1>2. ASSUME NEW q \in Requests, Answered(q)
      PROVE  q = r
  BY <1>2 DEF Answered
<1>3. ASSUME Tick \/ UNCHANGED vars PROVE FALSE
  BY <1>3 DEF Tick, vars
<1> QED
  BY <1>1, <1>2, <1>3 DEF Next

LEMMA GrantedIsStoredKept ==
    ASSUME IInv, TypeInv, TypeInv', AnswerInv, [Next]_vars
    PROVE  GrantedIsStored'
<1> SUFFICES ASSUME NEW r \in Requests, outcome'[r] = "granted"
             PROVE  IF request'[r].kind = "write"
                    THEN events'[request'[r].hold] # NoRequest
                    ELSE \/ r \in table'
                         \/ ttl'[r] < now'
                         \/ \E q \in Requests : request'[q].of = r /\ took'[q] # "no"
  BY DEF GrantedIsStored
<1>1. Stays /\ now \in Nat /\ now' \in Nat /\ ttl[r] \in Nat
  BY NothingUndoneByNext DEF TypeInv, TypeOK
<1>2. CASE outcome[r] = "granted"
  <2>1. /\ pc[r] = "done" /\ request'[r] = request[r] /\ ttl'[r] = ttl[r]
    BY <1>1, <1>2 DEF Stays, IInv, InOrder
  <2>2. CASE request[r].kind = "write"
    <3>1. events[request[r].hold] # NoRequest /\ request[r].hold \in Holds
      BY <1>2, <2>2 DEF AnswerInv, AccountInv, GrantedIsStored
    <3> QED
      BY <1>1, <2>1, <2>2, <3>1 DEF Stays
  <2>3. CASE request[r].kind # "write" /\ r \in table
    <3>1. r \in table' \/ ttl[r] < now
             \/ \E q \in Requests : pc[q] = "take" /\ request[q].of = r /\ took'[q] # "no"
      BY <2>3, LeavesTable
    <3>2. ASSUME NEW q \in Requests, pc[q] = "take", request[q].of = r, took'[q] # "no"
          PROVE  request'[q].of = r /\ took'[q] # "no"
      BY <1>1, <3>2 DEF Stays
    <3> QED
      BY <1>1, <2>1, <2>3, <3>1, <3>2 DEF Stays
  <2>4. CASE request[r].kind # "write" /\ ttl[r] < now
    BY <1>1, <2>1, <2>4 DEF Stays
  <2>5. ASSUME request[r].kind # "write", NEW q \in Requests, request[q].of = r, took[q] # "no"
        PROVE  request'[q].of = r /\ took'[q] # "no"
    BY <1>1, <2>5 DEF Stays, AnswerInv, AccountInv
  <2>6. \/ request[r].kind = "write" \/ r \in table \/ ttl[r] < now
        \/ \E q \in Requests : request[q].of = r /\ took[q] # "no"
    BY <1>2 DEF AnswerInv, GrantedIsStored
  <2> QED
    BY <2>1, <2>2, <2>3, <2>4, <2>5, <2>6
<1>3. CASE outcome[r] # "granted"
  <2>1. Answered(r)
    BY <1>3, GrantedAnew
  <2>2. r \in acked /\ UNCHANGED <<table, events, request>> /\ pc[r] \in {"put", "putEvent"}
    BY <2>1 DEF Answered, Acked, clientVars
  <2>3. CASE pc[r] = "put"
    <3>1. r \in table /\ request[r].kind # "write"
      BY <2>2, <2>3 DEF IInv, InOrder, PresentsHanded, CredentialKinds, GrantKinds
    <3> QED
      BY <2>2, <3>1
  <2>4. CASE pc[r] = "putEvent"
    BY <2>2, <2>4 DEF AnswerInv, AccountInv, IInv, InOrder
  <2> QED
    BY <2>2, <2>3, <2>4
<1> QED
  BY <1>2, <1>3

\* Who is refused a token found nothing, or what it found would not do.
LEMMA RefusedAnew ==
    ASSUME IInv, TypeInv, [Next]_vars, NEW r \in Requests,
           outcome[r] # "refused", outcome'[r] = "refused", request'[r].kind \in GrantKinds
    PROVE  TakeNothing(r) \/ CheckRecord(r)
<1> USE DEF TypeInv, TypeOK, Goto, Finish
<1>1. ASSUME NEW q \in Requests,
             \/ Authorize(q) \/ Token(q) \/ TakeItem(q) \/ PutItem(q) \/ PutEvent(q)
             \/ Answered(q) \/ StoreFails(q) \/ Sweep(q)
      PROVE  FALSE
  BY <1>1 DEF Authorize, Token, TakeItem, PutItem, PutEvent, Answered, StoreFails, Sweep
<1>2. ASSUME NEW q \in Requests, Refuse(q) PROVE FALSE
  <2>1. q = r /\ pc[r] = "idle" /\ request' = request
    BY <1>2 DEF Refuse, clientVars
  <2> QED
    BY <2>1 DEF IInv, InOrder, GrantKinds
<1>3. ASSUME NEW q \in Requests, Write(q) PROVE FALSE
  <2>1. q = r
    BY <1>3 DEF Write
  <2>2. request'[r].kind = "write"
    BY <1>3, <2>1 DEF Write, Record
  <2> QED
    BY <2>2 DEF GrantKinds
<1>4. ASSUME NEW q \in Requests, TakeNothing(q) \/ CheckRecord(q)
      PROVE  q = r
  BY <1>4 DEF TakeNothing, CheckRecord
<1>5. ASSUME Tick \/ UNCHANGED vars PROVE FALSE
  BY <1>5 DEF Tick, vars
<1> QED
  BY <1>1, <1>2, <1>3, <1>4, <1>5 DEF Next

Reason(r) ==
    \/ request[r].kind = "exchange" /\ ~request[r].proof
    \/ OfWrongKind(r)
    \/ ttl[request[r].of] < now
    \/ TakenByAnother(r)
    \/ took[r] = "unanswered"

\* A reason stays one.
LEMMA ReasonStays ==
    ASSUME IInv, TypeInv, AccountInv, Stays, now' \in Nat, NEW r \in Requests,
           request[r].kind \in GrantKinds, pc[r] # "idle", took'[r] = took[r], Reason(r)
    PROVE  Reason(r)'
<1> DEFINE c == request[r].of
<1>1. c \in Requests /\ pc[c] = "done"
  BY PresentedIsDone
<1>2. /\ request'[r] = request[r] /\ request'[c] = request[c] /\ ttl'[c] = ttl[c]
      /\ now \in Nat /\ ttl[c] \in Nat /\ now <= now'
  BY <1>1 DEF Stays, TypeInv, TypeOK
<1>3. TakenByAnother(r) => TakenByAnother(r)'
  BY <1>2 DEF TakenByAnother, Stays, AccountInv
<1> QED
  BY <1>2, <1>3 DEF Reason, OfWrongKind

LEMMA RefusedForAReasonKept ==
    ASSUME IInv, TypeInv, TypeInv', AnswerInv, [Next]_vars
    PROVE  RefusedForAReason'
<1> SUFFICES ASSUME NEW r \in Requests, request'[r].kind \in GrantKinds, outcome'[r] = "refused"
             PROVE  Reason(r)'
  BY DEF RefusedForAReason, Reason
<1>1. Stays /\ now' \in Nat
  BY NothingUndoneByNext DEF TypeInv, TypeOK
<1>2. CASE outcome[r] = "refused"
  <2>1. pc[r] = "done"
    BY <1>2 DEF IInv, InOrder
  <2>2. request'[r] = request[r] /\ took'[r] = took[r]
    BY <1>1, <2>1 DEF Stays
  <2>3. Reason(r)
    BY <1>2, <2>2 DEF AnswerInv, RefusedForAReason, Reason
  <2> QED
    BY <1>1, <2>1, <2>2, <2>3, ReasonStays DEF AnswerInv
<1>3. CASE outcome[r] # "refused"
  <2> DEFINE c == request[r].of
  <2>1. CASE TakeNothing(r)
    <3>1. pc[r] = "take" /\ ~Stored(r) /\ UNCHANGED <<request, took>>
      BY <2>1 DEF TakeNothing, clientVars
    <3>2. /\ request[r].kind \in GrantKinds /\ c \in Requests
          /\ Handed(c) /\ outcome[c] = "granted" /\ request[c].kind # "write"
      BY <3>1 DEF IInv, InOrder, PresentsHanded, Handed
    <3>3. ASSUME c \notin table PROVE Reason(r)
      <4>1. CASE ttl[c] < now
        BY <4>1 DEF Reason
      <4>2. ASSUME NEW q \in Requests, request[q].of = c, took[q] # "no"
            PROVE  Reason(r)
        <5>1. CASE q = r
          BY <3>1, <4>2, <5>1 DEF AnswerInv, AccountInv, TypeInv, TypeOK, Reason
        <5>2. CASE q # r
          BY <4>2, <5>2 DEF Reason, TakenByAnother
        <5> QED
          BY <5>1, <5>2
      <4> QED
        BY <3>2, <3>3, <4>1, <4>2 DEF AnswerInv, GrantedIsStored
    <3>4. ASSUME c \in table PROVE Reason(r)
      BY <3>1, <3>4 DEF Stored, Reason, OfWrongKind
    <3>5. Reason(r)
      BY <3>3, <3>4
    <3> QED
      BY <1>1, <3>1, <3>2, <3>5, ReasonStays DEF AnswerInv
  <2>2. CASE CheckRecord(r)
    <3>1. pc[r] = "check" /\ request[r].kind \in GrantKinds /\ took'[r] = took[r]
      BY <2>2, CheckRecordCases DEF IInv, InOrder
    <3>2. IsExpired(c) \/ ~RecordMatches(r)
      BY <1>3, <2>2 DEF CheckRecord
    <3>3. Reason(r)
      BY <3>2 DEF IsExpired, RecordMatches, Reason
    <3> QED
      BY <1>1, <3>1, <3>3, ReasonStays DEF AnswerInv
  <2> QED
    BY <1>3, <2>1, <2>2, RefusedAnew
<1> QED
  BY <1>2, <1>3

LEMMA AnswersAccountedFor == Spec => []AnswerInv
<1>1. Init => AnswerInv
  BY DEF Init, AnswerInv, AccountInv, GrantedIsStored, RefusedForAReason, Record
<1>2. IInv /\ TypeInv /\ TypeInv' /\ AnswerInv /\ [Next]_vars => AnswerInv'
  BY AccountInvInductive, GrantedIsStoredKept, RefusedForAReasonKept DEF AnswerInv
<1> QED
  BY <1>1, <1>2, LineageInvariant, TypeInvariant, PTL DEF Spec

\* A refused token request has a reason (handleAuthorizationCodeGrant,
\* handleRefreshTokenGrant).
THEOREM RefusedForAReasonHolds == Spec => []RefusedForAReason
  BY AnswersAccountedFor, PTL DEF AnswerInv

\* What a client was told is so (issueTokenResponse, handleWriteEvent).
THEOREM GrantedIsStoredHolds == Spec => []GrantedIsStored
  BY AnswersAccountedFor, PTL DEF AnswerInv
=============================================================================
