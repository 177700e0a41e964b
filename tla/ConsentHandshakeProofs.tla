----------------------- MODULE ConsentHandshakeProofs -----------------------
(***************************************************************************)
(* What the page and the calendar promise together, for any number of      *)
(* requests, Callers, holds and sessions.  The invariant has three parts:  *)
(* what the page knows of the requests of its chats, what the calendar     *)
(* call of each request has established by each await, and the link        *)
(* between the two, that a turn acts for the Caller whose token it bore.   *)
(***************************************************************************)
EXTENDS ConsentHandshake, TLAPS

\* The page: the chat on it is newer than every chat that was left, and its
\* requests bear the token of the Caller who is signed in.
Page ==
    /\ storedToken = accessToken
    /\ login = "signing-in" => signingIn \in Callers /\ accessToken = NoCaller
    /\ mount <= sessionId
    /\ \A r \in Requests : flight[r] # "unsent" =>
          /\ sent[r].caller \in Callers
          /\ sent[r].mount <= mount
          /\ accessToken # NoCaller /\ sent[r].mount = mount =>
                sent[r].caller = accessToken
    /\ reply \in Requests => flight[reply] # "unsent" /\ sent[reply].mount = mount

\* The calendar: by the POST the credential is the Caller's own, and it was the
\* Caller who approved; the table holds one event for each hold written for.
Writes ==
    /\ \A r \in Requests :
          /\ pc[r] = "none" => r \notin posted
          /\ pc[r] \in {"none", "identity", "calendar"} => result[r] = "none"
          /\ pc[r] = "identity" => caller[r] \in Callers
          /\ r \in posted =>
                /\ pc[r] \in {"calendar", "done"}
                /\ caller[r] \in Callers
                /\ identity[r] = caller[r]
                /\ approver[caller[r]] = caller[r]
          /\ pc[r] = "calendar" => r \in posted
          /\ result[r] = "ConsentRequired" =>
                pc[r] = "done" /\ identity[r] = caller[r] /\ caller[r] \in Callers
          /\ result[r] = "written" => r \in landed
          /\ r \in landed => r \in posted /\ \E q \in events : hold[q] = hold[r]
    /\ \A c \in vault : approver[c] = c
    /\ events \subseteq landed
    /\ \A p, q \in events : hold[p] = hold[q] => p = q

\* The turn of a request acts for the Caller who sent it.
Turns ==
    \A r \in Requests :
        /\ turn[r] # "none" => flight[r] # "unsent"
        /\ pc[r] # "none" => turn[r] # "none" /\ caller[r] = sent[r].caller

PageInv == UI!TypeOK /\ Page /\ SendNeverWedged
WritesInv == Calendar!TypeOK /\ Writes
TurnsInv == turn \in [Requests -> {"none", "running", "over"}] /\ Turns
IInv == PageInv /\ WritesInv /\ TurnsInv

-----------------------------------------------------------------------------
(* The page.                                                               *)

\* What a step of the page never does: a request that has been sent stays
\* sent, and stays what it was.
SentStays ==
    \A r \in Requests : flight[r] # "unsent" =>
        flight'[r] # "unsent" /\ sent'[r] = sent[r]

LEMMA SignInKeeps ==
  ASSUME PageInv, NEW c \in Callers, UI!SignIn(c)
  PROVE  PageInv' /\ SentStays
  BY DEF PageInv, UI!SignIn, UI!SignedIn, UI!chatVars, UI!TypeOK, Page, SendNeverWedged,
         UI!SendNeverWedged, SentStays

\* A chat that enters the page is newer than whatever was sent before.
LEMMA MountIsNew ==
  ASSUME PageInv, UI!MountChat,
         storedToken' = accessToken', accessToken' \in Callers,
         login' = "idle", signingIn' = NoCaller,
         flight' \in [Requests -> {"unsent", "inFlight", "settled", "dropped"}],
         \A r \in Requests : flight'[r] = "unsent" <=> flight[r] = "unsent",
         sent' = sent
  PROVE  PageInv' /\ SentStays
<1> USE NoneAssumption, MaxSessionsAssumption DEF PageInv, UI!MountChat
<1>0. sessionId \in 0..MaxSessions /\ mount \in 0..MaxSessions /\ mount <= sessionId
  BY DEF UI!TypeOK, UI!SessionIds, Page
<1>1. UI!TypeOK'
  BY <1>0 DEF UI!TypeOK, UI!SessionIds
<1>2. \A r \in Requests : flight[r] # "unsent" =>
          sent[r].caller \in Callers /\ sent[r].mount <= mount /\ sent[r].mount \in 0..MaxSessions
  BY DEF UI!TypeOK, UI!SessionIds, Page
<1>3. Page'
  BY <1>0, <1>2 DEF Page
<1>4. SendNeverWedged' /\ SentStays
  BY DEF SendNeverWedged, UI!SendNeverWedged, SentStays
<1> QED
  BY <1>1, <1>3, <1>4

LEMMA SignInEndsKeeps ==
  ASSUME PageInv, UI!SignInEnds
  PROVE  PageInv' /\ SentStays
<1>1. CASE UI!MountChat /\ storedToken' = signingIn /\ accessToken' = signingIn /\ login' = "idle"
  <2>1. signingIn \in Callers /\ signingIn' = NoCaller /\ UNCHANGED <<flight, sent>>
    BY DEF UI!SignInEnds, PageInv, Page
  <2> QED
    BY <1>1, <2>1, MountIsNew DEF PageInv, UI!TypeOK
<1>2. CASE login' = "error" /\ UNCHANGED <<storedToken, accessToken, mount, sessionId, reply, status>>
  BY <1>2 DEF PageInv, UI!SignInEnds, UI!TypeOK, Page, SendNeverWedged, UI!SendNeverWedged,
              SentStays, UI!SignedIn
<1> QED
  BY <1>1, <1>2 DEF UI!SignInEnds, UI!chatVars

LEMMA SendKeeps ==
  ASSUME PageInv, NEW r \in Requests, UI!Send(r)
  PROVE  PageInv' /\ SentStays
<1> DEFINE carried == [caller |-> accessToken, session |-> sessionId, mount |-> mount]
<1>1. /\ accessToken # NoCaller /\ flight[r] = "unsent"
      /\ flight' = [flight EXCEPT ![r] = "inFlight"]
      /\ sent' = [sent EXCEPT ![r] = carried]
      /\ status' = "sending"
      /\ UNCHANGED <<storedToken, accessToken, login, signingIn, mount, sessionId, reply>>
  BY DEF UI!Send, UI!SignedIn, UI!Sent, UI!formVars
<1>2. /\ carried.caller = accessToken /\ carried.mount = mount /\ accessToken \in Callers
      /\ carried \in [caller : Callers \cup {NoCaller}, session : 0..MaxSessions,
                      mount : 0..MaxSessions]
      /\ mount <= mount
  BY <1>1, MaxSessionsAssumption DEF PageInv, UI!TypeOK, UI!SessionIds
<1> HIDE DEF carried
<1> USE DEF PageInv
<1>3. UI!TypeOK'
  BY <1>1, <1>2 DEF UI!TypeOK, UI!SessionIds
<1>4. Page'
  BY <1>1, <1>2 DEF UI!TypeOK, Page
<1>5. SendNeverWedged'
  BY <1>1, <1>2 DEF UI!TypeOK, SendNeverWedged, UI!SendNeverWedged
<1>6. SentStays
  BY <1>1 DEF UI!TypeOK, SentStays
<1> QED
  BY <1>3, <1>4, <1>5, <1>6

\* A late answer changes nothing in a chat that is not its own.
LEMMA AnsweredKeeps ==
  ASSUME PageInv, NEW r \in Requests, NEW answer, UI!Answered(r, answer)
  PROVE  PageInv' /\ SentStays
<1> USE NoneAssumption DEF PageInv
<1>1. /\ flight[r] = "inFlight"
      /\ flight' = [flight EXCEPT ![r] = "settled"]
      /\ UNCHANGED <<login, signingIn, sent, mount, sessionId>>
  BY DEF UI!Answered, UI!formVars, UI!chatVars, UI!ShowReply, UI!ShowError
<1>2. \/ accessToken' = NoCaller /\ storedToken' = NoCaller
      \/ UNCHANGED <<storedToken, accessToken>>
  BY DEF UI!Answered, UI!DropToken
<1>3. \/ /\ accessToken # NoCaller /\ sent[r].mount = mount
         /\ status' \in {"idle", "error"}
         /\ reply' \in {r, reply}
      \/ /\ ~(accessToken # NoCaller /\ sent[r].mount = mount)
         /\ UNCHANGED <<reply, status>>
  BY DEF UI!Answered, UI!InChat, UI!SignedIn, UI!chatVars, UI!ShowReply, UI!ShowError
<1>4. UI!TypeOK'
  BY <1>1, <1>2, <1>3 DEF UI!TypeOK
<1>5. Page'
  BY <1>1, <1>2, <1>3 DEF UI!TypeOK, Page
<1>6. SendNeverWedged'
  BY <1>1, <1>2, <1>3 DEF UI!TypeOK, SendNeverWedged, UI!SendNeverWedged, UI!SignedIn
<1>7. SentStays
  BY <1>1 DEF UI!TypeOK, SentStays
<1> QED
  BY <1>4, <1>5, <1>6, <1>7

LEMMA NewSessionKeeps ==
  ASSUME PageInv, UI!NewSession
  PROVE  PageInv' /\ SentStays
  BY NoneAssumption, MaxSessionsAssumption
     DEF PageInv, UI!NewSession, UI!SignedIn, UI!formVars, UI!TypeOK, UI!SessionIds, Page,
         SendNeverWedged, UI!SendNeverWedged, SentStays

LEMMA SignOutKeeps ==
  ASSUME PageInv, UI!SignOut
  PROVE  PageInv' /\ SentStays
  BY DEF PageInv, UI!SignOut, UI!SignedIn, UI!DropToken, UI!formVars, UI!chatVars, UI!TypeOK,
         Page, SendNeverWedged, UI!SendNeverWedged, SentStays

LEMMA ReloadKeeps ==
  ASSUME PageInv, UI!Reload
  PROVE  PageInv' /\ SentStays
<1>1. /\ accessToken' = storedToken /\ login' = "idle" /\ signingIn' = NoCaller
      /\ flight' = [r \in Requests |-> IF flight[r] = "inFlight" THEN "dropped" ELSE flight[r]]
      /\ UNCHANGED <<storedToken, sent>>
  BY DEF UI!Reload
<1>2. /\ flight' \in [Requests -> {"unsent", "inFlight", "settled", "dropped"}]
      /\ \A r \in Requests : flight'[r] = "unsent" <=> flight[r] = "unsent"
  BY <1>1 DEF PageInv, UI!TypeOK
<1>3. CASE storedToken # NoCaller /\ UI!MountChat
  BY <1>1, <1>2, <1>3, MountIsNew DEF PageInv, UI!TypeOK
<1>4. CASE storedToken = NoCaller /\ UNCHANGED <<mount, sessionId, reply, status>>
  BY <1>1, <1>2, <1>4 DEF PageInv, UI!TypeOK, Page, SendNeverWedged, UI!SendNeverWedged,
                          UI!SignedIn, SentStays
<1> QED
  BY <1>3, <1>4 DEF UI!Reload, UI!chatVars

LEMMA PageStepKeeps ==
  ASSUME PageInv,
         \/ UI!Use \/ UI!SignInEnds
         \/ \E r \in Requests, answer \in {"reply", "unauthorized", "failed"} : UI!Answered(r, answer)
  PROVE  PageInv' /\ SentStays
  BY SignInKeeps, SignInEndsKeeps, SendKeeps, AnsweredKeeps, NewSessionKeeps, SignOutKeeps,
     ReloadKeeps DEF UI!Use

LEMMA PageRests ==
  ASSUME PageInv, UNCHANGED uiVars
  PROVE  PageInv' /\ SentStays
  BY DEF uiVars, PageInv, UI!TypeOK, Page, SendNeverWedged, UI!SendNeverWedged, UI!SignedIn,
         SentStays

-----------------------------------------------------------------------------
(* The calendar.                                                           *)

\* What a step of a call that is under way never does.
CallersStay ==
    \A r \in Requests : /\ pc[r] # "none" => pc'[r] # "none" /\ caller'[r] = caller[r]
                        /\ pc[r] = "none" => pc'[r] = "none"

LEMMA ExecuteKeeps ==
  ASSUME WritesInv, NEW r \in Requests, NEW c \in Callers, Calendar!Execute(r, c)
  PROVE  /\ WritesInv'
         /\ pc'[r] # "none" /\ caller'[r] = c
         /\ \A q \in Requests \ {r} : pc'[q] = pc[q] /\ caller'[q] = caller[q]
<1> USE DEF WritesInv
<1>1. /\ pc[r] = "none"
      /\ caller' = [caller EXCEPT ![r] = c]
      /\ UNCHANGED <<identity, vault, approver, posted, landed, events>>
  BY DEF Calendar!Execute, Calendar!calendarVars
<1>2. \/ /\ pc' = [pc EXCEPT ![r] = "done"] /\ result' = [result EXCEPT ![r] = "invalid"]
         /\ hold' = hold
      \/ /\ \E h \in Holds : hold' = [hold EXCEPT ![r] = h]
         /\ pc' = [pc EXCEPT ![r] = "identity"]
         /\ result' = result
  BY DEF Calendar!Execute, Calendar!Finish
<1>3. r \notin posted /\ r \notin landed /\ result[r] = "none"
  BY <1>1 DEF Writes
<1>4. /\ Calendar!TypeOK'
      /\ pc'[r] # "none" /\ caller'[r] = c
      /\ \A q \in Requests \ {r} : pc'[q] = pc[q] /\ caller'[q] = caller[q]
  BY <1>1, <1>2 DEF Calendar!TypeOK, Calendar!Results
<1>5. Writes'
  <2>1. CASE hold' = hold /\ pc' = [pc EXCEPT ![r] = "done"]
                /\ result' = [result EXCEPT ![r] = "invalid"]
    BY <1>1, <1>3, <2>1 DEF Calendar!TypeOK, Writes
  <2>2. ASSUME NEW h \in Holds, hold' = [hold EXCEPT ![r] = h],
               pc' = [pc EXCEPT ![r] = "identity"], result' = result
        PROVE  Writes'
    BY <1>1, <1>3, <2>2 DEF Calendar!TypeOK, Writes
  <2> QED
    BY <1>2, <2>1, <2>2
<1> QED
  BY <1>4, <1>5

LEMMA IdentityUnavailableKeeps ==
  ASSUME WritesInv, NEW r \in Requests, Calendar!IdentityUnavailable(r)
  PROVE  WritesInv' /\ CallersStay
  BY DEF WritesInv, CallersStay, Calendar!IdentityUnavailable, Calendar!Finish,
         Calendar!calendarVars, Calendar!TypeOK, Calendar!Results, Writes

\* Identity answers for the Caller whose invocation it is.
LEMMA ConsentRequiredKeeps ==
  ASSUME WritesInv, NEW r \in Requests, Calendar!ConsentRequired(r)
  PROVE  WritesInv' /\ CallersStay
<1> USE DEF WritesInv
<1>1. /\ pc[r] = "identity"
      /\ identity' = [identity EXCEPT ![r] = caller[r]]
      /\ pc' = [pc EXCEPT ![r] = "done"]
      /\ result' = [result EXCEPT ![r] = "ConsentRequired"]
      /\ UNCHANGED <<caller, hold, vault, approver, posted, landed, events>>
  BY DEF Calendar!ConsentRequired, Calendar!WorkloadIdentity, Calendar!Finish,
         Calendar!calendarVars
<1>2. caller[r] \in Callers /\ r \notin posted /\ r \notin landed
  BY <1>1 DEF Writes
<1>3. Calendar!TypeOK' /\ CallersStay
  BY <1>1, <1>2 DEF Calendar!TypeOK, Calendar!Results, CallersStay
<1>4. Writes'
  BY <1>1, <1>2 DEF Calendar!TypeOK, Writes
<1> QED
  BY <1>3, <1>4

\* A token is had only for a Caller who has approved.
LEMMA TokenObtainedKeeps ==
  ASSUME WritesInv, NEW r \in Requests, Calendar!TokenObtained(r)
  PROVE  WritesInv' /\ CallersStay
<1> USE DEF WritesInv
<1>1. /\ pc[r] = "identity"
      /\ caller[r] \in vault
      /\ identity' = [identity EXCEPT ![r] = caller[r]]
      /\ pc' = [pc EXCEPT ![r] = "calendar"]
      /\ posted' = posted \cup {r}
      /\ UNCHANGED <<caller, hold, result, vault, approver, landed, events>>
  BY DEF Calendar!TokenObtained, Calendar!WorkloadIdentity, Calendar!calendarVars
<1>2. /\ caller[r] \in Callers /\ r \notin landed /\ result[r] = "none"
      /\ approver[caller[r]] = caller[r]
  BY <1>1 DEF Writes
<1>3. Calendar!TypeOK' /\ CallersStay
  BY <1>1, <1>2 DEF Calendar!TypeOK, CallersStay
<1>4. Writes'
  BY <1>1, <1>2 DEF Calendar!TypeOK, Writes
<1> QED
  BY <1>3, <1>4

LEMMA CalendarAnsweredKeeps ==
  ASSUME WritesInv, NEW r \in Requests, Calendar!CalendarAnswered(r)
  PROVE  WritesInv' /\ CallersStay
<1> USE DEF WritesInv
<1>1. /\ pc[r] = "calendar"
      /\ pc' = [pc EXCEPT ![r] = "done"]
      /\ \/ r \in landed /\ result' = [result EXCEPT ![r] = "written"]
         \/ result' = [result EXCEPT ![r] = "CalendarUnavailable"]
      /\ UNCHANGED <<caller, hold, identity, vault, approver, posted, landed, events>>
  BY DEF Calendar!CalendarAnswered, Calendar!ResultOf, Calendar!Finish, Calendar!calendarVars
<1>2. Calendar!TypeOK' /\ CallersStay
  BY <1>1 DEF Calendar!TypeOK, Calendar!Results, CallersStay
<1>3. Writes'
  BY <1>1 DEF Calendar!TypeOK, Writes
<1> QED
  BY <1>2, <1>3

\* The event replaces one for the same hold, and no other.
LEMMA EventLandsKeeps ==
  ASSUME WritesInv, NEW r \in Requests, Calendar!EventLands(r)
  PROVE  WritesInv' /\ CallersStay
<1> USE DEF WritesInv
<1>1. /\ r \in posted
      /\ landed' = landed \cup {r}
      /\ events' = {q \in events : hold[q] # hold[r]} \cup {r}
      /\ UNCHANGED <<pc, caller, hold, identity, result, vault, approver, posted>>
  BY DEF Calendar!EventLands, Calendar!EventKey, Calendar!callVars
<1>2. Calendar!TypeOK' /\ CallersStay
  BY <1>1 DEF Calendar!TypeOK, CallersStay
<1>3. /\ events' \subseteq landed'
      /\ \A p, q \in events' : hold[p] = hold[q] => p = q
  BY <1>1 DEF Writes
<1>4. ASSUME NEW p \in landed'
      PROVE  p \in posted /\ \E q \in events' : hold[q] = hold[p]
  <2>1. CASE hold[p] = hold[r]
    BY <1>1, <2>1 DEF Calendar!TypeOK, Writes
  <2>2. CASE hold[p] # hold[r]
    <3>1. p \in landed /\ p \in Requests
      BY <1>1, <2>2 DEF Calendar!TypeOK
    <3>2. PICK q \in events : hold[q] = hold[p]
      BY <3>1 DEF Writes
    <3> QED
      BY <1>1, <2>2, <3>1, <3>2 DEF Writes
  <2> QED
    BY <2>1, <2>2
<1>5. Writes'
  <2>1. \A p \in Requests : p \in landed' \/ result[p] # "written"
    BY <1>1 DEF Writes
  <2>2. events' \subseteq landed' /\ \A p, q \in events' : hold'[p] = hold'[q] => p = q
    BY <1>1, <1>3
  <2>3. \A p \in landed' : p \in posted' /\ \E q \in events' : hold'[q] = hold'[p]
    BY <1>1, <1>4
  <2> QED
    BY <1>1, <2>1, <2>2, <2>3 DEF Writes
<1> QED
  BY <1>2, <1>5

\* An approval by the Caller the URL was made for changes nobody's approver.
LEMMA ApproveKeeps ==
  ASSUME WritesInv, NEW r \in Requests, Calendar!Approve(r, caller[r])
  PROVE  WritesInv' /\ CallersStay
<1> USE DEF WritesInv
<1>1. /\ result[r] = "ConsentRequired"
      /\ vault' = vault \cup {identity[r]}
      /\ approver' = [approver EXCEPT ![identity[r]] = caller[r]]
      /\ UNCHANGED <<pc, caller, hold, identity, result, posted, landed, events>>
  BY DEF Calendar!Approve, Calendar!callVars, Calendar!calendarVars
<1>2. identity[r] = caller[r] /\ caller[r] \in Callers
  BY <1>1 DEF Writes
<1>3. Calendar!TypeOK' /\ CallersStay
  BY <1>1, <1>2 DEF Calendar!TypeOK, CallersStay
<1>4. \A c \in Callers : approver'[c] = (IF c = caller[r] THEN c ELSE approver[c])
  BY <1>1, <1>2 DEF Calendar!TypeOK
<1>5. Writes'
  BY <1>1, <1>2, <1>4 DEF Calendar!TypeOK, Writes
<1> QED
  BY <1>3, <1>5

LEMMA CredentialLapsesKeeps ==
  ASSUME WritesInv, NEW c \in Callers, Calendar!CredentialLapses(c)
  PROVE  WritesInv' /\ CallersStay
  BY DEF WritesInv, CallersStay, Calendar!CredentialLapses, Calendar!callVars,
         Calendar!calendarVars, Calendar!TypeOK, Writes

LEMMA CalendarStepKeeps ==
  ASSUME WritesInv, Calendar!Step
  PROVE  WritesInv' /\ CallersStay
  BY IdentityUnavailableKeeps, ConsentRequiredKeeps, TokenObtainedKeeps, CalendarAnsweredKeeps,
     EventLandsKeeps, CredentialLapsesKeeps DEF Calendar!Step

LEMMA CalendarRests ==
  ASSUME WritesInv, UNCHANGED writeVars
  PROVE  WritesInv' /\ CallersStay
  BY DEF writeVars, WritesInv, CallersStay, Calendar!TypeOK, Writes

-----------------------------------------------------------------------------
(* The two together.                                                       *)

LEMMA InitEstablishes == Init => IInv
<1> SUFFICES ASSUME Init PROVE IInv
  OBVIOUS
<1> USE NoneAssumption, MaxSessionsAssumption DEF Init
<1>1. PageInv
  BY DEF PageInv, UI!Init, UI!Sent, UI!TypeOK, UI!SessionIds, Page, SendNeverWedged,
         UI!SendNeverWedged, UI!SignedIn
<1>2. WritesInv
  BY DEF WritesInv, Calendar!Init, Calendar!TypeOK, Calendar!Results, Writes
<1>3. TurnsInv
  BY DEF TurnsInv, Turns, Calendar!Init
<1> QED
  BY <1>1, <1>2, <1>3 DEF IInv

\* Where no turn starts and no call begins, the link is kept.
LEMMA TurnsRest ==
  ASSUME TurnsInv, SentStays, CallersStay,
         turn' \in [Requests -> {"none", "running", "over"}],
         \A r \in Requests : /\ turn[r] # "none" => turn'[r] # "none"
                             /\ turn'[r] # "none" /\ turn[r] = "none" => flight[r] # "unsent"
  PROVE  TurnsInv'
  BY DEF TurnsInv, Turns, SentStays, CallersStay

\* What the page shows is an answer to the Caller who is signed in.
LEMMA ShownRequest ==
  ASSUME IInv, UI!Shown # NoRequest
  PROVE  /\ UI!Shown \in Requests
         /\ UI!Shown = reply
         /\ sent[reply].caller = accessToken
         /\ accessToken \in Callers
  BY DEF IInv, PageInv, UI!TypeOK, UI!Shown, UI!SignedIn, Page

LEMMA PageAloneKeeps ==
  ASSUME IInv, UNCHANGED <<writeVars, turn>>,
         \/ UI!Use \/ UI!SignInEnds
         \/ \E r \in Requests, answer \in {"reply", "unauthorized", "failed"} : UI!Answered(r, answer)
  PROVE  IInv'
<1>1. PageInv' /\ SentStays
  BY PageStepKeeps DEF IInv
<1>2. WritesInv' /\ CallersStay
  BY CalendarRests DEF IInv
<1>3. TurnsInv'
  BY <1>1, <1>2, TurnsRest DEF IInv, TurnsInv, Turns
<1> QED
  BY <1>1, <1>2, <1>3 DEF IInv

LEMMA AuthorizerRefusesKeeps ==
  ASSUME IInv, NEW r \in Requests, AuthorizerRefuses(r)
  PROVE  IInv'
<1>1. PageInv' /\ SentStays
  BY PageStepKeeps DEF IInv, AuthorizerRefuses
<1>2. WritesInv' /\ CallersStay
  BY CalendarRests DEF IInv, AuthorizerRefuses
<1>3. turn' = [turn EXCEPT ![r] = "over"] /\ flight[r] # "unsent"
  BY DEF AuthorizerRefuses, UI!Answered
<1>4. TurnsInv'
  BY <1>1, <1>2, <1>3, TurnsRest DEF IInv, TurnsInv, Turns
<1> QED
  BY <1>1, <1>2, <1>4 DEF IInv

LEMMA TurnStepKeeps ==
  ASSUME IInv, NEW r \in Requests, TurnStarts(r) \/ TurnEnds(r)
  PROVE  IInv'
<1>1. PageInv' /\ SentStays
  BY PageRests DEF IInv, TurnStarts, TurnEnds
<1>2. WritesInv' /\ CallersStay
  BY CalendarRests DEF IInv, TurnStarts, TurnEnds
<1>3. /\ turn' = [turn EXCEPT ![r] = "running"] \/ turn' = [turn EXCEPT ![r] = "over"]
      /\ flight[r] # "unsent"
  BY DEF TurnStarts, TurnEnds, IInv, TurnsInv, Turns
<1>4. TurnsInv'
  BY <1>1, <1>2, <1>3, TurnsRest DEF IInv, TurnsInv, Turns
<1> QED
  BY <1>1, <1>2, <1>4 DEF IInv

\* The call is made for the Caller of the turn.
LEMMA WriteRequestedKeeps ==
  ASSUME IInv, NEW r \in Requests, WriteRequested(r)
  PROVE  IInv'
<1>1. PageInv' /\ SentStays
  BY PageRests DEF IInv, WriteRequested
<1>2. turn[r] = "running" /\ turn' = turn /\ Calendar!Execute(r, sent[r].caller)
  BY DEF WriteRequested
<1>3. flight[r] # "unsent" /\ sent[r].caller \in Callers
  BY <1>2 DEF IInv, TurnsInv, Turns, PageInv, Page
<1>4. /\ WritesInv'
      /\ pc'[r] # "none" /\ caller'[r] = sent[r].caller
      /\ \A q \in Requests \ {r} : pc'[q] = pc[q] /\ caller'[q] = caller[q]
  BY <1>2, <1>3, ExecuteKeeps DEF IInv
<1>5. TurnsInv'
  BY <1>1, <1>2, <1>3, <1>4 DEF IInv, TurnsInv, Turns, SentStays
<1> QED
  BY <1>1, <1>4, <1>5 DEF IInv

LEMMA CalendarAloneKeeps ==
  ASSUME IInv, CalendarStep \/ CallerApproves
  PROVE  IInv'
<1>1. PageInv' /\ SentStays
  BY PageRests DEF IInv, CalendarStep, CallerApproves
<1>2. WritesInv' /\ CallersStay
  <2>1. CASE CalendarStep
    BY <2>1, CalendarStepKeeps DEF IInv, CalendarStep
  <2>2. CASE CallerApproves
    <3>1. /\ reply \in Requests /\ Calendar!Approve(reply, accessToken)
          /\ sent[reply].caller = accessToken
      BY <2>2, ShownRequest DEF CallerApproves
    <3>2. pc[reply] # "none"
      BY <3>1 DEF Calendar!Approve, IInv, WritesInv, Writes
    <3>3. caller[reply] = accessToken
      BY <3>1, <3>2 DEF IInv, TurnsInv, Turns
    <3> QED
      BY <3>1, <3>3, ApproveKeeps DEF IInv
  <2> QED
    BY <2>1, <2>2
<1>3. turn' = turn
  BY DEF CalendarStep, CallerApproves
<1>4. TurnsInv'
  BY <1>1, <1>2, <1>3, TurnsRest DEF IInv, TurnsInv, Turns
<1> QED
  BY <1>1, <1>2, <1>4 DEF IInv

LEMMA StutterKeeps ==
  ASSUME IInv, UNCHANGED vars
  PROVE  IInv'
<1>1. PageInv' /\ SentStays
  BY PageRests DEF IInv, vars
<1>2. WritesInv' /\ CallersStay
  BY CalendarRests DEF IInv, vars
<1>3. TurnsInv'
  BY <1>1, <1>2, TurnsRest DEF IInv, TurnsInv, Turns, vars
<1> QED
  BY <1>1, <1>2, <1>3 DEF IInv

\* A turn acts for the Caller whose token its request bore, and the page shows
\* a chat only what was sent from it.
THEOREM HandshakeInvariant == Spec => []IInv
<1>1. IInv /\ [Next]_vars => IInv'
  BY PageAloneKeeps, AuthorizerRefusesKeeps, TurnStepKeeps, WriteRequestedKeeps,
     CalendarAloneKeeps, StutterKeeps
     DEF Next, UsePage, SignInEnds, RequestFails, ReplyArrives
<1> QED
  BY InitEstablishes, <1>1, PTL DEF Spec

-----------------------------------------------------------------------------
\* The page, the calls and the turns have their types.
THEOREM TypeCorrect == Spec => []TypeOK
<1>1. IInv => TypeOK
  BY DEF IInv, PageInv, WritesInv, TurnsInv, TypeOK
<1> QED
  BY HandshakeInvariant, <1>1, PTL

\* A chat that says "Sending" awaits an answer of its own (App.tsx, send).
THEOREM SendNeverWedgedHolds == Spec => []SendNeverWedged
  BY HandshakeInvariant, PTL DEF IInv, PageInv

\* An event was written with the credential, and with the consent, of the Caller
\* whose request asked for it (delegated-calendar-adapter.ts, writeEvent).
THEOREM EventsHaveConsentHolds == Spec => []EventsHaveConsent
<1>1. ASSUME IInv, NEW r \in events
      PROVE  identity[r] = sent[r].caller /\ approver[sent[r].caller] = sent[r].caller
  <2>1. r \in Requests /\ r \in posted
    BY <1>1 DEF IInv, WritesInv, Calendar!TypeOK, Writes
  <2>2. /\ identity[r] = caller[r] /\ approver[caller[r]] = caller[r]
        /\ pc[r] \in {"calendar", "done"}
    BY <1>1, <2>1 DEF IInv, WritesInv, Writes
  <2>3. caller[r] = sent[r].caller
    BY <1>1, <2>1, <2>2 DEF IInv, TurnsInv, Turns
  <2> QED
    BY <2>2, <2>3
<1>2. IInv => EventsHaveConsent
  BY <1>1 DEF EventsHaveConsent
<1> QED
  BY HandshakeInvariant, <1>2, PTL

\* A reply on the page is the signed-in Caller's own (App.tsx, send).
THEOREM ShownIsOwnHolds == Spec => []ShownIsOwn
<1>1. IInv => ShownIsOwn
  BY ShownRequest DEF ShownIsOwn
<1> QED
  BY HandshakeInvariant, <1>1, PTL

\* An event that a reply on the page reports was taken by the calendar under the
\* signed-in Caller's credential, and the calendar holds one event for its hold
\* (writeEventToCalendar; store.ts, putEvent).
THEOREM ShownIsTrueHolds == Spec => []ShownIsTrue
<1>1. ASSUME IInv, UI!Shown # NoRequest, result[UI!Shown] = "written"
      PROVE  /\ UI!Shown \in landed /\ identity[UI!Shown] = accessToken
             /\ \E q \in events : \A p \in events : hold[p] = hold[UI!Shown] <=> p = q
  <2>1. UI!Shown = reply /\ reply \in Requests /\ sent[reply].caller = accessToken
    BY <1>1, ShownRequest
  <2>2. /\ reply \in landed /\ reply \in posted /\ identity[reply] = caller[reply]
        /\ pc[reply] \in {"calendar", "done"}
    BY <1>1, <2>1 DEF IInv, WritesInv, Writes
  <2>3. caller[reply] = accessToken
    BY <1>1, <2>1, <2>2 DEF IInv, TurnsInv, Turns
  <2>4. PICK q \in events : hold[q] = hold[reply]
    BY <1>1, <2>1, <2>2 DEF IInv, WritesInv, Writes
  <2>5. \A p \in events : hold[p] = hold[reply] <=> p = q
    BY <1>1, <2>4 DEF IInv, WritesInv, Writes
  <2> QED
    BY <2>1, <2>2, <2>3, <2>5
<1>2. IInv => ShownIsTrue
  BY <1>1 DEF ShownIsTrue
<1> QED
  BY HandshakeInvariant, <1>2, PTL
=============================================================================
