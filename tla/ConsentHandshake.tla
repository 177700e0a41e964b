-------------------------- MODULE ConsentHandshake --------------------------
(***************************************************************************)
(* The consent handshake from the page to the calendar: a Caller asks for  *)
(* a calendar event, is shown the URL at which to approve, approves there, *)
(* and asks again.  Page, turns, calendar and the Caller's approval go     *)
(* each at its own pace: a turn goes on when the page has given up on its  *)
(* request, and several Callers use the page after each other.             *)
(*                                                                         *)
(* The model is taken to relay what the tool told it.  A turn without a    *)
(* calendar call stands for every other turn, and for the handler's fixed  *)
(* replies to a message or a model it cannot use.                          *)
(***************************************************************************)
EXTENDS Naturals

CONSTANTS Requests, Callers, Holds, MaxSessions, NoCaller, NoRequest, NoHold

ASSUME NoneAssumption == NoCaller \notin Callers /\ NoRequest \notin Requests
ASSUME MaxSessionsAssumption == MaxSessions \in Nat

VARIABLES
    \* ConciergeUI
    storedToken, accessToken, login, signingIn, mount, sessionId, reply, status, flight, sent,
    \* CalendarWrite
    pc, caller, hold, identity, result, vault, approver, posted, landed, events,
    turn     \* turn[r]: the invocation of the agent

uiVars == <<storedToken, accessToken, login, signingIn, mount, sessionId, reply, status,
            flight, sent>>
writeVars == <<pc, caller, hold, identity, result, vault, approver, posted, landed, events>>
vars == <<uiVars, writeVars, turn>>

UI == INSTANCE ConciergeUI
Calendar == INSTANCE CalendarWrite

TypeOK ==
    /\ UI!TypeOK
    /\ Calendar!TypeOK
    /\ turn \in [Requests -> {"none", "running", "over"}]

Init == UI!Init /\ Calendar!Init /\ turn = [r \in Requests |-> "none"]

-----------------------------------------------------------------------------
UsePage == UI!Use /\ UNCHANGED <<writeVars, turn>>

SignInEnds == UI!SignInEnds /\ UNCHANGED <<writeVars, turn>>

\* The Runtime's authorizer refuses the token, and no turn is made of it.
AuthorizerRefuses(r) ==
    /\ turn[r] = "none"
    /\ turn' = [turn EXCEPT ![r] = "over"]
    /\ UI!Answered(r, "unauthorized")
    /\ UNCHANGED writeVars

\* An error of the proxy, the network or the Runtime, whatever the turn does.
RequestFails(r) == UI!Answered(r, "failed") /\ UNCHANGED <<writeVars, turn>>

\* CognitoJwtVerifier: whose token it is, or nobody's (it has expired since, or
\* the keys cannot be had).
Verify(r) == {sent[r].caller, NoCaller}

\* The handler: the lock of the session admits the turn of an authenticated
\* Caller; the reply to anybody else does not pass the lock.
TurnStarts(r) ==
    /\ flight[r] # "unsent"
    /\ turn[r] = "none"
    /\ \E actorId \in Verify(r) :
         \/ /\ actorId # NoCaller
            /\ \A q \in Requests : turn[q] = "running" => sent[q].session # sent[r].session
            /\ turn' = [turn EXCEPT ![r] = "running"]
         \/ /\ actorId = NoCaller
            /\ turn' = [turn EXCEPT ![r] = "over"]
    /\ UNCHANGED <<uiVars, writeVars>>

\* The model asks for the event.  The invocation's workload identity is
\* that of the token's Caller.
WriteRequested(r) ==
    /\ turn[r] = "running"
    /\ Calendar!Execute(r, sent[r].caller)
    /\ UNCHANGED <<uiVars, turn>>

CalendarStep == Calendar!Step /\ UNCHANGED <<uiVars, turn>>

TurnEnds(r) ==
    /\ turn[r] = "running"
    /\ pc[r] \in {"none", "done"}
    /\ turn' = [turn EXCEPT ![r] = "over"]
    /\ UNCHANGED <<uiVars, writeVars>>

ReplyArrives(r) ==
    /\ turn[r] = "over"
    /\ UI!Answered(r, "reply")
    /\ UNCHANGED <<writeVars, turn>>

\* The Caller follows the URL on the page.
CallerApproves ==
    /\ UI!Shown # NoRequest
    /\ Calendar!Approve(UI!Shown, accessToken)
    /\ UNCHANGED <<uiVars, turn>>

Next ==
    \/ UsePage \/ SignInEnds \/ CalendarStep \/ CallerApproves
    \/ \E r \in Requests :
         \/ AuthorizerRefuses(r) \/ RequestFails(r) \/ ReplyArrives(r)
         \/ TurnStarts(r) \/ WriteRequested(r) \/ TurnEnds(r)

Spec == Init /\ [][Next]_vars

-----------------------------------------------------------------------------
\* Send is not disabled for ever (ConciergeUI).
SendNeverWedged == UI!SendNeverWedged

\* Nothing is in the calendar without consent: an event was written with the
\* credential of the Caller whose request asked for it, and it was that Caller
\* who approved, whoever else used the page and whatever other calls were under
\* way (delegated-calendar-adapter.ts, writeEvent).  Whose hold it is nobody
\* asks: the event may be for a hold that another Caller placed.
EventsHaveConsent ==
    \A r \in events :
        LET c == sent[r].caller IN identity[r] = c /\ approver[c] = c

\* What the page shows is the answer to a request of the Caller who is signed in,
\* although answers come late, chats are left and Callers take turns (App.tsx, send).
ShownIsOwn ==
    LET r == UI!Shown IN r # NoRequest => sent[r].caller = accessToken

\* And it is true: a reply that says the event was written means that the calendar
\* took that event, under the credential of the Caller who is signed in, and that it
\* holds one event for the hold, not two, although answers are lost, writes asked
\* for again, by this Caller or by another, and turns go on unattended
\* (writeEventToCalendar; store.ts, putEvent).
ShownIsTrue ==
    LET r == UI!Shown IN r # NoRequest /\ result[r] = "written" =>
        /\ r \in landed /\ identity[r] = accessToken
        /\ \E q \in events : \A p \in events : hold[p] = hold[r] <=> p = q
=============================================================================
