---------------------------- MODULE ConciergeUI ----------------------------
(***************************************************************************)
(* The chat page with its proxy: a sign-in form, and once there is an      *)
(* access token the chat, which is mounted anew by every sign-in and       *)
(* forgets all it holds when it is left.  A request outlives the chat that *)
(* sent it.  The proxy keeps nothing: it passes 401 and 403 on and makes   *)
(* every other failure an error.                                           *)
(*                                                                         *)
(* A token stands for the Caller it was issued to; a session id is the     *)
(* number of ids made so far, and a chat is known by its first one.        *)
(***************************************************************************)
EXTENDS Naturals

CONSTANTS
    Requests,     \* clicks on Send, each made at most once
    Callers,
    MaxSessions,  \* bound: session ids made
    NoCaller, NoRequest

VARIABLES
    storedToken,  \* sessionStorage
    accessToken,  \* App
    login, signingIn,                 \* LoginForm: its status and who signs in
    mount, sessionId, reply, status,  \* Chat; reply: the request it answers
    flight, sent                      \* each request and what it carries

formVars == <<login, signingIn>>
chatVars == <<mount, sessionId, reply, status>>
vars == <<storedToken, accessToken, formVars, chatVars, flight, sent>>

Sent(caller, session, from) == [caller |-> caller, session |-> session, mount |-> from]
SessionIds == 0..MaxSessions

TypeOK ==
    /\ storedToken \in Callers \cup {NoCaller}
    /\ accessToken \in Callers \cup {NoCaller}
    /\ login \in {"idle", "signing-in", "error"}
    /\ signingIn \in Callers \cup {NoCaller}
    /\ mount \in SessionIds
    /\ sessionId \in SessionIds
    /\ reply \in Requests \cup {NoRequest}
    /\ status \in {"idle", "sending", "error"}
    /\ flight \in [Requests -> {"unsent", "inFlight", "settled", "dropped"}]
    /\ sent \in [Requests -> [caller : Callers \cup {NoCaller},
                              session : SessionIds, mount : SessionIds]]

Init ==
    /\ storedToken = NoCaller
    /\ accessToken = NoCaller
    /\ login = "idle"
    /\ signingIn = NoCaller
    /\ mount = 0
    /\ sessionId = 0
    /\ reply = NoRequest
    /\ status = "idle"
    /\ flight = [r \in Requests |-> "unsent"]
    /\ sent = [r \in Requests |-> Sent(NoCaller, 0, 0)]

-----------------------------------------------------------------------------
(* Plausible slips, used to show that the properties depend on the code.   *)

\* an answer is shown in whatever chat there is
AnyChat(r) == accessToken # NoCaller

\* an error is thrown past the handler of the button
ForgetError(r) == UNCHANGED chatVars

-----------------------------------------------------------------------------
SignedIn == accessToken # NoCaller

\* useState of a Chat that enters the page
MountChat ==
    /\ sessionId < MaxSessions
    /\ sessionId' = sessionId + 1
    /\ mount' = sessionId + 1
    /\ reply' = NoRequest
    /\ status' = "idle"

SignIn(c) ==
    /\ ~SignedIn
    /\ login # "signing-in"
    /\ login' = "signing-in"
    /\ signingIn' = c
    /\ UNCHANGED <<storedToken, accessToken, chatVars, flight, sent>>

\* handleLogin: what becomes of Cognito's answer on its way to the form
LoginStatus(answer) ==
    CASE answer = "token" -> 200
      [] answer = "NotAuthorized" -> 401
      [] OTHER -> 502

\* The form looks at the status and for a token.
SignInEnds ==
    /\ login = "signing-in"
    /\ signingIn' = NoCaller
    /\ \E answer \in {"token", "none", "NotAuthorized", "failed"} :
         \/ /\ LoginStatus(answer) = 200
            /\ storedToken' = signingIn
            /\ accessToken' = signingIn
            /\ login' = "idle"
            /\ MountChat
         \/ /\ LoginStatus(answer) # 200
            /\ login' = "error"
            /\ UNCHANGED <<storedToken, accessToken, chatVars>>
    /\ UNCHANGED <<flight, sent>>

Send(r) ==
    /\ SignedIn
    /\ status # "sending"
    /\ flight[r] = "unsent"
    /\ flight' = [flight EXCEPT ![r] = "inFlight"]
    /\ sent' = [sent EXCEPT ![r] = Sent(accessToken, sessionId, mount)]
    /\ status' = "sending"
    /\ UNCHANGED <<storedToken, accessToken, formVars, mount, sessionId, reply>>

\* What an answer sets in a chat that has been left, it sets nowhere.
InChat(r) == SignedIn /\ sent[r].mount = mount

DropToken == accessToken' = NoCaller /\ storedToken' = NoCaller

ShowReply(r) == reply' = r /\ status' = "idle" /\ UNCHANGED <<mount, sessionId>>
ShowError(r) == status' = "error" /\ UNCHANGED <<mount, sessionId, reply>>

\* handleInvoke: what becomes of the Runtime's answer on its way to the chat
InvokeStatus(answer) ==
    CASE answer = "reply" -> 200
      [] answer = "unauthorized" -> 401
      [] OTHER -> 502

\* The fetch of send settles, whatever session the chat is at by now.  A 401
\* signs out whoever is signed in by now.
Answered(r, answer) ==
    LET code == InvokeStatus(answer) IN
    /\ flight[r] = "inFlight"
    /\ flight' = [flight EXCEPT ![r] = "settled"]
    /\ \/ code = 401 /\ DropToken
       \/ code # 401 /\ UNCHANGED <<storedToken, accessToken>>
    /\ \/ InChat(r) /\ code = 200 /\ ShowReply(r)
       \/ InChat(r) /\ code # 200 /\ ShowError(r)
       \/ ~InChat(r) /\ UNCHANGED chatVars
    /\ UNCHANGED <<formVars, sent>>

\* The button of the same name: Send is enabled again, the request goes on.
NewSession ==
    /\ SignedIn
    /\ sessionId < MaxSessions
    /\ sessionId' = sessionId + 1
    /\ reply' = NoRequest
    /\ status' = "idle"
    /\ UNCHANGED <<storedToken, accessToken, formVars, mount, flight, sent>>

SignOut ==
    /\ SignedIn
    /\ DropToken
    /\ UNCHANGED <<formVars, chatVars, flight, sent>>

\* The page is loaded again: what it awaited is lost with it.
Reload ==
    /\ accessToken' = storedToken
    /\ login' = "idle"
    /\ signingIn' = NoCaller
    /\ \/ storedToken # NoCaller /\ MountChat
       \/ storedToken = NoCaller /\ UNCHANGED chatVars
    /\ flight' = [r \in Requests |-> IF flight[r] = "inFlight" THEN "dropped" ELSE flight[r]]
    /\ UNCHANGED <<storedToken, sent>>

\* What the Caller does.
Use ==
    \/ \E c \in Callers : SignIn(c)
    \/ \E r \in Requests : Send(r)
    \/ NewSession \/ SignOut \/ Reload

-----------------------------------------------------------------------------
Shown == IF SignedIn /\ status # "error" THEN reply ELSE NoRequest

\* Send is not disabled for ever: a chat that says "Sending" awaits the answer
\* to a request of its own, whatever was answered late, started anew, signed
\* out of or loaded again meanwhile (App.tsx, send).
SendNeverWedged ==
    SignedIn /\ status = "sending" =>
        \E r \in Requests : flight[r] = "inFlight" /\ sent[r].mount = mount
=============================================================================
