--------------------------- MODULE CalendarWrite ---------------------------
(***************************************************************************)
(* write-calendar-event: CalendarToolExecutor and DelegatedCalendarAdapter *)
(* between AgentCore Identity, whose vault files one credential for each   *)
(* Caller, and the calendar, which files its events under the hold they    *)
(* are for.  A request of the chat makes at most one such call, for any    *)
(* hold: nobody asks whose it is.  The call bears the request's name and   *)
(* so does the event.                                                      *)
(***************************************************************************)
CONSTANTS
    Requests, Callers, Holds,
    NoCaller, NoHold

VARIABLES
    pc,          \* the await each call is at
    caller,      \* caller[r]: the Caller of the invocation, its workload identity
    hold,
    identity,    \* identity[r]: whose token, or authorization URL, r was given
    result,
    vault,       \* Callers whose credential Identity holds
    approver,    \* history: approver[c]: who approved at the URL made for c
    posted,      \* POST /events sent
    landed,      \* and served
    events       \* the table: the requests whose event it holds

callVars == <<pc, caller, hold, identity, result>>
calendarVars == <<landed, events>>
vars == <<callVars, vault, approver, posted, calendarVars>>

Results == {"none", "invalid", "IdentityUnavailable", "ConsentRequired",
            "CalendarUnavailable", "written"}

TypeOK ==
    /\ pc \in [Requests -> {"none", "identity", "calendar", "done"}]
    /\ caller \in [Requests -> Callers \cup {NoCaller}]
    /\ hold \in [Requests -> Holds \cup {NoHold}]
    /\ identity \in [Requests -> Callers \cup {NoCaller}]
    /\ result \in [Requests -> Results]
    /\ vault \subseteq Callers
    /\ approver \in [Callers -> Callers \cup {NoCaller}]
    /\ posted \subseteq Requests
    /\ landed \subseteq Requests
    /\ events \subseteq Requests

Init ==
    /\ pc = [r \in Requests |-> "none"]
    /\ caller = [r \in Requests |-> NoCaller]
    /\ hold = [r \in Requests |-> NoHold]
    /\ identity = [r \in Requests |-> NoCaller]
    /\ result = [r \in Requests |-> "none"]
    /\ vault = {}
    /\ approver = [c \in Callers |-> NoCaller]
    /\ posted = {}
    /\ landed = {}
    /\ events = {}

-----------------------------------------------------------------------------
(* Plausible slips, used to show that the properties depend on the code.   *)

\* the workload identity is that of any call under way
SharedContext(r) == {caller[q] : q \in {p \in Requests : pc[p] = "identity"}}

\* the body is passed on unparsed
RawAnswer(answer) == answer

\* an event is filed under its own id
EventKeyOfId(r) == r

-----------------------------------------------------------------------------
\* withWAT: the workload access token of r's own invocation
WorkloadIdentity(r) == {caller[r]}

\* The answer to POST /events as the adapter reads it: an error status, an
\* unparsable body and a fetch that throws are all the same failure.
ResultOf(answer) == IF answer = "event" THEN "written" ELSE "CalendarUnavailable"

\* The key an event is filed under: every token of the calendar is one subject's,
\* which leaves the hold.
EventKey(r) == hold[r]

Finish(r, what) ==
    /\ pc' = [pc EXCEPT ![r] = "done"]
    /\ result' = [result EXCEPT ![r] = what]

\* The executor: a blank holdId or title goes no further, any other holdId the
\* model names does.
Execute(r, c) ==
    /\ pc[r] = "none"
    /\ caller' = [caller EXCEPT ![r] = c]
    /\ \/ Finish(r, "invalid") /\ UNCHANGED hold
       \/ /\ \E h \in Holds : hold' = [hold EXCEPT ![r] = h]
          /\ pc' = [pc EXCEPT ![r] = "identity"]
          /\ UNCHANGED result
    /\ UNCHANGED <<identity, vault, approver, posted, calendarVars>>

\* The workload identity or the token cannot be had, or Identity's answer has
\* neither a token nor a URL.
IdentityUnavailable(r) ==
    /\ pc[r] = "identity"
    /\ Finish(r, "IdentityUnavailable")
    /\ UNCHANGED <<caller, hold, identity, vault, approver, posted, calendarVars>>

\* No credential on file: the URL at which the Caller may approve.
ConsentRequired(r) ==
    /\ pc[r] = "identity"
    /\ \E c \in WorkloadIdentity(r) \ vault :
         identity' = [identity EXCEPT ![r] = c]
    /\ Finish(r, "ConsentRequired")
    /\ UNCHANGED <<caller, hold, vault, approver, posted, calendarVars>>

TokenObtained(r) ==
    /\ pc[r] = "identity"
    /\ \E c \in WorkloadIdentity(r) \cap vault :
         identity' = [identity EXCEPT ![r] = c]
    /\ pc' = [pc EXCEPT ![r] = "calendar"]
    /\ posted' = posted \cup {r}
    /\ UNCHANGED <<caller, hold, result, vault, approver, calendarVars>>

CalendarAnswered(r) ==
    /\ pc[r] = "calendar"
    /\ \E answer \in {"event", "failure"} :
         /\ answer = "event" => r \in landed
         /\ Finish(r, ResultOf(answer))
    /\ UNCHANGED <<caller, hold, identity, vault, approver, posted, calendarVars>>

\* The calendar serves the POST, whether or not anybody still waits for it: the
\* event takes the place of the one filed under its key.
EventLands(r) ==
    /\ r \in posted \ landed
    /\ landed' = landed \cup {r}
    /\ events' = {q \in events : EventKey(q) # EventKey(r)} \cup {r}
    /\ UNCHANGED <<callVars, vault, approver, posted>>

\* Somebody, a, approves at the URL that r was given.
Approve(r, a) ==
    /\ result[r] = "ConsentRequired"
    /\ vault' = vault \cup {identity[r]}
    /\ approver' = [approver EXCEPT ![identity[r]] = a]
    /\ UNCHANGED <<callVars, posted, calendarVars>>

\* The calendar's authorization server refuses to renew a credential.
CredentialLapses(c) ==
    /\ c \in vault
    /\ vault' = vault \ {c}
    /\ UNCHANGED <<callVars, approver, posted, calendarVars>>

Step ==
    \/ \E r \in Requests :
         \/ IdentityUnavailable(r) \/ ConsentRequired(r) \/ TokenObtained(r)
         \/ CalendarAnswered(r) \/ EventLands(r)
    \/ \E c \in Callers : CredentialLapses(c)
=============================================================================
