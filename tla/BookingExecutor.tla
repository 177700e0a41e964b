-------------------------- MODULE BookingExecutor --------------------------
(***************************************************************************)
(* BookingToolExecutor with the Gateway it calls.  The model asks for tool *)
(* calls in rounds: Promise.all starts every call of a round in one step   *)
(* of the event loop, each runs to its first await, and from there on the  *)
(* calls interleave at their awaits; the session's next round starts when  *)
(* all are over.  Sessions are independent and share the one executor.     *)
(*                                                                         *)
(* pc[c] names the await call c is suspended at.  A hold request lives its *)
(* own life on the wire once sent: the Gateway may decide it before or     *)
(* after the executor has given up on the answer, or after the process     *)
(* that sent it is gone.                                                   *)
(*                                                                         *)
(* hold-flight and hold-hotel are the same code over two maps; candidate   *)
(* ids never collide between the two, so one map and one action stand for  *)
(* both.  A call refused for its name or its arguments returns before it    *)
(* reads or changes anything: a round without it stands for it.            *)
(***************************************************************************)
EXTENDS GatewayPolicy, FiniteSets

CONSTANTS
    Calls,       \* tool calls, each made at most once
    Sessions,    \* runtime session ids
    Candidates,  \* candidate ids, shown by a search or made up by the model
    SearchResults, \* the sets of candidates a search can return
    LivePrice,   \* what the price-check site shows for each candidate
    MaxRounds    \* bound: rounds of tool calls per session

ASSUME SearchResultsAssumption == SearchResults \subseteq SUBSET Candidates
ASSUME LivePriceAssumption == LivePrice \in [Candidates -> Price]
ASSUME MaxRoundsAssumption == MaxRounds \in Nat

VARIABLES
    \* executor fields
    candidatesById,    \* the candidates some search of this process returned
    approvedSessions,  \* sessions with an approval not yet consumed
    \* locals of the running execute calls
    pc, request, wasApproved, livePrice, result,
    \* outside the process
    wire,       \* wire[c]: what became of c's hold request at the Gateway
    recorded,   \* calls whose hold reached the budget sandbox
    \* history
    grants,     \* grants[s]: approve-hold calls that succeeded for s
    round,      \* round[c]: the round of its session c belongs to, 0 before
    rounds,     \* rounds[s]: rounds started in s
    grantsSeen  \* grantsSeen[c]: the grants of its session when call c started

executorVars == <<candidatesById, approvedSessions>>
localVars == <<pc, request, wasApproved, livePrice, result>>
historyVars == <<grants, round, rounds, grantsSeen>>
vars == <<executorVars, localVars, wire, recorded, historyVars>>

Request ==
    [tool : {"search"}, session : Sessions, found : SearchResults]
        \cup [tool : {"hold"}, session : Sessions, candidateId : Candidates]
        \cup [tool : {"approve-hold"}, session : Sessions]

NoRequest == [tool |-> "none"]

Awaits == {"search", "checkPrice", "holdRequest", "approveHold", "recordHold"}

Results == {"none", "candidates", "held", "approved",
            "askCaller", "searchAgain", "error"}

TypeOK ==
    /\ candidatesById \subseteq Candidates
    /\ approvedSessions \subseteq Sessions
    /\ pc \in [Calls -> {"idle", "done", "lost"} \cup Awaits]
    /\ request \in [Calls -> Request \cup {NoRequest}]
    /\ wasApproved \in [Calls -> BOOLEAN]
    /\ livePrice \in [Calls -> Price \cup {NoPrice}]
    /\ result \in [Calls -> Results]
    /\ wire \in [Calls -> {"none", "sent", "placed", "denied", "failed"}]
    /\ recorded \subseteq Calls
    /\ grants \in [Sessions -> Nat]
    /\ round \in [Calls -> Nat]
    /\ rounds \in [Sessions -> Nat]
    /\ grantsSeen \in [Calls -> Nat]

Init ==
    /\ candidatesById = {}
    /\ approvedSessions = {}
    /\ pc = [c \in Calls |-> "idle"]
    /\ request = [c \in Calls |-> NoRequest]
    /\ wasApproved = [c \in Calls |-> FALSE]
    /\ livePrice = [c \in Calls |-> NoPrice]
    /\ result = [c \in Calls |-> "none"]
    /\ wire = [c \in Calls |-> "none"]
    /\ recorded = {}
    /\ grants = [s \in Sessions |-> 0]
    /\ round = [c \in Calls |-> 0]
    /\ rounds = [s \in Sessions |-> 0]
    /\ grantsSeen = [c \in Calls |-> 0]

Active(s) == {c \in Calls : pc[c] \in Awaits /\ request[c].session = s}

Finish(c, r) ==
    /\ pc' = [pc EXCEPT ![c] = "done"]
    /\ result' = [result EXCEPT ![c] = r]

-----------------------------------------------------------------------------
(* Plausible slips, used to show that the properties depend on the code.   *)

\* the approval is kept per executor, not per session
AnySessionApproved(s) == approvedSessions # {}

\* the approval is never taken back
KeepApproval(c) == UNCHANGED approvedSessions

\* any success of the session takes the approval back, approved or not
ConsumeAlways(c) ==
    approvedSessions' = approvedSessions \ {request[c].session}

\* the page's figure is used unparsed: LocalPrice.parse is skipped
CheckPriceUnparsed(c) ==
    /\ pc[c] = "checkPrice"
    /\ livePrice' \in {[livePrice EXCEPT ![c] = p] : p \in {0, LivePrice[request[c].candidateId]}}
    /\ wire' = [wire EXCEPT ![c] = "sent"]
    /\ pc' = [pc EXCEPT ![c] = "holdRequest"]
    /\ UNCHANGED <<executorVars, request, wasApproved, result, recorded, historyVars>>

\* an answer that never came is taken for a hold
HoldUnansweredAsHeld(c) ==
    /\ pc[c] = "holdRequest"
    /\ Finish(c, "held")
    /\ UNCHANGED <<executorVars, request, wasApproved, livePrice, wire,
                   recorded, historyVars>>

-----------------------------------------------------------------------------
\* approvedSessions.has(sessionId), read before the first await of a hold
ReadApproval(s) == s \in approvedSessions

\* Where a call first suspends, given what it is asked to do.
FirstAwait(r) ==
    CASE r.tool = "search" -> "search"
      [] r.tool = "approve-hold" -> "approveHold"
      [] r.tool = "hold" ->
            IF r.candidateId \in candidatesById THEN "checkPrice" ELSE "holdRequest"

\* execute(call, sessionId) for each of the started calls, up to its first
\* await: a hold reads the session's approval and its candidate, and one whose
\* candidate is not in the map sends its request at once, priceless.
ExecuteAll(s, started, asked) ==
    /\ request' = [c \in Calls |-> IF c \in started THEN asked[c] ELSE request[c]]
    /\ pc' = [c \in Calls |-> IF c \in started THEN FirstAwait(asked[c]) ELSE pc[c]]
    /\ wasApproved' =
          [c \in Calls |->
              IF c \in started /\ asked[c].tool = "hold"
              THEN ReadApproval(s) ELSE wasApproved[c]]
    /\ wire' =
          [c \in Calls |->
              IF c \in started /\ FirstAwait(asked[c]) = "holdRequest"
              THEN "sent" ELSE wire[c]]
    /\ round' = [c \in Calls |-> IF c \in started THEN rounds[s] + 1 ELSE round[c]]
    /\ grantsSeen' = [c \in Calls |-> IF c \in started THEN grants[s] ELSE grantsSeen[c]]

\* A model round that asks for tools: Promise.all over execute.
StartRound(s) ==
    /\ rounds[s] < MaxRounds
    /\ Active(s) = {}
    /\ rounds' = [rounds EXCEPT ![s] = @ + 1]
    /\ \E started \in SUBSET {c \in Calls : pc[c] = "idle"} :
         /\ started # {}
         /\ \E asked \in [started -> {r \in Request : r.session = s}] :
              ExecuteAll(s, started, asked)
    /\ UNCHANGED <<executorVars, livePrice, result, recorded, grants>>

\* searchFlights, searchHotels: every candidate shown is remembered.
SearchAnswered(c) ==
    /\ pc[c] = "search"
    /\ candidatesById' = candidatesById \cup request[c].found
    /\ Finish(c, "candidates")
    /\ UNCHANGED <<approvedSessions, request, wasApproved, livePrice, wire,
                   recorded, historyVars>>

\* The Gateway or the price check fails before a hold is asked for, or
\* approve-hold fails: the call reports it and nothing changes.
CallFailed(c) ==
    /\ pc[c] \in {"search", "checkPrice", "approveHold"}
    /\ Finish(c, "error")
    /\ UNCHANGED <<executorVars, request, wasApproved, livePrice, wire,
                   recorded, historyVars>>

\* checkPrice answers and the hold request goes out with the live price.
CheckPriceAnswered(c) ==
    /\ pc[c] = "checkPrice"
    /\ livePrice' = [livePrice EXCEPT ![c] = LivePrice[request[c].candidateId]]
    /\ wire' = [wire EXCEPT ![c] = "sent"]
    /\ pc' = [pc EXCEPT ![c] = "holdRequest"]
    /\ UNCHANGED <<executorVars, request, wasApproved, result, recorded, historyVars>>

\* Policy decides the request, and the router Lambda places what it permits.
\* The Gateway or the Lambda may also fail with no hold placed.
GatewayDecides(c) ==
    /\ wire[c] = "sent"
    /\ \E outcome \in {"placed", "denied", "failed"} :
         /\ wire' = [wire EXCEPT ![c] = outcome]
         /\ outcome # "failed" =>
              (outcome = "placed") =
                Permits(HoldArguments(request[c].candidateId, livePrice[c], wasApproved[c]))
    /\ UNCHANGED <<executorVars, localVars, recorded, historyVars>>

\* consumeApproval(wasApproved, sessionId)
ConsumeApproval(c) ==
    approvedSessions' =
        IF wasApproved[c] THEN approvedSessions \ {request[c].session}
        ELSE approvedSessions

\* The hold is confirmed.  A priced one is then recorded against the budget.
HoldConfirmed(c) ==
    /\ pc[c] = "holdRequest"
    /\ wire[c] = "placed"
    /\ ConsumeApproval(c)
    /\ IF livePrice[c] = NoPrice
       THEN Finish(c, "held")
       ELSE pc' = [pc EXCEPT ![c] = "recordHold"] /\ UNCHANGED result
    /\ UNCHANGED <<candidatesById, request, wasApproved, livePrice, wire,
                   recorded, historyVars>>

\* holdErrorResult for HoldGated: with a price, the Caller is to be asked.  The
\* words isPolicyDenial looks for are taken to be in Policy's denials only.
HoldGated(c) ==
    /\ pc[c] = "holdRequest"
    /\ wire[c] = "denied"
    /\ Finish(c, IF livePrice[c] = NoPrice THEN "searchAgain" ELSE "askCaller")
    /\ UNCHANGED <<executorVars, request, wasApproved, livePrice, wire,
                   recorded, historyVars>>

\* GatewayUnavailable or MalformedResponse: the request or its answer was
\* lost, late or unreadable, whatever became of it at the Gateway.
HoldUnanswered(c) ==
    /\ pc[c] = "holdRequest"
    /\ Finish(c, "error")
    /\ UNCHANGED <<executorVars, request, wasApproved, livePrice, wire,
                   recorded, historyVars>>

\* budget.recordHold settles; its failure does not fail the hold.
RecordHoldAnswered(c) ==
    /\ pc[c] = "recordHold"
    /\ recorded' \in {recorded, recorded \cup {c}}
    /\ Finish(c, "held")
    /\ UNCHANGED <<executorVars, request, wasApproved, livePrice, wire, historyVars>>

\* approveHold succeeded.
ApproveHoldAnswered(c) ==
    LET s == request[c].session IN
    /\ pc[c] = "approveHold"
    /\ approvedSessions' = approvedSessions \cup {s}
    /\ grants' = [grants EXCEPT ![s] = @ + 1]
    /\ Finish(c, "approved")
    /\ UNCHANGED <<candidatesById, request, wasApproved, livePrice, wire,
                   recorded, round, rounds, grantsSeen>>

\* The Runtime recycles the microVM: the executor starts empty and whatever
\* was running is never heard of again.
Recycle ==
    /\ candidatesById' = {}
    /\ approvedSessions' = {}
    /\ pc' = [c \in Calls |-> IF pc[c] \in Awaits THEN "lost" ELSE pc[c]]
    /\ UNCHANGED <<request, wasApproved, livePrice, result, wire, recorded, historyVars>>

Step(c) ==
    \/ SearchAnswered(c) \/ CallFailed(c) \/ CheckPriceAnswered(c)
    \/ GatewayDecides(c) \/ HoldConfirmed(c) \/ HoldGated(c) \/ HoldUnanswered(c)
    \/ RecordHoldAnswered(c) \/ ApproveHoldAnswered(c)

Next ==
    \/ \E s \in Sessions : StartRound(s)
    \/ \E c \in Calls : Step(c)
    \/ Recycle

Spec == Init /\ [][Next]_vars

-----------------------------------------------------------------------------
Placed == {c \in Calls : wire[c] = "placed"}

\* A hold above the threshold, or with no price at all, exists at the Gateway
\* only in a session in which an approve-hold has succeeded: approvals do not
\* leak between the sessions that share the executor, and no request gets past
\* Policy without one, whenever it is decided.
GatedHoldsWereApproved ==
    \A c \in Placed : Gated(livePrice[c]) => grants[request[c].session] > 0

\* The rounds of session s in which a hold sent with an approval was confirmed.
ApprovedRounds(s) ==
    {round[c] : c \in {d \in Calls : /\ request[d].tool = "hold"
                                     /\ request[d].session = s
                                     /\ wasApproved[d]
                                     /\ result[d] = "held" \/ pc[d] = "recordHold"}}

\* A confirmed hold spends its session's approval: one approve-hold serves the
\* approved holds of one round at most, across failures, other sessions, new
\* approvals arriving while holds are in flight, and restarts.
OneRoundPerApproval ==
    \A s \in Sessions : Cardinality(ApprovedRounds(s)) <= grants[s]

\* The Caller is asked to approve a hold only when its live price is above the
\* threshold and the hold carried no approval (PRD REQ-POLICY-002, -004).
CallerAskedOnlyWhenGated ==
    \A c \in Calls :
        result[c] \in {"askCaller", "searchAgain"} =>
            Gated(livePrice[c]) /\ ~wasApproved[c]

\* What the model is told is held exists at the Gateway, and what the budget
\* was told exists there at the live price of its candidate.
NothingHeldOnPaper ==
    /\ \A c \in Calls : result[c] = "held" => c \in Placed
    /\ \A c \in recorded :
          c \in Placed /\ livePrice[c] = LivePrice[request[c].candidateId]

\* Hold c was sent with the approval at hand, the last one granted; or that one
\* was granted while c was under way, by an approve-hold of c's own round.
SentWithLatest(c) == grantsSeen[c] = grants[request[c].session]

GrantedInRoundOf(c) ==
    \E d \in Calls : /\ result[d] = "approved"
                     /\ request[d].session = request[c].session
                     /\ round[d] = round[c]

\* Every session that loses its approval in a step has spent it in that step.
LosesApprovalBySpending ==
    \A s \in approvedSessions \ approvedSessions' :
        \/ Recycle
        \/ \E c \in Calls : /\ HoldConfirmed(c)
                            /\ request[c].session = s
                            /\ wasApproved[c]
                            /\ SentWithLatest(c) \/ GrantedInRoundOf(c)

\* Until the process is recycled, a session loses its approval only in the step
\* that confirms a hold of that session sent with an approval: with this very
\* one, if it was granted in an earlier round than the hold's.  A denial, a lost
\* answer, a hold sent without an approval and one that is confirmed late leave
\* it in place.  An approval granted in the hold's own round may be lost to a hold
\* that was sent with the one before it: the code deletes whatever is there
\* (consumeApproval).
ApprovalSurvivesFailure == [][LosesApprovalBySpending]_vars

-----------------------------------------------------------------------------
\* PRD.md, REQ-POLICY-005: "An approve-hold event is consumed by at most one
\* hold".  The holds of session s above the threshold that the executor saw
\* confirmed, against the approvals it was given.
GatedHoldsOf(s) ==
    {c \in Calls : /\ request[c].tool = "hold"
                   /\ request[c].session = s
                   /\ livePrice[c] # NoPrice
                   /\ livePrice[c] > Threshold
                   /\ result[c] = "held" \/ pc[c] = "recordHold"}

ApprovalConsumedByOneHold ==
    \A s \in Sessions : Cardinality(GatedHoldsOf(s)) <= grants[s]

\* ports.ts, PriceCheckPort: a price check is "run automatically immediately
\* before every hold-flight/hold-hotel call, for every candidate".
EveryHoldPriceChecked == \A c \in Placed : livePrice[c] # NoPrice
=============================================================================
