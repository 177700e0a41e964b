------------------------- MODULE OnDemandEvaluation -------------------------
(***************************************************************************)
(* The on-demand evaluation of a session: run-on-demand-evaluation.mjs     *)
(* downloads the session's telemetry, has it judged by the budget gate and *)
(* by the itinerary judge, and reports both.  Until then the session is    *)
(* what BudgetSandbox says; its id is known once its turns are answered    *)
(* (run-evaluation-scenarios.mjs), and what comes after the queries is not *)
(* in their answers.                                                       *)
(*                                                                         *)
(* A recordHold call is an executeCode span from its first step to its     *)
(* result, and carries the total its script printed if the result is a     *)
(* snapshot.  The same content is in the span's event record.  Telemetry   *)
(* is best effort: of what has ended, any part may be found.               *)
(***************************************************************************)
EXTENDS Naturals, Sequences, FiniteSetsExt, SequencesExt

CONSTANTS
    Calls, Sessions, Starts, Cities, Categories, Hold, NoStart,  \* as in BudgetSandbox
    Transcript,   \* the session that is evaluated
    Budget,       \* WAYFARER_SCENARIO_BUDGET_USD
    MaxAttempts   \* polls of a query

ASSUME TranscriptAssumption == Transcript \in Sessions
ASSUME LimitsAssumption == Budget \in Nat /\ MaxAttempts \in Nat \ {0}

VARIABLES
    \* BudgetSandbox
    sandboxSessionByRuntimeSession, start, startedFor, pc, sandboxOf, script, result,
    runningTotal, byCity, byCategory, latestTotal, disturbed,
    \* executeCode spans
    spanOrder,   \* the calls, by startTimeUnixNano
    printed,     \* printed[c]: the total in the snapshot of c's script
    overlapped,  \* history: some recording began while another was under way
    \* the script
    stage,
    attempts,    \* attempts[g]: polls in vain of the query running on log group g
    query,       \* query[g]: what the query has come to
    downloaded,  \* the calls whose span, or whose event record, was found
    outcome      \* outcome[e]: what evaluator e has come to

sandboxVars == <<sandboxSessionByRuntimeSession, start, startedFor, pc, sandboxOf, script,
                 result, runningTotal, byCity, byCategory, latestTotal, disturbed>>
spanVars == <<spanOrder, printed, overlapped>>
scriptVars == <<stage, attempts, query, downloaded, outcome>>
vars == <<sandboxVars, spanVars, scriptVars>>

Sandbox == INSTANCE BudgetSandbox

ASSUME HoldAssumption == Hold \in [Calls -> Sandbox!HoldRecord]
ASSUME NoStartAssumption == NoStart \notin Starts \cup Sessions

LogGroups == {"runtime", "aws/spans"}
Evaluators == {"budgetGate", "itineraryQuality"}
Verdicts == {"PASS", "FAIL", "NO_BUDGET_DATA"}

TypeOK ==
    /\ Sandbox!TypeOK
    /\ spanOrder \in Seq(Calls)
    /\ printed \in [Calls -> Nat]
    /\ overlapped \in BOOLEAN
    /\ stage \in {"idle", "querying", "evaluating", "reported", "threw"}
    /\ attempts \in [LogGroups -> 0..(MaxAttempts - 1)]
    /\ query \in [LogGroups -> {"none", "waiting", "asked", "complete"}]
    /\ downloaded \in [spans : SUBSET Calls, records : SUBSET Calls]
    /\ outcome \in [Evaluators -> Verdicts \cup {"none", "judged", "THREW"}]

Init ==
    /\ Sandbox!Init
    /\ spanOrder = <<>>
    /\ printed = [c \in Calls |-> 0]
    /\ overlapped = FALSE
    /\ stage = "idle"
    /\ attempts = [g \in LogGroups |-> 0]
    /\ query = [g \in LogGroups |-> "none"]
    /\ downloaded = [spans |-> {}, records |-> {}]
    /\ outcome = [e \in Evaluators |-> "none"]

Mine == {c \in Calls : Hold[c].session = Transcript}
Open == {c \in Mine : pc[c] \in {"starting", "executing"}}
Ended == {c \in Mine : pc[c] = "done"}
Reporting == {c \in Ended : result[c] = "snapshot"}

\* What the session has really come to: the scripts that ran in some sandbox.
Held == SumFunctionOnSet(Sandbox!Amount, {c \in Mine : script[c] = "ran"})

\* startTimeUnixNano
StartedBefore(c, d) ==
    \E i, j \in DOMAIN spanOrder : i < j /\ spanOrder[i] = c /\ spanOrder[j] = d

-----------------------------------------------------------------------------
(* Plausible slips, used to show that the properties depend on the code.   *)

\* the budget itself may not be reached
JudgeStrictly(total) == IF total < Budget THEN "PASS" ELSE "FAIL"

\* the lowest total is taken for the final one
LowestTotal(totals) == Min(totals)

\* the earliest executeCode span is the target
FirstExecuteCode(spans) == {c \in spans : \A d \in spans : ~StartedBefore(d, c)}

\* a poll that finds the query running is not counted
CountNoPoll(g) == UNCHANGED attempts

\* one poll too many
PollsLeftInclusive(g) == attempts[g] < MaxAttempts

-----------------------------------------------------------------------------
(* The budget gate. *)

\* matchesTargetSpanId, spansInScope: an event record bears the id of its span.
SpansInScope(found, target) ==
    IF found \cap target # {} THEN found \cap target ELSE found

\* extractRunningTotals: every snapshot, however deep in the telemetry.
RunningTotals(found) == {printed[c] : c \in found \cap Reporting}

FinalRunningTotal(totals) == Max(totals)

Judge(total) == IF total <= Budget THEN "PASS" ELSE "FAIL"

EvaluateBudgetGate(found, target) ==
    LET totals == RunningTotals(SpansInScope(found, target))
    IN  IF totals = {} THEN "NO_BUDGET_DATA" ELSE Judge(FinalRunningTotal(totals))

-----------------------------------------------------------------------------
\* The session goes on: a call that begins is a new span, a script that runs
\* prints its sandbox's total.
SessionStep ==
    LET begun == {c \in Calls : pc[c] = "idle" /\ pc'[c] = "starting"} IN
    /\ stage = "idle"
    /\ Sandbox!Next
    /\ spanOrder' = spanOrder \o SetToSeq(begun)
    /\ printed' = [c \in Calls |->
           IF script[c] # "ran" /\ script'[c] = "ran"
           THEN runningTotal'[sandboxOf[c]] ELSE printed[c]]
    /\ overlapped' = (overlapped \/ (begun \cap Mine # {} /\ Open # {}))
    /\ UNCHANGED scriptVars

\* StartQuery for both log groups, or it throws.
StartQueries ==
    /\ stage = "idle"
    /\ Open = {}
    /\ \/ stage' = "querying" /\ query' = [g \in LogGroups |-> "waiting"]
       \/ stage' = "threw" /\ UNCHANGED query
    /\ UNCHANGED <<sandboxVars, spanVars, attempts, downloaded, outcome>>

PollsLeft(g) == attempts[g] + 1 < MaxAttempts

CountPoll(g) == attempts' = [attempts EXCEPT ![g] = @ + 1]

\* A second later it asks how the query stands ...
Poll(g) ==
    /\ stage = "querying"
    /\ query[g] = "waiting"
    /\ query' = [query EXCEPT ![g] = "asked"]
    /\ UNCHANGED <<sandboxVars, spanVars, stage, attempts, downloaded, outcome>>

\* ... Complete, or Failed, Cancelled or throwing, or still running, which it
\* may be MaxAttempts - 1 times.
PollAnswered(g) ==
    /\ stage = "querying"
    /\ query[g] = "asked"
    /\ \/ /\ query' = [query EXCEPT ![g] = "complete"]
          /\ attempts' = [attempts EXCEPT ![g] = 0]
          /\ UNCHANGED stage
       \/ stage' = "threw" /\ UNCHANGED <<query, attempts>>
       \/ /\ PollsLeft(g)
          /\ CountPoll(g)
          /\ query' = [query EXCEPT ![g] = "waiting"]
          /\ UNCHANGED stage
    /\ UNCHANGED <<sandboxVars, spanVars, downloaded, outcome>>

\* The rows of both queries: some of what has ended.
Download ==
    /\ stage = "querying"
    /\ \A g \in LogGroups : query[g] = "complete"
    /\ stage' = "evaluating"
    /\ downloaded' \in [spans : SUBSET Ended, records : SUBSET Ended]
    /\ UNCHANGED <<sandboxVars, spanVars, attempts, query, outcome>>

\* findLastExecuteCodeSpanId: only spans have the name.
LastExecuteCode(spans) == {c \in spans : \A d \in spans : ~StartedBefore(c, d)}

\* One of the two Evaluate calls, which run beside each other, settles.
EvaluateAnswered(e) ==
    LET found == downloaded.spans \cup downloaded.records
        target == LastExecuteCode(downloaded.spans)
    IN  /\ stage = "evaluating"
        /\ outcome[e] = "none"
        /\ \/ outcome' = [outcome EXCEPT ![e] = "THREW"]
           \/ outcome' = [outcome EXCEPT ![e] =
                 IF e = "budgetGate" THEN EvaluateBudgetGate(found, target) ELSE "judged"]
        /\ UNCHANGED <<sandboxVars, spanVars, stage, attempts, query, downloaded>>

\* Promise.allSettled: both outcomes are printed, whatever either is.
Report ==
    /\ stage = "evaluating"
    /\ \A e \in Evaluators : outcome[e] # "none"
    /\ stage' = "reported"
    /\ UNCHANGED <<sandboxVars, spanVars, attempts, query, downloaded, outcome>>

ScriptProceeds == (\E g \in LogGroups : Poll(g)) \/ Download \/ Report

ServiceAnswers ==
    \/ \E g \in LogGroups : PollAnswered(g)
    \/ \E e \in Evaluators : EvaluateAnswered(e)

Next == SessionStep \/ StartQueries \/ ScriptProceeds \/ ServiceAnswers

Spec == Init /\ [][Next]_vars

\* The event loop of the script runs what is due.
FairSpec == Spec /\ WF_vars(ScriptProceeds)

-----------------------------------------------------------------------------
\* Nobody is failed who kept to the budget: whatever part of the telemetry is
\* found, in whatever order sandboxes ran, were lost and started again, a FAIL
\* means that the session's holds came to more than the budget.
FailedSessionIsOverBudget == outcome["budgetGate"] = "FAIL" => Held > Budget

\* Nothing failed, and every recording there was printed its total.
Clean == /\ Transcript \notin disturbed
         /\ Reporting = {c \in Mine : pc[c] # "idle"}
         /\ Reporting # {}

\* Judged over all of its spans, a session in which nothing failed gets the
\* verdict its holds deserve, however its recordings overlapped: the highest
\* total is then the final one.
HighestTotalIsFinal == Clean => EvaluateBudgetGate(Ended, {}) = Judge(Held)

\* The script narrows the gate to the span that started last.  That is enough
\* if, besides, no recording overlapped another and every span was found.
LastSpanHasFinalTotal ==
    Clean /\ ~overlapped /\ downloaded.spans = Ended =>
        outcome["budgetGate"] \in {"none", "THREW", Judge(Held)}

\* If the services answer, the script comes to a report or an error: it does
\* not poll a query for ever.
EvaluationEnds ==
    WF_vars(ServiceAnswers) => (stage = "querying" ~> stage \in {"reported", "threw"})
=============================================================================
