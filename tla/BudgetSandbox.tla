--------------------------- MODULE BudgetSandbox ---------------------------
(***************************************************************************)
(* CodeInterpreterBudgetAdapter with the sandboxes it starts.  The adapter *)
(* caches, per runtime session, the promise of the sandbox it started last *)
(* (not the sandbox's id), so that the holds of one round share one start. *)
(* The budget itself is not in the adapter: it is the Python state of a    *)
(* sandbox, which starts empty and dies with the sandbox.                  *)
(*                                                                         *)
(* A start stands for the promise, and then for the sandbox it yields. A   *)
(* recordHold call is suspended first at the start it found or made, then  *)
(* at the invocation it sent.  A script that was sent runs in its sandbox  *)
(* at some later moment or never, whether or not anybody still waits.      *)
(* Amounts are what the script folds in: cents of the home currency, after *)
(* conversion and rounding.                                                *)
(***************************************************************************)
EXTENDS Naturals, FiniteSets, Functions

CONSTANTS
    Calls,       \* recordHold calls, each made at most once
    Sessions,    \* runtime session ids
    Starts,      \* sandbox starts (bound: how many there can be)
    Cities, Categories,
    Hold,        \* Hold[c]: the session, city, category and home amount of call c
    NoStart      \* an empty cache entry, no start or no session

HoldRecord ==
    [session : Sessions, city : Cities, category : Categories, amount : Nat \ {0}]

ASSUME HoldAssumption == Hold \in [Calls -> HoldRecord]
ASSUME NoStartAssumption == NoStart \notin Starts \cup Sessions

VARIABLES
    sandboxSessionByRuntimeSession,  \* the adapter's cache
    start,      \* start[x]: where the promise, then the sandbox, stands
    startedFor, \* startedFor[x]: the session x was started for
    pc,         \* where each call is
    sandboxOf,  \* sandboxOf[c]: the start call c holds
    script,     \* script[c]: what became of c's script
    result,
    \* the Python globals of each sandbox
    runningTotal, byCity, byCategory,
    \* history
    latestTotal,  \* latestTotal[s]: the total the last script run for s printed
    disturbed     \* sessions some start, invocation, sandbox or process of which failed

cache == sandboxSessionByRuntimeSession
adapterVars == <<pc, sandboxOf, result>>
budgetVars == <<runningTotal, byCity, byCategory>>
vars == <<sandboxSessionByRuntimeSession, start, startedFor, adapterVars, script,
          budgetVars, latestTotal, disturbed>>

SessionOf(c) == Hold[c].session
Amount == [c \in Calls |-> Hold[c].amount]

\* The breakdowns of the sandboxes: an entry for each key that a hold named.
AreBreakdowns(by, keys) ==
    /\ by = [x \in Starts |-> by[x]]
    /\ \A x \in Starts : /\ DOMAIN by[x] \subseteq keys
                        /\ by[x] \in [DOMAIN by[x] -> Nat]

TypeOK ==
    /\ cache \in [Sessions -> Starts \cup {NoStart}]
    /\ start \in [Starts -> {"unused", "pending", "live", "rejected", "gone"}]
    /\ startedFor \in [Starts -> Sessions \cup {NoStart}]
    /\ pc \in [Calls -> {"idle", "starting", "executing", "done", "lost"}]
    /\ sandboxOf \in [Calls -> Starts \cup {NoStart}]
    /\ script \in [Calls -> {"none", "sent", "ran", "raised"}]
    /\ result \in [Calls -> {"none", "snapshot", "SandboxUnavailable", "ExecutionFailed"}]
    /\ runningTotal \in [Starts -> Nat]
    /\ AreBreakdowns(byCity, Cities)
    /\ AreBreakdowns(byCategory, Categories)
    /\ latestTotal \in [Sessions -> Nat]
    /\ disturbed \subseteq Sessions

Init ==
    /\ cache = [s \in Sessions |-> NoStart]
    /\ start = [x \in Starts |-> "unused"]
    /\ startedFor = [x \in Starts |-> NoStart]
    /\ pc = [c \in Calls |-> "idle"]
    /\ sandboxOf = [c \in Calls |-> NoStart]
    /\ script = [c \in Calls |-> "none"]
    /\ result = [c \in Calls |-> "none"]
    /\ runningTotal = [x \in Starts |-> 0]
    /\ byCity = [x \in Starts |-> [a \in {} |-> 0]]
    /\ byCategory = [x \in Starts |-> [a \in {} |-> 0]]
    /\ latestTotal = [s \in Sessions |-> 0]
    /\ disturbed = {}

Return(c, r) ==
    /\ pc' = [pc EXCEPT ![c] = "done"]
    /\ result' = [result EXCEPT ![c] = r]

-----------------------------------------------------------------------------
(* Plausible slips, used to show that the properties depend on the code.   *)

\* the cache is read as the id of a sandbox that has answered, so a start
\* still under way is not found
CachedSettledOnly(s) ==
    IF cache[s] # NoStart /\ start[cache[s]] # "pending" THEN cache[s] ELSE NoStart

\* a start that rejects stays in the cache
KeepRejected(s) == UNCHANGED cache

\* a call whose sandbox was lost leaves it in the cache
KeepLost(s) == UNCHANGED cache

\* a map of one entry instead of one per session
CacheSingle(s, x) == sandboxSessionByRuntimeSession' = [t \in {s} |-> x]

\* the running total is folded in before the script looks the rate up
ScriptRaisesLate(c) ==
    LET x == sandboxOf[c] IN
    /\ script[c] = "sent"
    /\ start[x] = "live"
    /\ script' = [script EXCEPT ![c] = "raised"]
    /\ runningTotal' = [runningTotal EXCEPT ![x] = @ + Hold[c].amount]
    /\ UNCHANGED <<cache, start, startedFor, adapterVars, byCity, byCategory,
                   latestTotal, disturbed>>

-----------------------------------------------------------------------------
\* sandboxSessionByRuntimeSession.get(sessionId)
Cached(s) == cache[s]

CachePut(s, x) ==
    sandboxSessionByRuntimeSession' = [sandboxSessionByRuntimeSession EXCEPT ![s] = x]

\* starting.catch(() => delete): whatever the map holds for s by then.
DropRejected(s) == CachePut(s, NoStart)

\* the delete after a throw or a broken stream: whatever the map holds by then
DropLost(s) == CachePut(s, NoStart)

\* recordHold up to its first await, ensureSandboxSession included.
RecordHold(c) ==
    LET s == SessionOf(c) IN
    /\ pc[c] = "idle"
    /\ pc' = [pc EXCEPT ![c] = "starting"]
    /\ \/ /\ Cached(s) # NoStart
          /\ sandboxOf' = [sandboxOf EXCEPT ![c] = Cached(s)]
          /\ UNCHANGED <<cache, start, startedFor>>
       \/ /\ Cached(s) = NoStart
          /\ \E x \in Starts :
               /\ start[x] = "unused"
               /\ start' = [start EXCEPT ![x] = "pending"]
               /\ startedFor' = [startedFor EXCEPT ![x] = s]
               /\ sandboxOf' = [sandboxOf EXCEPT ![c] = x]
               /\ CachePut(s, x)
    /\ UNCHANGED <<script, result, budgetVars, latestTotal, disturbed>>

\* StartCodeInterpreterSession answers with a session id.
StartResolves(x) ==
    /\ start[x] = "pending"
    /\ start' = [start EXCEPT ![x] = "live"]
    /\ UNCHANGED <<cache, startedFor, adapterVars, script, budgetVars,
                   latestTotal, disturbed>>

\* It throws or answers without one.  The deletion was hung on the promise
\* before any caller awaited it, so it runs before they hear of the failure.
StartRejects(x) ==
    /\ start[x] = "pending"
    /\ start' = [start EXCEPT ![x] = "rejected"]
    /\ DropRejected(startedFor[x])
    /\ disturbed' = disturbed \cup {startedFor[x]}
    /\ UNCHANGED <<startedFor, adapterVars, script, budgetVars, latestTotal>>

\* A call hears that its start was rejected ...
StartUnavailable(c) ==
    /\ pc[c] = "starting"
    /\ start[sandboxOf[c]] = "rejected"
    /\ Return(c, "SandboxUnavailable")
    /\ UNCHANGED <<cache, start, startedFor, sandboxOf, script, budgetVars,
                   latestTotal, disturbed>>

\* ... or that it resolved, and sends its script there.
SendScript(c) ==
    /\ pc[c] = "starting"
    /\ start[sandboxOf[c]] \in {"live", "gone"}
    /\ pc' = [pc EXCEPT ![c] = "executing"]
    /\ script' = [script EXCEPT ![c] = "sent"]
    /\ UNCHANGED <<cache, start, startedFor, sandboxOf, result, budgetVars,
                   latestTotal, disturbed>>

\* breakdown[key] = breakdown.get(key, 0.0) + amount
FoldIn(breakdown, key, amount) ==
    LET was == IF key \in DOMAIN breakdown THEN breakdown[key] ELSE 0
    IN  [k \in DOMAIN breakdown \cup {key} |->
            IF k = key THEN was + amount ELSE breakdown[k]]

\* The script buildBudgetConversionScript writes, run in its sandbox.
ScriptRuns(c) ==
    LET x == sandboxOf[c]
        h == Hold[c] IN
    /\ script[c] = "sent"
    /\ start[x] = "live"
    /\ script' = [script EXCEPT ![c] = "ran"]
    /\ runningTotal' = [runningTotal EXCEPT ![x] = @ + h.amount]
    /\ byCity' = [byCity EXCEPT ![x] = FoldIn(@, h.city, h.amount)]
    /\ byCategory' = [byCategory EXCEPT ![x] = FoldIn(@, h.category, h.amount)]
    /\ latestTotal' = [latestTotal EXCEPT ![h.session] = runningTotal[x] + h.amount]
    /\ UNCHANGED <<cache, start, startedFor, adapterVars, disturbed>>

\* It raises (no rate for the currency): before it has touched the state.
ScriptRaises(c) ==
    /\ script[c] = "sent"
    /\ start[sandboxOf[c]] = "live"
    /\ script' = [script EXCEPT ![c] = "raised"]
    /\ UNCHANGED <<cache, start, startedFor, adapterVars, budgetVars,
                   latestTotal, disturbed>>

\* The stream yields the result of the run: a snapshot, or ExecutionFailed for
\* an error, an unreadable stdout or no event at all.  The cache keeps the
\* sandbox either way.
InvokeAnswered(c) ==
    /\ pc[c] = "executing"
    /\ \E r \in {"snapshot", "ExecutionFailed"} :
         /\ r = "snapshot" => script[c] = "ran"
         /\ Return(c, r)
    /\ UNCHANGED <<cache, start, startedFor, sandboxOf, script, budgetVars,
                   latestTotal, disturbed>>

\* The invocation throws, the stream breaks or it carries a named exception,
\* before or after the script has run.
InvokeUnavailable(c) ==
    /\ pc[c] = "executing"
    /\ DropLost(SessionOf(c))
    /\ Return(c, "SandboxUnavailable")
    /\ disturbed' = disturbed \cup {SessionOf(c)}
    /\ UNCHANGED <<start, startedFor, sandboxOf, script, budgetVars, latestTotal>>

\* SESSION_TIMEOUT_SECONDS after its start the service ends the sandbox.
SandboxExpires(x) ==
    /\ start[x] = "live"
    /\ start' = [start EXCEPT ![x] = "gone"]
    /\ disturbed' = disturbed \cup {startedFor[x]}
    /\ UNCHANGED <<cache, startedFor, adapterVars, script, budgetVars, latestTotal>>

\* The Runtime recycles the microVM and the adapter's memory with it.
Recycle ==
    /\ sandboxSessionByRuntimeSession' = [s \in Sessions |-> NoStart]
    /\ start' = [x \in Starts |-> IF start[x] = "pending" THEN "gone" ELSE start[x]]
    /\ pc' = [c \in Calls |-> IF pc[c] \in {"starting", "executing"} THEN "lost" ELSE pc[c]]
    /\ disturbed' = Sessions
    /\ UNCHANGED <<startedFor, sandboxOf, result, script, budgetVars, latestTotal>>

Next ==
    \/ \E c \in Calls :
          \/ RecordHold(c) \/ StartUnavailable(c) \/ SendScript(c)
          \/ ScriptRuns(c) \/ ScriptRaises(c) \/ InvokeAnswered(c) \/ InvokeUnavailable(c)
    \/ \E x \in Starts : StartResolves(x) \/ StartRejects(x) \/ SandboxExpires(x)
    \/ Recycle

Spec == Init /\ [][Next]_vars

-----------------------------------------------------------------------------
\* A rejected start is never found in the cache: the next hold starts afresh
\* instead of failing on it for ever.
CacheNeverPoisoned ==
    \A s \in Sessions : cache[s] # NoStart => start[cache[s]] # "rejected"

\* As long as nothing fails, the concurrent holds of a session share a single
\* sandbox, so its running total is the sum of every hold recorded for it.
UndisturbedTotalIsComplete ==
    \A s \in Sessions \ disturbed :
        /\ Cardinality({x \in Starts : startedFor[x] = s}) <= 1
        /\ latestTotal[s] =
              SumFunctionOnSet(Amount, {c \in Calls : SessionOf(c) = s /\ script[c] = "ran"})

\* In every sandbox, alive or gone, the breakdowns by city and by category
\* account for exactly the running total, whatever scripts ran or raised in it.
BreakdownsAddUp ==
    \A x \in Starts :
        /\ runningTotal[x] = SumFunction(byCity[x])
        /\ runningTotal[x] = SumFunction(byCategory[x])

\* The hold that hears of a lost sandbox and the starts that enter the cache.
LetsLostSandboxGo ==
    /\ \A c \in Calls :
          result[c] # "SandboxUnavailable" /\ result'[c] = "SandboxUnavailable"
          => cache'[SessionOf(c)] # sandboxOf[c]
    /\ \A s \in Sessions :
          cache'[s] # cache[s] /\ cache'[s] # NoStart => start[cache'[s]] = "unused"

\* A hold that ends in SandboxUnavailable does not leave the sandbox it used to
\* the next hold, and what enters a session's cache is always a start made just
\* then: once the cache has let a sandbox go, that sandbox never returns.
LostSandboxNotReused == [][LetsLostSandboxGo]_vars

-----------------------------------------------------------------------------
\* budget-gate-evaluator/handler.ts, on the figure it judges: "The Running
\* total only ever grows across a session's holds".
RunningTotalOnlyGrows ==
    [][\A s \in Sessions : latestTotal'[s] >= latestTotal[s]]_latestTotal
=============================================================================
