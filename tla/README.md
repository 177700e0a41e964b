# Wayfarer Concierge in TLA+

A verification project for the Wayfarer Concierge: a travel-booking assistant
that runs on AgentCore Runtime, talks to a model through Bedrock Converse, books
through an AgentCore Gateway guarded by Cedar policies, keeps a budget in a Code
Interpreter sandbox, remembers conversations in AgentCore Memory and writes
calendar events with a delegated credential.

Everything here is translated from the code. Paths below are relative to the
repository; `concierge/` stands for `src/concierge/`.

## 1. The system

One Node process (a microVM of the Runtime) serves invocations. Its memory holds
four maps and two memoised lookups; everything else is in services. The process
is single-threaded: code between two `await`s is atomic, and everything that can
go wrong happens at the awaits, in the services, or when the microVM is recycled
and its memory is lost.

| Component | Code | State it keeps | Operations |
|---|---|---|---|
| Session lock | `concierge/adapter/in-memory-session-lock.ts` | a promise per session | `runExclusive` |
| Caller turn | `concierge/usecase/respond-to-caller-message.ts`, `concierge/infra/handler.ts` | locals of the turn | recall, generate, record |
| Model client | `concierge/adapter/bedrock-converse-model-client.ts` | messages of the turn | `generateReply`: at most 8 Converse calls, each with a round of concurrent tool calls |
| Memory adapter | `concierge/adapter/agentcore-memory-adapter.ts` | none; events in AgentCore Memory | `recordTurn`, `getRecentTurns`, `getPreferences` |
| Booking tool executor | `concierge/usecase/booking-tool-executor.ts` | candidates shown, sessions with an unspent approval | search, hold, approve-hold |
| Gateway adapter, Policy, router Lambda | `concierge/adapter/booking-gateway-adapter.ts`, `infra/cdk/lib/booking-gateway-construct.ts`, `src/booking-gateway/` | none | four Cedar permits, mock holds |
| Price check | `concierge/adapter/browser-tool-price-check-adapter.ts` | none | one browser session per hold |
| Budget adapter | `concierge/adapter/code-interpreter-budget-adapter.ts` | a promise of a sandbox per session; the totals in the sandbox | `recordHold` |
| Calendar executor and adapter | `concierge/usecase/calendar-tool-executor.ts`, `concierge/adapter/delegated-calendar-adapter.ts` | none; a token vault in AgentCore Identity | `writeEvent` |
| Calendar OAuth server | `src/calendar-oauth-server/infra/` | a table of codes, refresh tokens and events | authorize, token, write and read events |
| Budget gate evaluator | `src/evaluations/budget-gate-evaluator/` | none | judges the highest running total of a session |
| On-demand evaluation | `scripts/run-on-demand-evaluation.mjs`, `scripts/run-evaluation-scenarios.mjs` | locals of the script | query two log groups, poll, evaluate twice, report |
| Tracing | `concierge/observability/tracing.ts` | two memoised lookups | spans, event records |
| Concierge UI and proxy | `tools/concierge-ui/src/App.tsx`, `tools/concierge-ui/proxy/server.mjs` | the token in session storage, the form, the chat; the proxy none | sign in, send, new session, sign out, reload |
| Inbound authentication | the Runtime's JWT authorizer, `concierge/adapter/cognito-jwt-verifier.ts` | none | refuse or name the Caller |
| The rest | knowledge base, signed fetch, domain types, CDK, build scripts | none that outlives a call | |

How they meet: the handler authenticates a message and gives it to
`respondToCallerMessage`, which runs under the session lock. A turn reads Memory,
loops over Converse calls, and writes Memory. A round of tool calls goes through
`Promise.all` to the executors, so the tool calls of a round run beside each
other, while rounds and turns of one session do not. Sessions share one executor,
one budget adapter and one lock, keyed by session. Every span with content sends
an event record on its own, beside whatever the turn does next; a script judges a
session by what arrived. The page talks to the Runtime through the proxy, and
neither learns what becomes of a turn it has given up on.

What is hard in it: state read before an await and used after it (approvals,
candidates, the cached sandbox); holds that are placed while their answer is
lost; a restart between an approval and its hold; failures that must not be
cached; the order of turns in a transcript under overlapping messages;
single-use codes and tokens under concurrent requests; a consent that is asked
for in one turn, given outside the system and used in another; an answer that
reaches a page which has moved on; telemetry of which any part may be missing.
`PROJECT.json` lists each hazard at its line with the properties that watch it.

What makes each component correct, in a sentence: the lock serves every session
one call at a time in arrival order and no failed or foreign call stops it; a
turn sees all of its recent conversation and nothing else; a hold above the
threshold needs the Caller's approval, and an approval is spent by a hold sent
with it, or by a hold of the round in which it was granted, and by nothing else;
every tool use of the model is answered by its own result; what is said to
be held is held; a session's holds add up in one sandbox until something fails,
and a failure heals with the next hold; a code or refresh token is redeemed once
at most; an event is in the calendar only by the consent of the Caller whose
request asked for it, a hold has one event, and the page shows a Caller only
what was said to that Caller; an event record is lost only to a failure of its
own; the evaluation fails nobody who kept to the budget, and ends.

## 2. Modules

| Module | Models |
|---|---|
| `FifoMutex` | abstract specification: a ticket lock per session |
| `SessionLock` | `InMemorySessionLock`, step by step |
| `ConciergeTurn` | a turn under `SessionLock` (by `INSTANCE`), the tool-use loop, Memory |
| `GatewayPolicy` | the Cedar permits and the wire form of a hold; no state |
| `BookingExecutor` | `BookingToolExecutor` over `GatewayPolicy`, rounds of concurrent calls, holds on the wire |
| `BudgetSandbox` | `CodeInterpreterBudgetAdapter` and the Python state of its sandboxes |
| `ConsentLineage` | abstract specification: what bears a consent, one thing at a time |
| `CalendarOAuth` | the authorization server's requests over its table, step by step |
| `EventRecords` | `withSpan`, the memoised log group and log stream, the delivery of event records |
| `OnDemandEvaluation` | the evaluation script and the budget gate, over `BudgetSandbox` (by `INSTANCE`) |
| `ConciergeUI` | the page and its proxy |
| `CalendarWrite` | `CalendarToolExecutor` and `DelegatedCalendarAdapter`, Identity's vault, the calendar |
| `ConsentHandshake` | composes `ConciergeUI` and `CalendarWrite` with authorizer, verifier, lock and turn |
| `MC*` | instances for TLC |
| `*Proofs` | theorems, see section 5 |

**SessionLock.** `queueBySessionId` is the map; the promise at the end of a chain
is named by the call it belongs to, `previous[c]` is the promise call `c`
captured and `promise[c]` where the promise of its `fn` stands. `RunExclusive` is
the synchronous part of `runExclusive`, `StartFn` the reaction `then(fn, fn)`,
`SettleFn` the end of `fn` with either outcome. `ticket`, `issued` and
`completed` are history variables: no action reads them. The refinement maps
`FifoMutex!inside` to the running calls and the three history variables to
themselves.

**ConciergeTurn.** `awaits[t]` is the external call a turn is suspended at;
`Invoke`, `StartTurn` and `Return` are the lock's actions with the turn's own
state. Each service answer is an action with every outcome the code handles.
`content[t]` is the model's last message that asked for tools, block by block: a
toolUse with or without a name, or a block without a `toolUseId`, which gets no
call. The calls of a round settle one by one, in any order (`settled[t]`, a
sequence of what they returned), and `RoundOver` pushes what `Promise.all` makes
of it (`PromiseAll`): beside each call its own result. An event sent to
`CreateEvent` lands once, now or later or never (`EventLands`), whatever the
adapter was told; `created` is the order of `eventTimestamp`s, and `ListEvents`
the answers Memory may give by it: the events of the conversation, newest first,
or the newest of them up to the limit. Locals go back to their initial values
when the turn is over. `disturbed` is history.

**BookingExecutor.** `StartRound` is `Promise.all` over `execute`: every call of
the round runs to its first await in one step, and a hold reads the approval and
the candidate in that step. From there `pc[c]` names the await and `wire[c]`
what became of the request at the Gateway, which decides on its own time:
`HoldUnanswered` may give up on a request that is placed a moment later.
`grantsSeen[c]`, history, is how many approvals the session had been given when
`c` started.
`hold-flight` and `hold-hotel` are the same code over two maps and are one
action here. Prices are live prices in whole units; the candidate's quoted price
never flows into a hold and is left out. A `found` set is what a search will
return.

**BudgetSandbox.** A `start` is the promise in the cache and then the sandbox it
yields. `StartRejects` deletes the entry in the step in which the promise
rejects, because the deletion is hung on the promise before anybody awaits it.
Scripts run in their sandbox at any later moment, or never. A breakdown is a
dictionary, with an entry for each key that a hold has named (`FoldIn`). Amounts
are in cents of the home currency, already converted and rounded; the rate table
is data.

**CalendarOAuth.** A request is at one of its awaits (`pc`): the delete, the put,
the put of an event. A code or refresh token is named by the request that made
it, so `table` is a set of requests and `ttl[r]` the lifetime put beside `r`.
`TakeItem` is the conditional delete; its answer may be lost, and then the SDK's
retry runs into `TakeNothing`, as any later taker does. `CheckRecord` is what the
code does when the answer is back: expiry, redirect and verifier are judged then,
with the clock of then, and the item is gone whatever the verdict. `Answered`
tells the client, or nobody. A put can land and then fail, or land twice. The
table's own sweep is an action of its own. `took` and `consent` are history. The
refinement maps the bearers of a consent to its items in the table and to the
requests between a take and a put.

**EventRecords.** A span is `running` between `startActiveSpan` and the
`finally` block of `withSpan`; `EndSpan` is that block, with everything
`emitEventRecord` does before its first unsettled await. `logGroupNamePromise`
is the memo. All spans that end while it is pending wait for the same answer
(`Waiting`) and resume together. A failed lookup empties the memo in the step in
which it fails, because the `catch` is hung on the promise before any waiter is.
Log groups are numbered by creation; `Newest` is the sort. The comment above
`ensureLogStream` (`tracing.ts:127-129`) says that a concurrent second call must
not also attempt the creation; it does, and the second attempt finds the stream
there, which the code takes for success. `Recycle` loses memos and emissions,
and a record on the wire may still arrive. What a record says is fixed when its
span ends, and no later step touches it: its text is left out.

**OnDemandEvaluation.** The session goes on as in `BudgetSandbox` until the
script starts its queries; `spanOrder` is the order in which `executeCode` spans
began, `printed[c]` the total in the snapshot of call `c`. `Poll` and
`PollAnswered` are one turn of the polling loop for each of the two log groups,
with its limit. `Download` picks any part of what has ended: telemetry is best
effort and the queries are limited to 500 rows. `EvaluateBudgetGate` is the
evaluator: restrict to the target span if anything bears its id, take every
total, judge the highest. Rows are sets; the search through nested JSON is what
it finds.

**ConciergeUI, CalendarWrite, ConsentHandshake.** A chat is named by the session
id it was mounted with, so `mount` tells the chat on the page from those that
were left; a request remembers the chat, session and token it was sent with.
What a `fetch` sets in a chat that is gone, it sets nowhere (`InChat`), but a
late 401 signs out whoever is signed in, and a late reply shows in its chat
whatever session the chat is at: *New session* enables Send again and does not
unmount it. `CalendarWrite` has the awaits of one call, the vault of Identity by
Caller, and the calendar by hold (`EventKey`); the event lands at any time after
the POST and replaces the one filed under its key. A call may name any hold:
neither the executor nor the adapter nor the calendar asks whose it is
(`calendar-tool-executor.ts:32-41`), and as every token of the calendar is the
one subject's (`router.ts:10`, `store.ts:116`), a write of another Caller for
the same hold replaces the event. `ConsentHandshake` lets page, turn, calendar
and approval each go at their own pace: `RequestFails` gives up on a request
whose turn goes on, `TurnStarts` is the verifier and the lock, and whoever is
signed in may follow the URL that is shown.

## 3. Runs

| Run | Asks | Size |
|---|---|---|
| `session_lock` | mutual exclusion, refinement of the ticket lock, and progress, for three calls of one session and one of another | about 1 thousand states |
| `concierge_turn` | transcripts complete and truthful, every tool use answered by its own result, for four turns of one conversation | about 2.1 million |
| `concierge_turn_ends` | every message gets its answer, conversations stay apart, for two sessions | about 200 thousand |
| `booking_executor` | what guards gated holds, when approvals are spent, what is reported | about 2.8 million |
| `budget_sandbox` | one sandbox per undisturbed session, nothing failed is cached, breakdowns add up | about 150 thousand |
| `calendar_oauth` | are codes and tokens single-use, every grant within its lifetime and proved, every refusal justified, for four requests | about 93 thousand |
| `event_records` | is a record lost only to a failure of its own and kept with its process's others, for three spans with content, two groups and two processes | about 14 thousand |
| `on_demand_evaluation` | does the verdict follow from the holds, and does the script end | about 960 thousand |
| `consent_handshake` | whose consent is behind an event, whose and how true is what the page shows, and does it get stuck, for three requests and two Callers | about 1.7 million |
| `approval_reuse` | expects a violation, see section 4 | |
| `unchecked_price` | expects a violation | |
| `total_resets` | expects a violation | |

Bounds, and why they are enough. *Calls*: an interference needs two calls at an
await and a third that arrives meanwhile; the lock has three in one session so
that one waits behind a waiting one, the sandbox has three in one session so
that a hold of a later round meets the failure of an earlier one, the executor
has four over two sessions so that search, approve-hold and two holds fit in one
session and an approval could leak to the other. *MaxRounds* = 3: search,
approve, hold. *Candidates*: one at the threshold and one above. *Starts* = 3: a
failed, a lost and a fresh one. *Requests* = 4: an authorize, an exchange, and
two more that race, rotate again or write. *MaxTime* = 2 with lifetimes of 1: a
credential is young, in its last second, and expired. *RecentTurnsLimit* = 2
with four turns: the limit cuts, and the order of what is left shows.
*MaxToolUseRounds* = 2: one round that is followed by another Converse call and
one that is cut off; *MaxBlocks* = 2: two calls that settle in either order, or
one beside a block that gets none. *EventRecords*: two spans that wait for one
lookup and a third that ends after it; a group that is older and one that
appears meanwhile; a process and the next, which share the stream but not the
memos. *OnDemandEvaluation*: two holds and two sandboxes, so that the second
follows in the same sandbox, overlaps the first or begins anew; *Budget* = 2,
which one hold keeps and two do not; *MaxAttempts* = 2, one poll in vain.
*ConsentHandshake*: three requests are one that is told to consent, one that
writes, and a third, of the other Caller or late; two Callers and two holds, of
which either may name either; two session ids, so that a chat is left for
another or renewed. Symmetry is used over calls, sessions, starts, turns, spans,
requests, Callers or holds that are interchangeable, and in no run that checks a
liveness property. Deadlock is checked for the lock and the turns, whose models
say when everything is over; the executor, the sandbox, the authorization
server, the event records, the evaluation and the page really may stop, when all
calls are used, and their runs say so.

Fairness. `SessionLock` and `ConciergeTurn` assume weak fairness only of what the
event loop does by itself: a reaction that is due runs. That `fn` ends, or that a
service answers, is no fact of this code: it sets no timeout. Those are premises
inside the properties (`NoTurnHangs`, and the fairness of `ServiceAnswers` in
`EveryTurnEnds`). `OnDemandEvaluation` is fair to what the script does by itself
(`ScriptProceeds`), and that the services answer is a premise of `EvaluationEnds`.
The other modules have no liveness property: nothing in their code promises that
a service answers, retries what failed, or that a Caller comes back.

## 4. What the code does not keep

Three documented statements do not hold; each has a run that TLC refutes.

* `ApprovalConsumedByOneHold`: PRD REQ-POLICY-005 says an approve-hold is
  consumed by at most one hold. Two holds above the threshold in one round both
  read the approval (`booking-tool-executor.ts:163`) before either consumes it
  (`:183`). What does hold, and is proved, is `OneRoundPerApproval`.
* `EveryHoldPriceChecked`: `ports.ts:149` says a price check runs before every
  hold, for every candidate. A candidate the process has not searched (or has
  forgotten with its memory) is held without one (`booking-tool-executor.ts:165`);
  Policy stops it unless the session holds an approval.
* `RunningTotalOnlyGrows`: the budget gate evaluator takes a session's highest
  total for its last. A sandbox replaced after a failed invocation, an expiry or
  a restart starts from zero.

Six more were met and have no run of their own, as nothing goes wrong by them or
the properties are stated around them. An approval leaves its session "the
moment a hold sent with that approval succeeds"
(`booking-tool-executor.ts:79-81`); but `consumeApproval` (`:183`) deletes
whatever approval is there, so that one granted in a round may be deleted by a
hold of that round which was sent with the one before: of two holds, the first
is confirmed and spends the approval, an approve-hold beside them grants a new
one, and the confirmation of the second deletes that. The Caller is asked again.
`ApprovalSurvivesFailure` names this case as the only one. A hold whose answer
is lost leaves its approval to a second hold, which may be placed beside the
first (`:165-183`): the Gateway's decision is not known to the executor, and no
property counts it. The concurrent `CreateLogStream` calls above.
`run-evaluation-scenarios.mjs:28` gives the budget as $3800, the constant is
3600 (`scenario-budget.ts:21`). The script hands the gate the `executeCode` span
that started last; when recordings of a round overlap, that span may have the
smaller total, or none and the verdict is `NO_BUDGET_DATA`:
`LastSpanHasFinalTotal` therefore assumes that none overlapped, while
`HighestTotalIsFinal`, over all spans, need not. A 401 that arrives late signs
out a Caller whose token is good.

## 5. Theorems

Proved by TLAPS for every value of the constants, from the assumptions the
modules name (types of the constants, a positive threshold, null values outside
the sets they stand beside).

* `SessionLockProofs`: type correctness; `ChainInvariant`; mutual exclusion; the
  refinement of `FifoMutex`. Mutual exclusion is not inductive: it needs that
  tickets number a session's chain without gaps (`ChainHasNoGaps`), that the
  chain's end is the last arrival, and that the settled calls are the first
  tickets (`ServedInOrder`). The refinement then maps each step to `Arrive`,
  `Enter`, `Leave` or a stutter.
* `BookingExecutorProofs`: type correctness; `GatedHoldsWereApproved`,
  `CallerAskedOnlyWhenGated`, `NothingHeldOnPaper`. The invariant follows a call
  through its awaits: once a request is on the wire, the price and the approval
  it carried do not change, so Policy's decision stays what Policy would decide.
  On top of it `OneRoundPerApproval`, by accounting: rounds that spent an
  approval, plus the approval at hand, are at most the grants; a running call
  whose approval is gone lost it to a sibling of the same round, since the next
  round has not begun. `ApprovalSurvivesFailure` is an action property and needs
  one fact more (`GrantsSeen`): while a call runs, the last approval its session
  was given is either the one it found when it started or one granted in its own
  round, since no other round of the session runs beside it.
* `BudgetSandboxProofs`: type correctness; `CacheNeverPoisoned`, which rests on
  a session's entry only ever holding starts made for that session;
  `LostSandboxNotReused`. `SumsInvariant` adds what is in the sandboxes: each
  serves the session it was started for, its total is the sum over the scripts
  that ran in it, and an undisturbed session has one start. Hence
  `UndisturbedTotalIsComplete` and `BreakdownsAddUp`. What a sum over a finite
  set is would be shown by induction on the set, which is out of reach; the
  lemmas take a minimal set for which the statement fails instead, which exists
  by the well-foundedness of the naturals, and remove one element from it.
* `OnDemandEvaluationProofs`: type correctness; `FailedSessionIsOverBudget`,
  `HighestTotalIsFinal`, `LastSpanHasFinalTotal`. It takes the invariant of
  `BudgetSandboxProofs` over by `INSTANCE`. `EvaluationInvariant` adds that a
  printed total is within the total of its sandbox, a sum over some of its
  session's holds; that some call has printed all of it and, if the recordings
  of an undisturbed session came one after the other, the one that began last;
  and that the verdict is about spans that were found.
* `CalendarOAuthProofs`: type correctness; `ImplementsConsentLineage`. One
  bearer per consent is not inductive: it needs that only credentials handed out
  are presented, that these have landed, that nothing descends from a code that
  has not, and that a put still under way has its item in the table once it
  landed. On top of it `GrantedInLifetime`, and `ProvedConsent` by following
  consents from the exchange that proved them through rotations to events.
  `GrantedIsStored` and `RefusedForAReason` lean on each other: a request that
  finds nothing presents what was handed out, so that it is gone for a reason,
  and no step undoes a reason (`Stays`).
* `ConciergeTurnProofs`: type correctness; `EveryToolUseAnswered`,
  `TranscriptIsTruthful`, `TranscriptIsComplete`. The first needs that no call
  settles twice (`SettledOnce`), so that what is chosen for a call is all that
  is there of it, and nothing that settled is left over when the round ends, in
  whatever order that was (`RoundOverMessages`). The transcripts rest on the
  order of turns: in each session one runs only when all that arrived before it
  are over, which is inductive once a waiting turn is known to wait for the last
  of those, and which a recycle keeps, since it ends all of them at once. So the
  events of a session are sent in arrival order, every event is a replied
  turn's, and every replied turn that Memory did not fail has one. What is over
  when a turn recalls stays as it is while the turn runs. `MemoryAnswers` shows
  that the success branch is never without an answer to take: the newest events
  within the limit exist.
* `EventRecordsProofs`: type correctness; `RecordsLostForAReason`,
  `RecordsKeptTogether`. The invariant says what an emission knows at each
  await: past the lookup its group is the one its process found, past the
  creation the stream is there, so that a put can only fail for a service's
  reason; and that a process has no record before its lookup answered.
* `ConsentHandshakeProofs`: type correctness; `SendNeverWedged`,
  `EventsHaveConsent`, `ShownIsOwn`, `ShownIsTrue`. The invariant has a part
  about the page alone (`Page`: the chat on it is newer than every chat that was
  left), one about the calendar alone (`Writes`: by the POST, the credential and
  the approval are the invocation's Caller's; what landed is still there or was
  replaced by one event for the same hold), and the link between them (`Turns`:
  the call acts for the Caller whose token the request bore). Each half is kept
  by its own steps; the approval is the one step that needs both, since it is
  the page that says who approves.

Only model-checked: the liveness properties `EveryCallGetsItsTurn`,
`EveryTurnEnds` and `EvaluationEnds`, since neither fairness nor ENABLED is in the
prover's reach. Every other property of a passing run is stated by a theorem.

## 6. Not modelled, and the plan

Left out for good: prompt texts, Guardrail configuration, the names and wording
of span attributes and the redaction of tokens in them, the X-Ray exporter (a
signed request for each batch), knowledge base retrieval (a read), the MCP and
signing plumbing, the Playwright browser (one shot, keeps nothing), value
parsers (what they refuse is a failed call), CDK constructs other than the Cedar
policies, the build scripts and the one-off scenario driver. They keep no state
between calls. Assumed: every path of the executors ends in a result and never
rejects (each adapter was read for it; `close()` of the Gateway client is caught
for this reason, `booking-gateway-adapter.ts:176`); the `toolUseId`s of a
message differ; the words by which `isPolicyDenial` tells a denial
(`booking-gateway-adapter.ts:27-37`) are in Policy's denials only; the events of
a conversation are those `recordTurn` wrote, so that `parseTurns` skips none; a
turn arrives when it is queued, after its token was verified
(`handler.ts:51-55`); a token request reads one clock when its answer is back,
where the code reads it for each comparison; a query without an id is one of the
queries that fail (`run-on-demand-evaluation.mjs:141-143`); between the
rejection of a start and the deletion hung on it first no request or answer is
served; one process at a time serves a session, as the Runtime routes it; an
attempt at the OAuth table that the SDK gave up on has landed by then or never
will, and the Lambdas that serve the table share a clock; the model relays what
a tool told it, where `ShownIsTrue` speaks of what is shown.

Left to do, in this order:

1. A composition of `ConciergeTurn` with `BookingExecutor`: turns that fail after
   a hold was placed (`bedrock-converse-model-client.ts:125`).
2. A composition of `CalendarWrite` with `CalendarOAuth`: the vault's credential
   as one that is rotated, rather than present or lapsed.
3. Proofs: that the compositions keep what is proved of their parts, by
   refinement of the parts rather than again from their actions.
