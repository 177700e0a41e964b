---------------------------- MODULE SessionLock ----------------------------
(***************************************************************************)
(* InMemorySessionLock: one chain of promises per runtime session.  A call *)
(* of runExclusive reads the promise at the end of its session's chain,    *)
(* hangs its own work on it with previous.then(fn, fn), and becomes the    *)
(* end of the chain.  No queue is stored anywhere: what each call waits    *)
(* for is the promise it captured.                                         *)
(*                                                                         *)
(* ticket, issued and completed are history variables: they record the     *)
(* order in which calls arrived and how many are over, and no action reads *)
(* them.  They are what the refinement of FifoMutex is stated with.        *)
(***************************************************************************)
EXTENDS Naturals

CONSTANTS
    Calls,      \* invocations of runExclusive, each used at most once
    Sessions,   \* runtime session ids
    SessionOf,  \* the sessionId argument of each call
    NoCall      \* the already resolved promise an empty chain starts from

ASSUME SessionOfAssumption == SessionOf \in [Calls -> Sessions]
ASSUME NoCallAssumption == NoCall \notin Calls

VARIABLES
    queueBySessionId,  \* the call whose promise ends each session's chain
    previous,          \* previous[c]: the call whose promise c captured
    promise,           \* promise[c]: where the promise of c's fn stands
    ticket, issued, completed  \* history, see above

lockVars == <<queueBySessionId, previous, promise>>
historyVars == <<ticket, issued, completed>>
vars == <<queueBySessionId, previous, promise, ticket, issued, completed>>

Unsettled == {"waiting", "running"}
Outcomes == {"fulfilled", "rejected"}

Settled(c) == promise[c] \in Outcomes

TypeOK ==
    /\ queueBySessionId \in [Sessions -> Calls \cup {NoCall}]
    /\ previous \in [Calls -> Calls \cup {NoCall}]
    /\ promise \in [Calls -> {"none"} \cup Unsettled \cup Outcomes]
    /\ ticket \in [Calls -> Nat]
    /\ issued \in [Sessions -> Nat]
    /\ completed \in [Sessions -> Nat]

Init ==
    /\ queueBySessionId = [s \in Sessions |-> NoCall]
    /\ previous = [c \in Calls |-> NoCall]
    /\ promise = [c \in Calls |-> "none"]
    /\ ticket = [c \in Calls |-> 0]
    /\ issued = [s \in Sessions |-> 0]
    /\ completed = [s \in Sessions |-> 0]

-----------------------------------------------------------------------------
(* Plausible slips in the same few lines, used to show that the properties *)
(* below depend on them.                                                   *)

\* previous.then(fn): a rejected predecessor skips fn.
PredecessorOverFulfilledOnly(c) ==
    previous[c] # NoCall => promise[previous[c]] = "fulfilled"

\* next is chained on previous but never stored as the end of the chain once
\* the chain exists, so a third call hangs on the same promise as the second.
ExtendChainFirstOnly(c) ==
    queueBySessionId' =
        [queueBySessionId EXCEPT ![SessionOf[c]] = IF @ = NoCall THEN c ELSE @]

\* one promise is kept for the whole lock instead of one per session
ExtendOnlyChain(c) == queueBySessionId' = [s \in {SessionOf[c]} |-> c]

\* the work is started without waiting at all
PredecessorOverIgnored(c) == TRUE

-----------------------------------------------------------------------------
\* The reaction previous.then(fn, fn) is due: on either outcome.
PredecessorOver(c) == previous[c] # NoCall => Settled(previous[c])

\* queueBySessionId.set(sessionId, next.catch(...)): the stored promise
\* settles exactly when next does, and never rejects.
ExtendChain(c) ==
    queueBySessionId' = [queueBySessionId EXCEPT ![SessionOf[c]] = c]

\* The synchronous part of runExclusive: one step of the event loop.
RunExclusive(c) ==
    LET s == SessionOf[c] IN
    /\ promise[c] = "none"
    /\ previous' = [previous EXCEPT ![c] = queueBySessionId[s]]
    /\ promise' = [promise EXCEPT ![c] = "waiting"]
    /\ ExtendChain(c)
    /\ ticket' = [ticket EXCEPT ![c] = issued[s] + 1]
    /\ issued' = [issued EXCEPT ![s] = @ + 1]
    /\ UNCHANGED completed

\* The microtask that previous schedules when it settles: fn is called.
StartFn(c) ==
    /\ promise[c] = "waiting"
    /\ PredecessorOver(c)
    /\ promise' = [promise EXCEPT ![c] = "running"]
    /\ UNCHANGED <<queueBySessionId, previous, historyVars>>

\* fn's promise settles, with a value or with an exception.
SettleFn(c, outcome) ==
    /\ promise[c] = "running"
    /\ promise' = [promise EXCEPT ![c] = outcome]
    /\ completed' = [completed EXCEPT ![SessionOf[c]] = @ + 1]
    /\ UNCHANGED <<queueBySessionId, previous, ticket, issued>>

\* Every call made is over: nothing is left to do.
AllOver ==
    /\ \A c \in Calls : Settled(c)
    /\ UNCHANGED vars

Next ==
    \/ \E c \in Calls : RunExclusive(c)
    \/ \E c \in Calls : StartFn(c)
    \/ \E c \in Calls : \E outcome \in Outcomes : SettleFn(c, outcome)
    \/ AllOver

Spec == Init /\ [][Next]_vars

\* The event loop runs every microtask that is due.  Nothing is assumed about
\* fn: a turn may hang.
FairSpec == Spec /\ \A c \in Calls : WF_vars(StartFn(c))

-----------------------------------------------------------------------------
Running == {c \in Calls : promise[c] = "running"}

\* At most one turn of a session runs at a time, so the read-modify-write of
\* its conversation (ports.ts, SessionLock) cannot interleave with another's.
MutualExclusion ==
    \A c, d \in Running : SessionOf[c] = SessionOf[d] => c = d

Fifo == INSTANCE FifoMutex WITH inside <- Running

\* The promise chain serves the calls of each session one at a time in the
\* order runExclusive was called, and a turn that throws still hands over to
\* the next: every behaviour of the chain is one of the ticket lock.
ImplementsFifoMutex == Fifo!Spec

\* If no turn of session s hangs, every call made for s gets its turn, even
\* while turns of other sessions hang forever or turns before it throw.
NoTurnHangs(s) ==
    \A d \in Calls : SessionOf[d] = s => (promise[d] = "running" ~> Settled(d))

EveryCallGetsItsTurn ==
    \A s \in Sessions :
        NoTurnHangs(s) =>
            \A c \in Calls :
                SessionOf[c] = s => (promise[c] = "waiting" ~> promise[c] = "running")
=============================================================================
