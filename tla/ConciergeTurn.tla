---------------------------- MODULE ConciergeTurn ----------------------------
(***************************************************************************)
(* A Caller's turn: respondToCallerMessage under the session lock, with    *)
(* the conversation it keeps in AgentCore Memory and the tool-use loop of  *)
(* BedrockConverseModelClient.  The lock is the SessionLock module; a turn *)
(* is one of its calls, and fn is everything below Invoke.                 *)
(*                                                                         *)
(* A message, and the reply it gets, are named by the turn they belong to. *)
(* What a tool does is the business of BookingExecutor: here a tool call   *)
(* is suspended and then settles, in any order among those of its round.   *)
(* The tool executors turn every failure into a result, so a round's       *)
(* Promise.all never rejects.  Preferences never fail a turn and shape     *)
(* only what the model is told, so of getPreferences the await is kept.    *)
(***************************************************************************)
EXTENDS Naturals, Sequences, SequencesExt

CONSTANTS
    Turns,      \* invocations of the Runtime with a message
    Sessions,   \* runtime session ids
    Actors,     \* authenticated Callers
    SessionOf, ActorOf,  \* whose turn it is, and in which session
    NoTurn,     \* the lock's resolved promise
    RecentTurnsLimit,    \* RECENT_TURNS_LIMIT
    MaxToolUseRounds,    \* MAX_TOOL_USE_ROUNDS
    MaxBlocks            \* bound: content blocks of a message that asks for tools

ASSUME OwnersAssumption ==
    SessionOf \in [Turns -> Sessions] /\ ActorOf \in [Turns -> Actors]
ASSUME NoTurnAssumption == NoTurn \notin Turns
ASSUME LimitsAssumption ==
    /\ RecentTurnsLimit \in Nat \ {0}
    /\ MaxToolUseRounds \in Nat \ {0}
    /\ MaxBlocks \in Nat

VARIABLES
    \* the session lock
    queueBySessionId, previous, promise, ticket, issued, completed,
    \* locals of the running turn, at their initial values when it is over
    awaits,       \* awaits[t]: what turn t is suspended at
    transcript,   \* transcript[t]: the turns it recalled, oldest first
    round,        \* round[t]: the Converse calls it has made
    content,      \* content[t]: the blocks of the model's last message that asked for tools
    settled,      \* settled[t]: what its calls returned, in the order they settled
    toolResults,  \* toolResults[t]: the results it pushed for them, by the block answered
    outcome,      \* outcome[t]: how generateReply ended
    \* AgentCore Memory
    created,      \* the turns sent to CreateEvent, in eventTimestamp order
    stored,       \* turns whose event is in Memory
    \* history
    disturbed     \* turns that ran while Memory failed them, or were cut off

lockVars == <<queueBySessionId, previous, promise, ticket, issued, completed>>
loopVars == <<round, content, settled, toolResults>>
localVars == <<awaits, transcript, loopVars>>
memoryVars == <<created, stored>>
vars == <<lockVars, localVars, outcome, memoryVars, disturbed>>

Lock == INSTANCE SessionLock WITH Calls <- Turns, NoCall <- NoTurn

\* Memory keeps events by actor and session.
ConversationOf(t) == <<ActorOf[t], SessionOf[t]>>

\* A content block is a toolUse, whose name may be missing, or it bears no
\* toolUseId: text, or a toolUse without an id.  A block is known by its index.
Block == {"named", "unnamed", "noId"}
Contents == BoundedSeq(Block, MaxBlocks)

\* A ToolCallResult bears the id of the block it answers.
ToolCallResult == [toolUseId : 1..MaxBlocks, isError : BOOLEAN]
ToolResults == UNION {[calls -> ToolCallResult] : calls \in SUBSET (1..MaxBlocks)}

Awaits == {"getRecentTurns", "getPreferences", "converse", "tools", "recordTurn"}

TypeOK ==
    /\ Lock!TypeOK
    /\ awaits \in [Turns -> Awaits \cup {"nothing"}]
    /\ transcript \in [Turns -> Seq(Turns)]
    /\ round \in [Turns -> 0..MaxToolUseRounds]
    /\ content \in [Turns -> Seq(Block)]
    /\ settled \in [Turns -> Seq(ToolCallResult)]
    /\ toolResults \in [Turns -> ToolResults]
    /\ outcome \in [Turns -> {"none", "reply", "ModelError", "lost"}]
    /\ created \in Seq(Turns)
    /\ stored \subseteq Turns
    /\ disturbed \subseteq Turns

Init ==
    /\ Lock!Init
    /\ awaits = [t \in Turns |-> "nothing"]
    /\ transcript = [t \in Turns |-> <<>>]
    /\ round = [t \in Turns |-> 0]
    /\ content = [t \in Turns |-> <<>>]
    /\ settled = [t \in Turns |-> <<>>]
    /\ toolResults = [t \in Turns |-> <<>>]
    /\ outcome = [t \in Turns |-> "none"]
    /\ created = <<>>
    /\ stored = {}
    /\ disturbed = {}

SuspendAt(t, where) == awaits' = [awaits EXCEPT ![t] = where]

\* The locals of the given turns go out of scope.
Drop(over) ==
    /\ awaits' = [t \in Turns |-> IF t \in over THEN "nothing" ELSE awaits[t]]
    /\ transcript' = [t \in Turns |-> IF t \in over THEN <<>> ELSE transcript[t]]
    /\ round' = [t \in Turns |-> IF t \in over THEN 0 ELSE round[t]]
    /\ content' = [t \in Turns |-> IF t \in over THEN <<>> ELSE content[t]]
    /\ settled' = [t \in Turns |-> IF t \in over THEN <<>> ELSE settled[t]]
    /\ toolResults' = [t \in Turns |-> IF t \in over THEN <<>> ELSE toolResults[t]]

\* fn returns: its promise is fulfilled, with a reply or with a ModelError.
Return(t) ==
    /\ Lock!SettleFn(t, "fulfilled")
    /\ Drop({t})

-----------------------------------------------------------------------------
(* Plausible slips, used to show that the properties depend on the code.   *)

\* the events are taken in the order ListEvents returns them
ParseTurnsNewestFirst(events) == events

\* the sessionId is left out of the ListEvents request
EventsOfActor(k) == {t \in stored : ActorOf[t] = k[1]}

\* the results are collected as the calls settle
AsSettled(calls, results) ==
    [i \in calls |-> results[Cardinality({j \in calls : j <= i})]]

\* rounds are counted from 0 to MAX_TOOL_USE_ROUNDS
AnotherRoundInclusive(t) == round[t] <= MaxToolUseRounds

\* the round counter is not advanced
CountNothing(t) == round' = [round EXCEPT ![t] = IF @ = 0 THEN 1 ELSE @]

-----------------------------------------------------------------------------
\* The events of conversation k, by the turn each tells of.
Events(k) == {t \in stored : ConversationOf(t) = k}

\* eventTimestamp
CreatedBefore(t, u) ==
    \E i, j \in DOMAIN created : i < j /\ created[i] = t /\ created[j] = u

\* ListEvents with maxResults: newest first, all of the events or, if there are
\* more, the newest.
ListEvents(k) ==
    {events \in BoundedSeq(Events(k), RecentTurnsLimit) :
        /\ \A i, j \in DOMAIN events : i < j => CreatedBefore(events[j], events[i])
        /\ \A t \in Events(k) \ Range(events) :
              /\ Len(events) = RecentTurnsLimit
              /\ \A u \in Range(events) : CreatedBefore(t, u)}

\* parseTurns: oldest first.  The events are those recordTurn wrote, which all
\* parse; the skipping of any other is left out.
ParseTurns(events) == Reverse(events)

\* extractToolCalls: the blocks that are executed, named or not.
ExtractToolCalls(blocks) == {i \in DOMAIN blocks : blocks[i] # "noId"}

\* toToolResultMessage: beside each call stands what that call returned, whatever
\* the order in which they settled.
PromiseAll(calls, results) ==
    [i \in calls |-> CHOOSE x \in Range(results) : x.toolUseId = i]

\* Whether the loop's condition admits another Converse call.
AnotherRound(t) == round[t] < MaxToolUseRounds

CountRound(t) == round' = [round EXCEPT ![t] = @ + 1]

-----------------------------------------------------------------------------
\* The Runtime hands a message over, its token is verified, and
\* respondToCallerMessage queues it: a turn arrives when it is queued.
Invoke(t) ==
    /\ Lock!RunExclusive(t)
    /\ UNCHANGED <<localVars, outcome, memoryVars, disturbed>>

\* fn starts and asks Memory for the recent turns.
StartTurn(t) ==
    /\ Lock!StartFn(t)
    /\ SuspendAt(t, "getRecentTurns")
    /\ UNCHANGED <<transcript, loopVars, outcome, memoryVars, disturbed>>

\* A failure of Memory leaves the turn without a transcript, not without a reply.
RecentTurnsAnswered(t) ==
    /\ awaits[t] = "getRecentTurns"
    /\ \/ /\ \E events \in ListEvents(ConversationOf(t)) :
                transcript' = [transcript EXCEPT ![t] = ParseTurns(events)]
          /\ UNCHANGED disturbed
       \/ /\ disturbed' = disturbed \cup {t}
          /\ UNCHANGED transcript
    /\ SuspendAt(t, "getPreferences")
    /\ UNCHANGED <<lockVars, loopVars, outcome, memoryVars>>

\* The preferences are there or not; the first Converse call goes out.
PreferencesAnswered(t) ==
    /\ awaits[t] = "getPreferences"
    /\ SuspendAt(t, "converse")
    /\ CountRound(t)
    /\ UNCHANGED <<lockVars, transcript, content, settled, toolResults, outcome,
                   memoryVars, disturbed>>

\* The model asks for tools: every call of the round is started at once.
ModelAsksForTools(t) ==
    /\ awaits[t] = "converse"
    /\ \E blocks \in Contents :
         /\ ExtractToolCalls(blocks) # {}
         /\ content' = [content EXCEPT ![t] = blocks]
    /\ settled' = [settled EXCEPT ![t] = <<>>]
    /\ toolResults' = [toolResults EXCEPT ![t] = <<>>]
    /\ SuspendAt(t, "tools")
    /\ UNCHANGED <<lockVars, transcript, round, outcome, memoryVars, disturbed>>

\* It replies: the turn goes to CreateEvent before the Caller hears of it.
ModelReplies(t) ==
    /\ awaits[t] = "converse"
    /\ outcome' = [outcome EXCEPT ![t] = "reply"]
    /\ created' = Append(created, t)
    /\ SuspendAt(t, "recordTurn")
    /\ UNCHANGED <<lockVars, transcript, loopVars, stored, disturbed>>

\* Its answer holds no usable text, or the Converse call throws.
ModelFails(t) ==
    /\ awaits[t] = "converse"
    /\ outcome' = [outcome EXCEPT ![t] = "ModelError"]
    /\ Return(t)
    /\ UNCHANGED <<memoryVars, disturbed>>

\* The calls that have settled.
SettledCalls(t) == {x.toolUseId : x \in Range(settled[t])}

\* A tool call settles.
ToolSettles(t) ==
    /\ awaits[t] = "tools"
    /\ \E i \in ExtractToolCalls(content[t]) \ SettledCalls(t), isError \in BOOLEAN :
          settled' = [settled EXCEPT ![t] = Append(@, [toolUseId |-> i, isError |-> isError])]
    /\ UNCHANGED <<lockVars, awaits, transcript, round, content, toolResults, outcome,
                   memoryVars, disturbed>>

\* All have: their results are pushed and the model is asked again, or the turn
\* gives up.
RoundOver(t) ==
    LET calls == ExtractToolCalls(content[t]) IN
    /\ awaits[t] = "tools"
    /\ SettledCalls(t) = calls
    /\ \/ /\ AnotherRound(t)
          /\ CountRound(t)
          /\ toolResults' = [toolResults EXCEPT ![t] = PromiseAll(calls, settled[t])]
          /\ SuspendAt(t, "converse")
          /\ UNCHANGED <<lockVars, transcript, content, settled, outcome>>
       \/ /\ ~AnotherRound(t)
          /\ outcome' = [outcome EXCEPT ![t] = "ModelError"]
          /\ Return(t)
    /\ UNCHANGED <<memoryVars, disturbed>>

\* The event of a turn is stored, while it waits for that or long after.
EventLands(t) ==
    /\ t \in Range(created) \ stored
    /\ stored' = stored \cup {t}
    /\ UNCHANGED <<lockVars, localVars, outcome, created, disturbed>>

\* recordTurn settles.  Its failure is ignored: the Caller gets the reply.
RecordTurnAnswered(t) ==
    /\ awaits[t] = "recordTurn"
    /\ \/ t \in stored /\ UNCHANGED disturbed
       \/ disturbed' = disturbed \cup {t}
    /\ Return(t)
    /\ UNCHANGED <<outcome, memoryVars>>

\* The Runtime recycles the microVM: the chain and the turns in it are gone;
\* their invocations fail.
Recycle ==
    LET cutOff == {t \in Turns : promise[t] \in Lock!Unsettled} IN
    /\ queueBySessionId' = [s \in Sessions |-> NoTurn]
    /\ promise' = [t \in Turns |-> IF t \in cutOff THEN "rejected" ELSE promise[t]]
    /\ completed' = issued
    /\ Drop(Turns)
    /\ outcome' = [t \in Turns |->
           IF t \in cutOff /\ outcome[t] = "none" THEN "lost" ELSE outcome[t]]
    /\ disturbed' = disturbed \cup cutOff
    /\ UNCHANGED <<previous, ticket, issued, memoryVars>>

ServiceAnswers(t) ==
    \/ RecentTurnsAnswered(t) \/ PreferencesAnswered(t)
    \/ ModelAsksForTools(t) \/ ModelReplies(t) \/ ModelFails(t)
    \/ ToolSettles(t) \/ RecordTurnAnswered(t)

\* What the event loop does by itself.
Proceeds(t) == StartTurn(t) \/ RoundOver(t)

AllOver ==
    /\ \A t \in Turns : Lock!Settled(t)
    /\ UNCHANGED vars

Next ==
    \/ \E t \in Turns : Invoke(t) \/ Proceeds(t) \/ ServiceAnswers(t) \/ EventLands(t)
    \/ Recycle
    \/ AllOver

Spec == Init /\ [][Next]_vars

\* The event loop runs what is due.
FairSpec == Spec /\ \A t \in Turns : WF_vars(Proceeds(t))

-----------------------------------------------------------------------------
\* The turns of t's conversation that arrived before it and got a reply.
RepliedBefore(t) ==
    {u \in Turns : /\ ConversationOf(u) = ConversationOf(t)
                   /\ ticket[u] \in 1..ticket[t] - 1
                   /\ outcome[u] = "reply"}

\* Some of the given turns, no more than the limit, each once and in the order
\* in which the Caller's messages arrived.
SomeOf(turns, all) ==
    /\ Len(turns) <= RecentTurnsLimit
    /\ Range(turns) \subseteq all
    /\ \A i, j \in DOMAIN turns : i < j => ticket[turns[i]] < ticket[turns[j]]

\* The last of them, as many as the limit admits.
LastOf(turns, all) ==
    /\ SomeOf(turns, all)
    /\ \A t \in all \ Range(turns) :
          /\ Len(turns) = RecentTurnsLimit
          /\ \A u \in Range(turns) : ticket[t] < ticket[u]

Recalled(t) == awaits[t] \in Awaits \ {"getRecentTurns"}

MemoryServed(t) ==
    \A u \in disturbed : ConversationOf(u) = ConversationOf(t) => ticket[u] > ticket[t]

\* A turn sees all of the recent conversation: once it has recalled it, and if
\* Memory failed neither it nor an earlier turn of its conversation, its
\* transcript is the last turns that got a reply, in the order in which the
\* Caller's messages arrived, however the turns overlapped.
TranscriptIsComplete ==
    \A t \in Turns :
        Recalled(t) /\ MemoryServed(t) => LastOf(transcript[t], RepliedBefore(t))

\* Whatever Memory loses or delays and whenever the process dies, a turn is
\* shown only turns of its own conversation that got a reply before it, each
\* once and in order: none that failed, none out of place.
TranscriptIsTruthful ==
    \A t \in Turns : SomeOf(transcript[t], RepliedBefore(t))

\* Whenever the model is asked again, the conversation is consistent: each block
\* of its last message that bears a toolUseId, named or not, and no other block,
\* is answered by the result of its own call, and everything the calls returned
\* is passed on, in whatever order they settled (bedrock-converse-model-client.ts,
\* extractToolCalls and toToolResultMessage).
EveryToolUseAnswered ==
    \A t \in Turns : awaits[t] = "converse" /\ round[t] > 1 =>
        /\ DOMAIN toolResults[t] = {i \in DOMAIN content[t] : content[t][i] # "noId"}
        /\ \A i \in DOMAIN toolResults[t] : toolResults[t][i].toolUseId = i
        /\ Range(toolResults[t]) = Range(settled[t])

\* If the services a turn calls answer or fail, every message gets its answer:
\* no model, however fond of tools, and no failed turn holds a session up.
EveryTurnEnds ==
    (\A t \in Turns : WF_vars(ServiceAnswers(t))) =>
        \A t \in Turns : promise[t] = "waiting" ~> Lock!Settled(t)
=============================================================================
