------------------------ MODULE ConciergeTurnProofs ------------------------
(***************************************************************************)
(* The turns, for any number of them, of Callers, sessions, rounds and     *)
(* tool uses.  The argument is in four parts, each resting on the ones     *)
(* before it.  The loop: what the model is sent back belongs to its last   *)
(* message, because a turn that has not got to the model has made no       *)
(* round, also after one that was cut off.  The lock: in each session the  *)
(* turns run and end in the order of their tickets, also across a recycle, *)
(* after which only younger ones are admitted.  Memory: so the events of a *)
(* session are sent in ticket order, an event is a replied turn's, and a   *)
(* replied turn that Memory did not fail has one.  The transcripts: what a *)
(* turn recalls is the last of the turns before it, and stays so, since    *)
(* whatever ends after that has a higher ticket.                           *)
(***************************************************************************)
EXTENDS ConciergeTurn, WellFoundedInduction, TLAPS

\* The locals are one to each turn.
Locals ==
    /\ DOMAIN promise = Turns
    /\ DOMAIN awaits = Turns
    /\ round \in [Turns -> Nat]

\* Only a turn that runs is suspended anywhere, and rounds are counted from the
\* first Converse call, MAX_TOOL_USE_ROUNDS of them at most.
Rounds ==
    \A t \in Turns :
        /\ promise[t] # "running" => awaits[t] = "nothing"
        /\ awaits[t] \in {"nothing", "getRecentTurns", "getPreferences"} => round[t] = 0
        /\ round[t] <= MaxToolUseRounds

IInv == Locals /\ Rounds

Begins == {"nothing", "getRecentTurns", "getPreferences"}

-----------------------------------------------------------------------------
LEMMA InitEstablishes == Init => IInv
  BY LimitsAssumption DEF Init, Lock!Init, IInv, Locals, Rounds

\* A turn that moves on within its loop, the others staying as they are.
LEMMA MovingKeeps ==
  ASSUME IInv, NEW t \in Turns,
         promise[t] = "running" \/ promise'[t] = "running",
         DOMAIN promise' = Turns, \A u \in Turns \ {t} : promise'[u] = promise[u],
         DOMAIN awaits' = Turns, \A u \in Turns \ {t} : awaits'[u] = awaits[u],
         round' \in [Turns -> Nat], \A u \in Turns \ {t} : round'[u] = round[u],
         promise'[t] # "running" => awaits'[t] = "nothing",
         awaits'[t] \in Begins => round'[t] = 0,
         round'[t] <= MaxToolUseRounds
  PROVE  IInv'
<1>1. Locals'
  BY DEF IInv, Locals
<1>2. Rounds'
  BY DEF IInv, Rounds, Begins
<1> QED
  BY <1>1, <1>2 DEF IInv

\* A turn that returns leaves no locals behind.
LEMMA ReturnKeeps ==
  ASSUME IInv, NEW t \in Turns, Return(t)
  PROVE  IInv'
<1>1. /\ promise[t] = "running"
      /\ promise' = [promise EXCEPT ![t] = "fulfilled"]
      /\ awaits' = [u \in Turns |-> IF u = t THEN "nothing" ELSE awaits[u]]
      /\ round' = [u \in Turns |-> IF u = t THEN 0 ELSE round[u]]
  BY DEF Return, Drop, Lock!SettleFn
<1> QED
  BY <1>1, MovingKeeps, LimitsAssumption DEF IInv, Locals, Begins

LEMMA InvokeKeeps ==
  ASSUME IInv, NEW t \in Turns, Invoke(t)
  PROVE  IInv'
<1>1. /\ promise[t] = "none"
      /\ promise' = [promise EXCEPT ![t] = "waiting"]
      /\ UNCHANGED <<awaits, round>>
  BY DEF Invoke, Lock!RunExclusive, localVars, loopVars
<1> QED
  BY <1>1 DEF IInv, Locals, Rounds

LEMMA StartTurnKeeps ==
  ASSUME IInv, NEW t \in Turns, StartTurn(t)
  PROVE  IInv'
<1>1. /\ promise[t] = "waiting"
      /\ promise' = [promise EXCEPT ![t] = "running"]
      /\ awaits' = [awaits EXCEPT ![t] = "getRecentTurns"]
      /\ UNCHANGED round
  BY DEF StartTurn, Lock!StartFn, SuspendAt, loopVars
<1>2. round[t] = 0
  BY <1>1 DEF IInv, Rounds
<1> QED
  BY <1>1, <1>2, MovingKeeps, LimitsAssumption DEF IInv, Locals, Begins

LEMMA RecallKeeps ==
  ASSUME IInv, NEW t \in Turns, RecentTurnsAnswered(t)
  PROVE  IInv'
<1>1. /\ awaits[t] = "getRecentTurns"
      /\ awaits' = [awaits EXCEPT ![t] = "getPreferences"]
      /\ UNCHANGED <<promise, round>>
  BY DEF RecentTurnsAnswered, SuspendAt, lockVars, loopVars
<1>2. round[t] = 0 /\ promise[t] = "running"
  BY <1>1 DEF IInv, Rounds
<1> QED
  BY <1>1, <1>2, MovingKeeps, LimitsAssumption DEF IInv, Locals, Begins

\* The first round.
LEMMA PreferencesKeeps ==
  ASSUME IInv, NEW t \in Turns, PreferencesAnswered(t)
  PROVE  IInv'
<1>1. /\ awaits[t] = "getPreferences"
      /\ awaits' = [awaits EXCEPT ![t] = "converse"]
      /\ round' = [round EXCEPT ![t] = @ + 1]
      /\ UNCHANGED <<promise>>
  BY DEF PreferencesAnswered, SuspendAt, CountRound, lockVars
<1>2. round[t] = 0 /\ promise[t] = "running"
  BY <1>1 DEF IInv, Rounds
<1>3. round'[t] = 1 /\ 1 <= MaxToolUseRounds
  BY <1>1, <1>2, LimitsAssumption DEF IInv, Locals
<1> QED
  BY <1>1, <1>2, <1>3, MovingKeeps DEF IInv, Locals, Begins

LEMMA AsksKeeps ==
  ASSUME IInv, NEW t \in Turns, ModelAsksForTools(t) \/ ModelReplies(t)
  PROVE  IInv'
<1>1. /\ awaits[t] = "converse"
      /\ awaits' = [awaits EXCEPT ![t] = "tools"] \/ awaits' = [awaits EXCEPT ![t] = "recordTurn"]
      /\ UNCHANGED <<promise, round>>
  BY DEF ModelAsksForTools, ModelReplies, SuspendAt, lockVars, loopVars, IInv, Locals
<1>2. promise[t] = "running" /\ round[t] <= MaxToolUseRounds
  BY <1>1 DEF IInv, Rounds
<1> QED
  BY <1>1, <1>2, MovingKeeps DEF IInv, Locals, Begins

\* A round is over: the limit admits another one, or the turn returns.
LEMMA RoundOverKeeps ==
  ASSUME IInv, NEW t \in Turns, RoundOver(t)
  PROVE  IInv'
<1>1. CASE Return(t)
  BY <1>1, ReturnKeeps
<1>2. CASE ~Return(t)
  <2>1. /\ awaits[t] = "tools"
        /\ round[t] < MaxToolUseRounds
        /\ round' = [round EXCEPT ![t] = @ + 1]
        /\ awaits' = [awaits EXCEPT ![t] = "converse"]
        /\ UNCHANGED promise
    BY <1>2 DEF RoundOver, AnotherRound, CountRound, SuspendAt, lockVars
  <2>2. promise[t] = "running"
    BY <2>1 DEF IInv, Rounds
  <2>3. round'[t] <= MaxToolUseRounds
    BY <2>1, LimitsAssumption DEF IInv, Locals
  <2> QED
    BY <2>1, <2>2, <2>3, MovingKeeps DEF IInv, Locals, Begins
<1> QED
  BY <1>1, <1>2

\* A tool call settles, or an event lands in Memory: no turn moves.
LEMMA OthersKeep ==
  ASSUME IInv, NEW t \in Turns, ToolSettles(t) \/ EventLands(t)
  PROVE  IInv'
<1>1. UNCHANGED <<promise, awaits, round>>
  BY DEF ToolSettles, EventLands, lockVars, localVars, loopVars
<1> QED
  BY <1>1 DEF IInv, Locals, Rounds

\* No locals outlive the process.
LEMMA RecycleKeeps ==
  ASSUME IInv, Recycle
  PROVE  IInv'
<1>1. /\ DOMAIN promise' = Turns
      /\ awaits' = [t \in Turns |-> "nothing"]
      /\ round' = [t \in Turns |-> 0]
  BY DEF Recycle, Drop
<1> QED
  BY <1>1, LimitsAssumption DEF IInv, Locals, Rounds

LEMMA StutterKeeps ==
  ASSUME IInv, UNCHANGED vars
  PROVE  IInv'
  BY DEF vars, lockVars, localVars, loopVars, IInv, Locals, Rounds

LEMMA LoopKeeps == IInv /\ [Next]_vars => IInv'
<1>1. ASSUME IInv, NEW t \in Turns, ModelFails(t) \/ RecordTurnAnswered(t) PROVE IInv'
  BY <1>1, ReturnKeeps DEF ModelFails, RecordTurnAnswered
<1> QED
  BY <1>1, InvokeKeeps, StartTurnKeeps, RecallKeeps, PreferencesKeeps, AsksKeeps,
     RoundOverKeeps, OthersKeep, RecycleKeeps, StutterKeeps
     DEF Next, Proceeds, ServiceAnswers, AllOver

-----------------------------------------------------------------------------
(* Types. *)

ToolsFit == \A t \in Turns : Len(content[t]) <= MaxBlocks

LocalTypes ==
    /\ awaits \in [Turns -> Awaits \cup {"nothing"}]
    /\ transcript \in [Turns -> Seq(Turns)]
    /\ round \in [Turns -> 0..MaxToolUseRounds]
    /\ content \in [Turns -> Seq(Block)]
    /\ settled \in [Turns -> Seq(ToolCallResult)]
    /\ toolResults \in [Turns -> ToolResults]
    /\ ToolsFit

OtherTypes ==
    /\ outcome \in [Turns -> {"none", "reply", "ModelError", "lost"}]
    /\ created \in Seq(Turns)
    /\ stored \subseteq Turns
    /\ disturbed \subseteq Turns

Types == Lock!TypeOK /\ LocalTypes /\ OtherTypes

LEMMA Empty ==
    /\ \A S : <<>> \in Seq(S)
    /\ <<>> \in ToolResults
    /\ Len(<<>>) = 0 /\ 0 \in 0..MaxToolUseRounds /\ 0 <= MaxBlocks
<1>1. \A S : <<>> \in Seq(S)
  OBVIOUS
<1>2. 0 \in 0..MaxToolUseRounds /\ 0 <= MaxBlocks
  BY LimitsAssumption
<1>3. <<>> \in ToolResults
  <2>1. <<>> \in [{} -> ToolCallResult]
    OBVIOUS
  <2> QED
    BY <2>1 DEF ToolResults
<1> QED
  BY <1>1, <1>2, <1>3

LEMMA InitTypes == Init => Types
<1> SUFFICES ASSUME Init PROVE Types
  OBVIOUS
<1>1. Lock!TypeOK
  BY DEF Init, Lock!Init, Lock!TypeOK, Lock!Unsettled, Lock!Outcomes
<1>2. LocalTypes
  <2>1. /\ awaits = [t \in Turns |-> "nothing"] /\ transcript = [t \in Turns |-> <<>>]
        /\ round = [t \in Turns |-> 0] /\ content = [t \in Turns |-> <<>>]
        /\ settled = [t \in Turns |-> <<>>] /\ toolResults = [t \in Turns |-> <<>>]
    BY DEF Init
  <2>2. /\ transcript \in [Turns -> Seq(Turns)] /\ content \in [Turns -> Seq(Block)]
        /\ settled \in [Turns -> Seq(ToolCallResult)] /\ toolResults \in [Turns -> ToolResults]
        /\ round \in [Turns -> 0..MaxToolUseRounds]
        /\ ToolsFit
    <3> HIDE LimitsAssumption
    <3> QED
      BY <2>1, Empty DEF ToolsFit
  <2> QED
    BY <2>1, <2>2 DEF LocalTypes
<1>3. OtherTypes
  BY Empty DEF Init, OtherTypes
<1> QED
  BY <1>1, <1>2, <1>3 DEF Types

\* The calls of a message are among its blocks.
LEMMA CallsFit ==
    ASSUME LocalTypes, NEW t \in Turns
    PROVE  ExtractToolCalls(content[t]) \subseteq 1..MaxBlocks
<1>1. content[t] \in Seq(Block) /\ Len(content[t]) <= MaxBlocks
  BY DEF LocalTypes, ToolsFit
<1> QED
  BY <1>1, LimitsAssumption DEF ExtractToolCalls

\* A call that has settled has a result of its own.
LEMMA PromiseAllAnswers ==
    ASSUME NEW t \in Turns, NEW i \in SettledCalls(t), NEW calls, i \in calls
    PROVE  /\ PromiseAll(calls, settled[t])[i] \in Range(settled[t])
           /\ PromiseAll(calls, settled[t])[i].toolUseId = i
<1>1. PICK x \in Range(settled[t]) : x.toolUseId = i
  BY DEF SettledCalls
<1> QED
  BY <1>1 DEF PromiseAll

LEMMA PromiseAllType ==
    ASSUME LocalTypes, NEW t \in Turns, SettledCalls(t) = ExtractToolCalls(content[t])
    PROVE  PromiseAll(ExtractToolCalls(content[t]), settled[t]) \in ToolResults
<1> DEFINE calls == ExtractToolCalls(content[t])
<1>1. calls \in SUBSET (1..MaxBlocks)
  BY CallsFit
<1>2. Range(settled[t]) \subseteq ToolCallResult
  BY DEF LocalTypes, Range
<1>3. \A i \in calls : PromiseAll(calls, settled[t])[i] \in ToolCallResult
  BY <1>2, PromiseAllAnswers
<1>4. PromiseAll(calls, settled[t]) \in [calls -> ToolCallResult]
  BY <1>3 DEF PromiseAll
<1> QED
  BY <1>1, <1>4 DEF ToolResults

LEMMA DropTypes ==
    ASSUME LocalTypes, NEW over, Drop(over)
    PROVE  LocalTypes'
<1>1. transcript' \in [Turns -> Seq(Turns)]
  <2>1. \A t \in Turns : (IF t \in over THEN <<>> ELSE transcript[t]) \in Seq(Turns)
    BY Empty DEF LocalTypes
  <2> QED
    BY <2>1 DEF Drop
<1>2. content' \in [Turns -> Seq(Block)] /\ ToolsFit'
  <2>1. \A t \in Turns : /\ (IF t \in over THEN <<>> ELSE content[t]) \in Seq(Block)
                         /\ Len(IF t \in over THEN <<>> ELSE content[t]) <= MaxBlocks
    BY Empty DEF LocalTypes, ToolsFit
  <2>2. content' = [t \in Turns |-> IF t \in over THEN <<>> ELSE content[t]]
    BY DEF Drop
  <2> QED
    BY <2>1, <2>2 DEF ToolsFit
<1>3. toolResults' \in [Turns -> ToolResults] /\ settled' \in [Turns -> Seq(ToolCallResult)]
  <2>1. \A t \in Turns : (IF t \in over THEN <<>> ELSE toolResults[t]) \in ToolResults
    BY Empty DEF LocalTypes
  <2>2. \A t \in Turns : (IF t \in over THEN <<>> ELSE settled[t]) \in Seq(ToolCallResult)
    BY Empty DEF LocalTypes
  <2> QED
    BY <2>1, <2>2 DEF Drop
<1>4. awaits' \in [Turns -> Awaits \cup {"nothing"}]
  BY DEF Drop, LocalTypes
<1>5. round' \in [Turns -> 0..MaxToolUseRounds]
  BY Empty DEF Drop, LocalTypes
<1> QED
  BY <1>1, <1>2, <1>3, <1>4, <1>5 DEF LocalTypes

\* The lock's variables change by its own actions, or with the process.
LEMMA LockTypes ==
    ASSUME Lock!TypeOK, NEW t \in Turns,
           \/ Lock!RunExclusive(t) \/ Lock!StartFn(t) \/ Lock!SettleFn(t, "fulfilled")
           \/ UNCHANGED lockVars
    PROVE  Lock!TypeOK'
<1> USE OwnersAssumption DEF Lock!TypeOK, Lock!Unsettled, Lock!Outcomes
<1>1. CASE Lock!RunExclusive(t)
  <2>1. /\ SessionOf[t] \in Sessions /\ issued[SessionOf[t]] + 1 \in Nat
        /\ queueBySessionId[SessionOf[t]] \in Turns \cup {NoTurn}
    OBVIOUS
  <2> QED
    BY <1>1, <2>1 DEF Lock!RunExclusive, Lock!ExtendChain
<1>2. CASE Lock!StartFn(t)
  BY <1>2 DEF Lock!StartFn, Lock!historyVars
<1>3. CASE Lock!SettleFn(t, "fulfilled")
  <2>1. SessionOf[t] \in Sessions
    OBVIOUS
  <2> QED
    BY <1>3, <2>1 DEF Lock!SettleFn
<1>4. CASE UNCHANGED lockVars
  BY <1>4 DEF lockVars
<1> QED
  BY <1>1, <1>2, <1>3, <1>4

LEMMA ReturnTypes ==
    ASSUME Lock!TypeOK, LocalTypes, NEW t \in Turns, Return(t)
    PROVE  Lock!TypeOK' /\ LocalTypes'
<1>1. Lock!SettleFn(t, "fulfilled") /\ Drop({t})
  BY DEF Return
<1> QED
  BY <1>1, LockTypes, DropTypes

LEMMA NextTypes ==
    ASSUME Types, IInv, [Next]_vars
    PROVE  Types'
<1> USE DEF SuspendAt
<1>0. Lock!TypeOK /\ LocalTypes /\ OtherTypes
  BY DEF Types
<1>1. ASSUME NEW t \in Turns, Invoke(t) \/ StartTurn(t)
      PROVE  Types'
  <2>1. Lock!TypeOK'
    BY <1>0, <1>1, LockTypes DEF Invoke, StartTurn
  <2>2. LocalTypes' /\ OtherTypes'
    BY <1>0, <1>1 DEF Invoke, StartTurn, LocalTypes, OtherTypes, localVars, loopVars, memoryVars,
       Awaits, ToolsFit
  <2> QED
    BY <2>1, <2>2 DEF Types
<1>2. ASSUME NEW t \in Turns, RecentTurnsAnswered(t)
      PROVE  Types'
  <2>1. Lock!TypeOK'
    BY <1>0, <1>2, LockTypes DEF RecentTurnsAnswered
  <2>2. transcript' \in [Turns -> Seq(Turns)]
    <3>1. CASE UNCHANGED transcript
      BY <1>0, <3>1 DEF LocalTypes
    <3>2. CASE \E events \in ListEvents(ConversationOf(t)) :
                  transcript' = [transcript EXCEPT ![t] = ParseTurns(events)]
      <4>1. PICK events \in ListEvents(ConversationOf(t)) :
                  transcript' = [transcript EXCEPT ![t] = ParseTurns(events)]
        BY <3>2
      <4>2. events \in Seq(Turns)
        <5>1. PICK m \in 0..RecentTurnsLimit : events \in [1..m -> Events(ConversationOf(t))]
          BY DEF ListEvents, BoundedSeq, SeqOf
        <5>2. Events(ConversationOf(t)) \subseteq Turns
          BY <1>0 DEF Events, OtherTypes
        <5> QED
          BY <5>1, <5>2
      <4>3. ParseTurns(events) \in Seq(Turns)
        BY <4>2 DEF ParseTurns, Reverse
      <4> QED
        BY <1>0, <4>1, <4>3 DEF LocalTypes
    <3> QED
      BY <1>2, <3>1, <3>2 DEF RecentTurnsAnswered
  <2>3. LocalTypes' /\ OtherTypes'
    BY <1>0, <1>2, <2>2 DEF RecentTurnsAnswered, LocalTypes, OtherTypes, loopVars, memoryVars,
       Awaits, ToolsFit
  <2> QED
    BY <2>1, <2>3 DEF Types
<1>3. ASSUME NEW t \in Turns, PreferencesAnswered(t)
      PROVE  Types'
  <2>1. Lock!TypeOK'
    BY <1>0, <1>3, LockTypes DEF PreferencesAnswered
  <2>2. round' \in [Turns -> 0..MaxToolUseRounds]
    <3>1. round[t] = 0 /\ 1 \in 0..MaxToolUseRounds
      BY <1>3, LimitsAssumption DEF PreferencesAnswered, IInv, Rounds
    <3> QED
      BY <1>0, <1>3, <3>1 DEF PreferencesAnswered, CountRound, LocalTypes
  <2>3. LocalTypes' /\ OtherTypes'
    BY <1>0, <1>3, <2>2 DEF PreferencesAnswered, LocalTypes, OtherTypes, memoryVars, Awaits, ToolsFit
  <2> QED
    BY <2>1, <2>3 DEF Types
<1>4. ASSUME NEW t \in Turns, ModelAsksForTools(t)
      PROVE  Types'
  <2>1. Lock!TypeOK'
    BY <1>0, <1>4, LockTypes DEF ModelAsksForTools
  <2>2. PICK blocks \in Contents : content' = [content EXCEPT ![t] = blocks]
    BY <1>4 DEF ModelAsksForTools
  <2>3. blocks \in Seq(Block) /\ Len(blocks) <= MaxBlocks
    <3>1. PICK m \in 0..MaxBlocks : blocks \in [1..m -> Block]
      BY DEF Contents, BoundedSeq, SeqOf
    <3> QED
      BY <3>1, LimitsAssumption
  <2>4. content' \in [Turns -> Seq(Block)] /\ ToolsFit'
    BY <1>0, <2>2, <2>3 DEF LocalTypes, ToolsFit
  <2>5. toolResults' \in [Turns -> ToolResults] /\ settled' \in [Turns -> Seq(ToolCallResult)]
    BY <1>0, <1>4, Empty DEF ModelAsksForTools, LocalTypes
  <2>6. LocalTypes' /\ OtherTypes'
    BY <1>0, <1>4, <2>4, <2>5 DEF ModelAsksForTools, LocalTypes, OtherTypes, memoryVars, Awaits
  <2> QED
    BY <2>1, <2>6 DEF Types
<1>5. ASSUME NEW t \in Turns, ModelReplies(t)
      PROVE  Types'
  <2>1. Lock!TypeOK'
    BY <1>0, <1>5, LockTypes DEF ModelReplies
  <2>2. created' \in Seq(Turns)
    BY <1>0, <1>5 DEF ModelReplies, OtherTypes
  <2>3. LocalTypes' /\ OtherTypes'
    BY <1>0, <1>5, <2>2 DEF ModelReplies, LocalTypes, OtherTypes, loopVars, Awaits, ToolsFit
  <2> QED
    BY <2>1, <2>3 DEF Types
<1>6. ASSUME NEW t \in Turns, ModelFails(t) \/ RecordTurnAnswered(t)
      PROVE  Types'
  <2>1. Lock!TypeOK' /\ LocalTypes'
    BY <1>0, <1>6, ReturnTypes DEF ModelFails, RecordTurnAnswered
  <2>2. OtherTypes'
    BY <1>0, <1>6 DEF ModelFails, RecordTurnAnswered, OtherTypes, memoryVars
  <2> QED
    BY <2>1, <2>2 DEF Types
<1>7. ASSUME NEW t \in Turns, ToolSettles(t)
      PROVE  Types'
  <2>1. Lock!TypeOK'
    BY <1>0, <1>7, LockTypes DEF ToolSettles
  <2>2. settled' \in [Turns -> Seq(ToolCallResult)]
    <3>1. PICK i \in ExtractToolCalls(content[t]), isError \in BOOLEAN :
             settled' = [settled EXCEPT ![t] =
                            Append(@, [toolUseId |-> i, isError |-> isError])]
      BY <1>7 DEF ToolSettles
    <3>2. [toolUseId |-> i, isError |-> isError] \in ToolCallResult
      BY <1>0, <3>1, CallsFit DEF ToolCallResult
    <3>3. Append(settled[t], [toolUseId |-> i, isError |-> isError]) \in Seq(ToolCallResult)
      BY <1>0, <3>2 DEF LocalTypes
    <3> QED
      BY <1>0, <3>1, <3>3 DEF LocalTypes
  <2>3. LocalTypes' /\ OtherTypes'
    BY <1>0, <1>7, <2>2 DEF ToolSettles, LocalTypes, OtherTypes, memoryVars, ToolsFit
  <2> QED
    BY <2>1, <2>3 DEF Types
<1>8. ASSUME NEW t \in Turns, RoundOver(t)
      PROVE  Types'
  <2>1. OtherTypes'
    BY <1>0, <1>8 DEF RoundOver, OtherTypes, memoryVars
  <2>2. Lock!TypeOK' /\ LocalTypes'
    <3>1. CASE Return(t)
      BY <1>0, <3>1, ReturnTypes
    <3>2. CASE ~Return(t)
      <4>1. Lock!TypeOK'
        BY <1>0, <1>8, <3>2, LockTypes DEF RoundOver
      <4>2. toolResults' \in [Turns -> ToolResults]
        <5>1. /\ SettledCalls(t) = ExtractToolCalls(content[t])
              /\ toolResults' = [toolResults EXCEPT ![t] =
                     PromiseAll(ExtractToolCalls(content[t]), settled[t])]
          BY <1>8, <3>2 DEF RoundOver
        <5>2. PromiseAll(ExtractToolCalls(content[t]), settled[t]) \in ToolResults
          BY <1>0, <5>1, PromiseAllType
        <5> QED
          BY <1>0, <5>1, <5>2 DEF LocalTypes
      <4>3. round' \in [Turns -> 0..MaxToolUseRounds]
        <5>1. /\ round[t] < MaxToolUseRounds /\ round[t] \in 0..MaxToolUseRounds
              /\ round' = [round EXCEPT ![t] = @ + 1]
          BY <1>0, <1>8, <3>2 DEF RoundOver, AnotherRound, CountRound, LocalTypes
        <5>2. round[t] + 1 \in 0..MaxToolUseRounds
          BY <5>1, LimitsAssumption
        <5> QED
          BY <1>0, <5>1, <5>2 DEF LocalTypes
      <4>4. LocalTypes'
        BY <1>0, <1>8, <3>2, <4>2, <4>3 DEF RoundOver, LocalTypes, Awaits, ToolsFit
      <4> QED
        BY <4>1, <4>4
    <3> QED
      BY <3>1, <3>2
  <2> QED
    BY <2>1, <2>2 DEF Types
<1>9. ASSUME NEW t \in Turns, EventLands(t)
      PROVE  Types'
  <2>1. Lock!TypeOK'
    BY <1>0, <1>9, LockTypes DEF EventLands
  <2>2. LocalTypes' /\ OtherTypes'
    BY <1>0, <1>9 DEF EventLands, LocalTypes, OtherTypes, localVars, loopVars, ToolsFit
  <2> QED
    BY <2>1, <2>2 DEF Types
<1>10. ASSUME Recycle
       PROVE  Types'
  <2>1. Lock!TypeOK'
    BY <1>0, <1>10 DEF Recycle, Lock!TypeOK, Lock!Unsettled, Lock!Outcomes
  <2>2. LocalTypes'
    BY <1>0, <1>10, DropTypes DEF Recycle
  <2>3. OtherTypes'
    BY <1>0, <1>10 DEF Recycle, OtherTypes, memoryVars
  <2> QED
    BY <2>1, <2>2, <2>3 DEF Types
<1>11. ASSUME UNCHANGED vars
       PROVE  Types'
  BY <1>11 DEF vars, lockVars, localVars, loopVars, memoryVars, Types, LocalTypes, OtherTypes, Lock!TypeOK,
     ToolsFit
<1> QED
  BY <1>1, <1>2, <1>3, <1>4, <1>5, <1>6, <1>7, <1>8, <1>9, <1>10, <1>11
     DEF Next, Proceeds, ServiceAnswers, AllOver

-----------------------------------------------------------------------------
(* The messages of the loop. *)

\* A call settles once.
SettledOnce(t) ==
    \A x, y \in Range(settled[t]) : x.toolUseId = y.toolUseId => x = y

AnsweredIn(t) ==
    awaits[t] = "converse" /\ round[t] > 1 =>
        /\ DOMAIN toolResults[t] = ExtractToolCalls(content[t])
        /\ \A i \in DOMAIN toolResults[t] : toolResults[t][i].toolUseId = i
        /\ Range(toolResults[t]) = Range(settled[t])

Messages == \A t \in Turns : SettledOnce(t) /\ AnsweredIn(t)

LEMMA EmptyRange == Range(<<>>) = {}
  BY DEF Range

LEMMA InitMessages == Init => Messages
  BY EmptyRange DEF Init, Messages, SettledOnce, AnsweredIn

\* A step that leaves the messages of all turns but t alone, and those of t too or
\* has it wait for something else than an answer to them.
LEMMA MovingMessages ==
    ASSUME Messages, NEW t \in Turns,
           \A u \in Turns \ {t} :
               /\ awaits'[u] = awaits[u] /\ round'[u] = round[u] /\ content'[u] = content[u]
               /\ settled'[u] = settled[u] /\ toolResults'[u] = toolResults[u],
           settled'[t] = settled[t] \/ settled'[t] = <<>>,
           awaits'[t] = "converse" => round'[t] <= 1,
           round'[t] \in Nat
    PROVE  Messages'
<1>1. \A u \in Turns \ {t} : SettledOnce(u)' /\ AnsweredIn(u)'
  BY DEF Messages, SettledOnce, AnsweredIn
<1>2. SettledOnce(t)'
  BY EmptyRange DEF Messages, SettledOnce
<1>3. AnsweredIn(t)'
  BY DEF AnsweredIn
<1> QED
  BY <1>1, <1>2, <1>3 DEF Messages

\* A call that settles had not settled before.
LEMMA SettlingMessages ==
    ASSUME LocalTypes, Messages, NEW t \in Turns, ToolSettles(t)
    PROVE  Messages'
<1>1. PICK i \in ExtractToolCalls(content[t]) \ SettledCalls(t), isError \in BOOLEAN :
         settled' = [settled EXCEPT ![t] = Append(@, [toolUseId |-> i, isError |-> isError])]
  BY DEF ToolSettles
<1> DEFINE r == [toolUseId |-> i, isError |-> isError]
<1>2. awaits[t] = "tools" /\ UNCHANGED <<awaits, round, content, toolResults>>
  BY DEF ToolSettles
<1>3. Range(settled'[t]) = Range(settled[t]) \cup {r}
  <2>1. settled[t] \in Seq(ToolCallResult) /\ settled'[t] = Append(settled[t], r)
    BY <1>1 DEF LocalTypes
  <2> HIDE DEF r
  <2>2. /\ Len(settled'[t]) = Len(settled[t]) + 1 /\ Len(settled[t]) \in Nat
        /\ DOMAIN settled'[t] = 1..Len(settled[t]) + 1 /\ DOMAIN settled[t] = 1..Len(settled[t])
        /\ \A n \in 1..Len(settled[t]) : settled'[t][n] = settled[t][n]
        /\ settled'[t][Len(settled[t]) + 1] = r
    BY <2>1
  <2> QED
    BY <2>2 DEF Range
<1>4. \A x \in Range(settled[t]) : x.toolUseId # r.toolUseId
  BY <1>1 DEF SettledCalls
<1>5. SettledOnce(t)'
  BY <1>3, <1>4 DEF Messages, SettledOnce
<1>6. \A u \in Turns \ {t} : settled'[u] = settled[u]
  BY <1>1 DEF LocalTypes
<1>7. \A u \in Turns \ {t} : SettledOnce(u)'
  BY <1>6 DEF Messages, SettledOnce
<1>8. \A u \in Turns : AnsweredIn(u)'
  BY <1>2, <1>6 DEF Messages, AnsweredIn
<1> QED
  BY <1>5, <1>7, <1>8 DEF Messages

\* The results that are pushed are what the calls returned, each beside its call.
LEMMA RoundOverMessages ==
    ASSUME LocalTypes, Messages, NEW t \in Turns, RoundOver(t), ~Return(t)
    PROVE  Messages'
<1> DEFINE calls == ExtractToolCalls(content[t])
           results == PromiseAll(calls, settled[t])
<1>1. /\ SettledCalls(t) = calls
      /\ toolResults' = [toolResults EXCEPT ![t] = results]
      /\ UNCHANGED <<settled, content>>
      /\ \A u \in Turns \ {t} : awaits'[u] = awaits[u] /\ round'[u] = round[u]
  BY DEF RoundOver, CountRound, SuspendAt, LocalTypes
<1>2. DOMAIN results = calls
  BY DEF PromiseAll
<1>3. \A i \in calls : results[i] \in Range(settled[t]) /\ results[i].toolUseId = i
  BY <1>1, PromiseAllAnswers
<1>4. ASSUME NEW x \in Range(settled[t])
      PROVE  x.toolUseId \in calls /\ results[x.toolUseId] = x
  <2>1. x.toolUseId \in calls
    BY <1>1 DEF SettledCalls
  <2> QED
    BY <1>3, <2>1 DEF Messages, SettledOnce
<1>5. Range(results) = Range(settled[t])
  BY <1>2, <1>3, <1>4 DEF Range
<1>6. toolResults'[t] = results /\ \A u \in Turns \ {t} : toolResults'[u] = toolResults[u]
  BY <1>1 DEF LocalTypes
<1> HIDE DEF results
<1>7. \A u \in Turns : SettledOnce(u)'
  BY <1>1 DEF Messages, SettledOnce
<1>8. AnsweredIn(t)'
  BY <1>1, <1>2, <1>3, <1>5, <1>6 DEF AnsweredIn
<1>9. \A u \in Turns \ {t} : AnsweredIn(u)'
  BY <1>1, <1>6 DEF Messages, AnsweredIn
<1> QED
  BY <1>7, <1>8, <1>9 DEF Messages

LEMMA DroppedMessages ==
    ASSUME LocalTypes, Messages, NEW over, Drop(over)
    PROVE  Messages'
<1>1. ASSUME NEW t \in Turns PROVE SettledOnce(t)' /\ AnsweredIn(t)'
  <2>1. CASE t \in over
    <3>1. awaits'[t] = "nothing" /\ settled'[t] = <<>>
      BY <2>1 DEF Drop
    <3> QED
      BY <3>1, EmptyRange DEF SettledOnce, AnsweredIn
  <2>2. CASE t \notin over
    <3>1. /\ awaits'[t] = awaits[t] /\ round'[t] = round[t] /\ content'[t] = content[t]
          /\ settled'[t] = settled[t] /\ toolResults'[t] = toolResults[t]
      BY <2>2 DEF Drop
    <3> QED
      BY <3>1 DEF Messages, SettledOnce, AnsweredIn
  <2> QED
    BY <2>1, <2>2
<1> QED
  BY <1>1 DEF Messages

LEMMA NextMessages ==
    ASSUME Types, IInv, Messages, [Next]_vars
    PROVE  Messages'
<1> USE DEF SuspendAt
<1>0. LocalTypes
  BY DEF Types
<1>1. CASE UNCHANGED localVars
  BY <1>1 DEF localVars, loopVars, Messages, SettledOnce, AnsweredIn
<1>2. ASSUME NEW t \in Turns, StartTurn(t) \/ RecentTurnsAnswered(t) \/ ModelReplies(t)
      PROVE  Messages'
  <2>1. /\ UNCHANGED <<round, content, settled, toolResults>>
        /\ awaits'[t] # "converse" /\ \A u \in Turns \ {t} : awaits'[u] = awaits[u]
    BY <1>0, <1>2 DEF StartTurn, RecentTurnsAnswered, ModelReplies, loopVars, LocalTypes
  <2> QED
    BY <1>0, <2>1, MovingMessages, LimitsAssumption DEF LocalTypes
<1>3. ASSUME NEW t \in Turns, PreferencesAnswered(t)
      PROVE  Messages'
  <2>1. round[t] = 0
    BY <1>3 DEF PreferencesAnswered, IInv, Rounds
  <2>2. /\ UNCHANGED <<content, settled, toolResults>>
        /\ round'[t] = 1 /\ \A u \in Turns \ {t} : awaits'[u] = awaits[u] /\ round'[u] = round[u]
    BY <1>0, <1>3, <2>1 DEF PreferencesAnswered, CountRound, LocalTypes
  <2> QED
    BY <2>2, MovingMessages
<1>4. ASSUME NEW t \in Turns, ModelAsksForTools(t)
      PROVE  Messages'
  <2>1. /\ UNCHANGED round /\ settled'[t] = <<>> /\ awaits'[t] # "converse"
        /\ \A u \in Turns \ {t} :
              /\ awaits'[u] = awaits[u] /\ content'[u] = content[u]
              /\ settled'[u] = settled[u] /\ toolResults'[u] = toolResults[u]
    BY <1>0, <1>4 DEF ModelAsksForTools, LocalTypes
  <2> QED
    BY <1>0, <2>1, MovingMessages, LimitsAssumption DEF LocalTypes
<1>5. ASSUME NEW t \in Turns, ModelFails(t) \/ RecordTurnAnswered(t) \/ (RoundOver(t) /\ Return(t))
      PROVE  Messages'
  BY <1>0, <1>5, DroppedMessages DEF ModelFails, RecordTurnAnswered, Return
<1>6. ASSUME Recycle
      PROVE  Messages'
  BY <1>0, <1>6, DroppedMessages DEF Recycle
<1>7. ASSUME NEW t \in Turns, Invoke(t) \/ EventLands(t) \/ AllOver
      PROVE  UNCHANGED localVars
  BY <1>7 DEF Invoke, EventLands, AllOver, vars
<1> QED
  BY <1>0, <1>1, <1>2, <1>3, <1>4, <1>5, <1>6, <1>7, SettlingMessages, RoundOverMessages
     DEF Next, Proceeds, ServiceAnswers, AllOver, vars

-----------------------------------------------------------------------------
(* The order of turns. *)

\* u arrived before t in the same session.
Older(u, t) ==
    SessionOf[u] = SessionOf[t] /\ promise[u] # "none" /\ ticket[u] < ticket[t]

Tickets ==
    \A t \in Turns :
        /\ promise[t] = "none" => ticket[t] = 0
        /\ promise[t] # "none" => ticket[t] \in 1..issued[SessionOf[t]]
        /\ \A u \in Turns : /\ promise[t] # "none" /\ SessionOf[u] = SessionOf[t]
                            /\ ticket[u] = ticket[t]
                            => u = t

\* When a turn comes, those before it are over.
ServedInOrder ==
    \A t, u \in Turns : promise[t] \notin {"none", "waiting"} /\ Older(u, t) => Lock!Settled(u)

\* It waits for the last of those that are not.
WaitsForOlder ==
    \A t, u \in Turns :
        promise[t] = "waiting" /\ Older(u, t) /\ ~Lock!Settled(u) =>
            previous[t] \in Turns /\ (u = previous[t] \/ Older(u, previous[t]))

ChainEndsLast ==
    \A u \in Turns :
        LET end == queueBySessionId[SessionOf[u]]
        IN  promise[u] # "none" /\ ~Lock!Settled(u) => end \in Turns /\ (u = end \/ Older(u, end))

LockOrder == Tickets /\ ServedInOrder /\ WaitsForOlder /\ ChainEndsLast

LEMMA InvokeOrder ==
    ASSUME Lock!TypeOK, LockOrder, NEW c \in Turns, Lock!RunExclusive(c)
    PROVE  LockOrder'
<1>1. PICK s \in Sessions : SessionOf[c] = s
  BY OwnersAssumption
<1>2. PICK n \in Nat : issued[s] = n
  BY DEF Lock!TypeOK
<1>3. PICK end \in Turns \cup {NoTurn} : queueBySessionId[s] = end
  BY DEF Lock!TypeOK
<1>4. /\ promise[c] = "none"
      /\ previous' = [previous EXCEPT ![c] = end]
      /\ promise' = [promise EXCEPT ![c] = "waiting"]
      /\ queueBySessionId' = [queueBySessionId EXCEPT ![s] = c]
      /\ ticket' = [ticket EXCEPT ![c] = n + 1]
      /\ issued' = [issued EXCEPT ![s] = n + 1]
  BY <1>1, <1>2, <1>3 DEF Lock!RunExclusive, Lock!ExtendChain
<1>5. /\ previous'[c] = end /\ promise'[c] = "waiting" /\ ticket'[c] = n + 1
      /\ queueBySessionId'[s] = c /\ issued'[s] = n + 1
      /\ \A t \in Turns \ {c} : /\ previous'[t] = previous[t] /\ promise'[t] = promise[t]
                                /\ ticket'[t] = ticket[t]
      /\ \A r \in Sessions \ {s} : /\ queueBySessionId'[r] = queueBySessionId[r]
                                   /\ issued'[r] = issued[r]
      /\ \A t \in Turns : ticket[t] \in Nat /\ issued[SessionOf[t]] \in Nat /\ SessionOf[t] \in Sessions
  BY <1>4, OwnersAssumption DEF Lock!TypeOK
<1> DEFINE Over(t) == Lock!Settled(t)
<1>6. ~Over(c)' /\ ~Over(c) /\ ticket[c] = 0 /\ \A t \in Turns \ {c} : Over(t)' <=> Over(t)
  BY <1>4, <1>5 DEF Lock!Settled, Lock!Outcomes, LockOrder, Tickets
<1>7. \A t \in Turns : SessionOf[t] = s /\ promise[t] # "none" => ticket[t] \in 1..n
  BY <1>2 DEF LockOrder, Tickets
<1>8. Tickets'
  BY <1>1, <1>5, <1>7 DEF LockOrder, Tickets
<1>9. /\ \A t \in Turns : ~Older(c, t)'
      /\ \A t, u \in Turns : u # c /\ t # c => (Older(u, t)' <=> Older(u, t))
      /\ \A u \in Turns : ~Older(u, c)
  <2>1. \A t \in Turns : ~Older(c, t)'
    BY <1>1, <1>4, <1>5, <1>7, <1>6 DEF Older, LockOrder, Tickets
  <2>2. \A t, u \in Turns : u # c /\ t # c => (Older(u, t)' <=> Older(u, t))
    BY <1>5 DEF Older
  <2>3. \A u \in Turns : ~Older(u, c)
    BY <1>5, <1>6 DEF Older
  <2> QED
    BY <2>1, <2>2, <2>3
<1>10. ServedInOrder'
  <2> SUFFICES ASSUME NEW t \in Turns, NEW u \in Turns,
                      promise'[t] \notin {"none", "waiting"}, Older(u, t)'
               PROVE  Over(u)'
    BY DEF ServedInOrder
  <2>1. t # c /\ u # c
    BY <1>5, <1>9
  <2> QED
    BY <1>5, <1>6, <1>9, <2>1 DEF LockOrder, ServedInOrder
<1>11. WaitsForOlder'
  <2> SUFFICES ASSUME NEW t \in Turns, NEW u \in Turns,
                      promise'[t] = "waiting", Older(u, t)', ~Over(u)',
                      NEW p, p = previous'[t]
               PROVE  p \in Turns /\ (u = p \/ Older(u, p)')
    BY DEF WaitsForOlder
  <2>1. u # c /\ ~Over(u) /\ promise[u] # "none"
    BY <1>5, <1>6, <1>9 DEF Older
  <2>2. CASE t = c
    <3>1. SessionOf[u] = s
      BY <1>1, <2>2 DEF Older
    <3>2. end \in Turns /\ (u = end \/ Older(u, end))
      BY <1>3, <2>1, <3>1 DEF LockOrder, ChainEndsLast
    <3>3. end # c
      BY <1>9, <2>1, <3>2
    <3> QED
      BY <1>5, <1>9, <2>1, <2>2, <3>2, <3>3
  <2>3. CASE t # c
    <3>1. Older(u, t) /\ promise[t] = "waiting" /\ previous[t] = p
      BY <1>5, <1>9, <2>1, <2>3
    <3>2. p \in Turns /\ (u = p \/ Older(u, p))
      BY <2>1, <3>1 DEF LockOrder, WaitsForOlder
    <3>3. u = p \/ p # c
      BY <1>9, <3>2
    <3> QED
      BY <1>9, <2>1, <3>2, <3>3
  <2> QED
    BY <2>2, <2>3
<1>12. ChainEndsLast'
  <2> SUFFICES ASSUME NEW u \in Turns, promise'[u] # "none", ~Over(u)',
                      NEW last, last = queueBySessionId'[SessionOf[u]]
               PROVE  last \in Turns /\ (u = last \/ Older(u, last)')
    BY DEF ChainEndsLast
  <2>1. CASE SessionOf[u] = s
    <3>1. last = c
      BY <1>5, <2>1
    <3>2. u # c => promise[u] # "none" /\ ticket[u] \in 1..n
      BY <1>5, <1>7, <2>1
    <3> QED
      BY <1>1, <1>2, <1>5, <2>1, <3>1, <3>2 DEF Older
  <2>2. CASE SessionOf[u] # s
    <3>1. u # c /\ last = queueBySessionId[SessionOf[u]] /\ ~Over(u) /\ promise[u] # "none"
      BY <1>1, <1>5, <1>6, <2>2
    <3>2. last \in Turns /\ (u = last \/ Older(u, last))
      BY <3>1 DEF LockOrder, ChainEndsLast
    <3> QED
      BY <1>9, <3>1, <3>2
  <2> QED
    BY <2>1, <2>2
<1> QED
  BY <1>8, <1>10, <1>11, <1>12 DEF LockOrder

LEMMA StartOrder ==
    ASSUME Lock!TypeOK, LockOrder, NEW c \in Turns, Lock!StartFn(c)
    PROVE  LockOrder'
<1>1. /\ promise[c] = "waiting"
      /\ previous[c] # NoTurn => Lock!Settled(previous[c])
      /\ promise' = [promise EXCEPT ![c] = "running"]
      /\ UNCHANGED <<queueBySessionId, previous, ticket, issued>>
  BY DEF Lock!StartFn, Lock!PredecessorOver, Lock!historyVars
<1>2. /\ promise'[c] = "running" /\ \A t \in Turns \ {c} : promise'[t] = promise[t]
      /\ \A t \in Turns : previous[t] \in Turns \cup {NoTurn}
  BY <1>1 DEF Lock!TypeOK
<1>3. \A u \in Turns : Older(u, c) => Lock!Settled(u)
  <2> SUFFICES ASSUME NEW u \in Turns, Older(u, c), ~Lock!Settled(u) PROVE FALSE
    OBVIOUS
  <2>1. previous[c] \in Turns /\ (u = previous[c] \/ Older(u, previous[c]))
    BY <1>1 DEF LockOrder, WaitsForOlder
  <2>2. Lock!Settled(previous[c]) /\ Older(u, previous[c])
    BY <1>1, <2>1, NoTurnAssumption
  <2>3. PICK p \in Turns : previous[c] = p
    BY <2>1
  <2>4. promise[p] \notin {"none", "waiting"}
    BY <2>2, <2>3 DEF Lock!Settled, Lock!Outcomes
  <2> QED
    BY <2>2, <2>3, <2>4 DEF LockOrder, ServedInOrder
<1>4. /\ \A t \in Turns : Lock!Settled(t)' <=> Lock!Settled(t)
      /\ \A t \in Turns : promise'[t] = "none" <=> promise[t] = "none"
      /\ \A u, t \in Turns : Older(u, t)' <=> Older(u, t)
  BY <1>1, <1>2 DEF Lock!Settled, Lock!Outcomes, Older
<1>5. Tickets'
  BY <1>1, <1>4 DEF LockOrder, Tickets
<1>6. ServedInOrder'
  BY <1>2, <1>3, <1>4 DEF LockOrder, ServedInOrder
<1>7. WaitsForOlder'
  <2> SUFFICES ASSUME NEW t \in Turns, NEW u \in Turns,
                      promise'[t] = "waiting", Older(u, t)', ~Lock!Settled(u)'
               PROVE  previous[t] \in Turns /\ (u = previous[t] \/ Older(u, previous[t])')
    BY <1>1 DEF WaitsForOlder
  <2>1. previous[t] \in Turns /\ (u = previous[t] \/ Older(u, previous[t]))
    BY <1>2, <1>4 DEF LockOrder, WaitsForOlder
  <2>2. PICK p \in Turns : previous[t] = p
    BY <2>1
  <2> QED
    BY <1>1, <1>4, <2>1, <2>2
<1>8. ChainEndsLast'
  <2> SUFFICES ASSUME NEW u \in Turns, promise'[u] # "none", ~Lock!Settled(u)',
                      NEW last, last = queueBySessionId[SessionOf[u]]
               PROVE  last \in Turns /\ (u = last \/ Older(u, last)')
    BY <1>1 DEF ChainEndsLast
  <2>1. last \in Turns /\ (u = last \/ Older(u, last))
    BY <1>4 DEF LockOrder, ChainEndsLast
  <2> QED
    BY <1>4, <2>1
<1> QED
  BY <1>5, <1>6, <1>7, <1>8 DEF LockOrder

\* Turns that are over only make the conditions weaker: one that returns, or all
\* that a recycled process had under way, whose chain is empty again.
LEMMA OverOrder ==
    ASSUME LockOrder, UNCHANGED <<previous, ticket, issued>>,
           \A t \in Turns : promise'[t] = promise[t] \/ (promise[t] # "none" /\ Lock!Settled(t)'),
           \A u \in Turns : Lock!Settled(u) => Lock!Settled(u)',
           \/ UNCHANGED queueBySessionId
           \/ \A u \in Turns : promise[u] # "none" => Lock!Settled(u)',
           \A t \in Turns : /\ promise[t] \in {"none", "waiting"}
                            /\ promise'[t] \notin {"none", "waiting"}
                            => \A u \in Turns : promise[u] # "none" => Lock!Settled(u)'
    PROVE  LockOrder'
<1>1. /\ \A t \in Turns : promise'[t] = "none" <=> promise[t] = "none"
      /\ \A t \in Turns : promise'[t] = "waiting" => promise[t] = "waiting"
  BY DEF Lock!Settled, Lock!Outcomes
<1>2. \A u \in Turns : \A t : Older(u, t)' <=> Older(u, t)
  BY <1>1 DEF Older
<1>3. Tickets'
  BY <1>1 DEF LockOrder, Tickets
<1>4. ServedInOrder'
  <2> SUFFICES ASSUME NEW t \in Turns, NEW u \in Turns,
                      promise'[t] \notin {"none", "waiting"}, Older(u, t)
               PROVE  Lock!Settled(u)'
    BY <1>2 DEF ServedInOrder
  <2>1. CASE promise[t] \in {"none", "waiting"}
    BY <2>1 DEF Older
  <2>2. CASE promise[t] \notin {"none", "waiting"}
    BY <2>2 DEF LockOrder, ServedInOrder
  <2> QED
    BY <2>1, <2>2
<1>5. WaitsForOlder'
  <2> SUFFICES ASSUME NEW t \in Turns, NEW u \in Turns,
                      promise'[t] = "waiting", Older(u, t)', ~Lock!Settled(u)'
               PROVE  previous[t] \in Turns /\ (u = previous[t] \/ Older(u, previous[t])')
    BY DEF WaitsForOlder
  <2>1. previous[t] \in Turns /\ (u = previous[t] \/ Older(u, previous[t]))
    BY <1>1, <1>2 DEF LockOrder, WaitsForOlder
  <2>2. PICK p \in Turns : previous[t] = p /\ previous'[t] = p
    BY <2>1
  <2> QED
    BY <1>2, <2>1, <2>2
<1>6. ChainEndsLast'
  <2> SUFFICES ASSUME NEW u \in Turns, promise'[u] # "none", ~Lock!Settled(u)',
                      NEW last, last = queueBySessionId'[SessionOf[u]]
               PROVE  last \in Turns /\ (u = last \/ Older(u, last)')
    BY DEF ChainEndsLast
  <2>1. promise[u] # "none" /\ ~Lock!Settled(u) /\ UNCHANGED queueBySessionId
    BY <1>1
  <2>2. last \in Turns /\ (u = last \/ Older(u, last))
    BY <2>1 DEF LockOrder, ChainEndsLast
  <2> QED
    BY <1>2, <2>2
<1> QED
  BY <1>3, <1>4, <1>5, <1>6 DEF LockOrder

-----------------------------------------------------------------------------
(* What Memory keeps. *)

Working == Awaits \ {"recordTurn"}

OutcomeAtEnd ==
    \A t \in Turns :
        /\ promise[t] \in {"none", "waiting"} \/ awaits[t] \in Working => outcome[t] = "none"
        /\ t \in disturbed => promise[t] # "none"

\* The turns that were sent to Memory are those that got a reply; once such a
\* turn is over, its event is stored unless the turn was disturbed.
EventsAreReplies ==
    /\ \A t \in Turns : outcome[t] = "reply" <=> \E i \in DOMAIN created : created[i] = t
    /\ \A t \in stored : outcome[t] = "reply"
    /\ \A t \in Turns \ disturbed : Lock!Settled(t) /\ outcome[t] = "reply" => t \in stored

\* The events of a session have its turns' order.
CreatedInOrder ==
    \A i, j \in DOMAIN created :
        i < j /\ SessionOf[created[i]] = SessionOf[created[j]] =>
            ticket[created[i]] < ticket[created[j]]

Kept == OutcomeAtEnd /\ EventsAreReplies /\ CreatedInOrder

\* The invariants so far.
Base == Types /\ IInv /\ LockOrder /\ Kept

\* While a turn runs, what is over in its session is what arrived before it.
LEMMA RunsAfterOlder ==
    ASSUME Base, NEW t \in Turns, promise[t] = "running", NEW u \in Turns \ {t},
           SessionOf[u] = SessionOf[t], outcome[u] # "none" \/ Lock!Settled(u)
    PROVE  Older(u, t) /\ Lock!Settled(u)
<1>1. promise[u] \notin {"none", "waiting"}
  BY DEF Base, Kept, OutcomeAtEnd, Lock!Settled, Lock!Outcomes
<1>2. ticket[u] \in Nat /\ ticket[t] \in Nat /\ ticket[u] # ticket[t]
  BY DEF Base, Types, Lock!TypeOK, LockOrder, Tickets
<1>3. ~Older(t, u)
  BY <1>1 DEF Base, LockOrder, ServedInOrder, Lock!Settled, Lock!Outcomes
<1>4. Older(u, t)
  BY <1>1, <1>2, <1>3 DEF Older
<1> QED
  BY <1>4 DEF Base, LockOrder, ServedInOrder

\* Steps that send nothing to Memory.
LEMMA KeptStays ==
    ASSUME Base, UNCHANGED created, stored' = stored,
           \A t \in Turns : promise[t] # "none" => promise'[t] # "none" /\ ticket'[t] = ticket[t],
           \A t \in Turns : outcome'[t] = "reply" <=> outcome[t] = "reply",
           \A t \in Turns : promise'[t] \in {"none", "waiting"} \/ awaits'[t] \in Working
                            => outcome'[t] = "none",
           disturbed \subseteq disturbed',
           \A t \in disturbed' : promise'[t] # "none",
           \A t \in Turns \ disturbed' :
               Lock!Settled(t)' /\ outcome[t] = "reply" => Lock!Settled(t) \/ t \in stored
    PROVE  Kept'
<1>1. OutcomeAtEnd'
  BY DEF OutcomeAtEnd
<1>2. stored \subseteq Turns
  BY DEF Base, Types, OtherTypes
<1>3. EventsAreReplies'
  BY <1>2 DEF Base, Kept, EventsAreReplies
<1>4. CreatedInOrder'
  <2>1. \A i \in DOMAIN created : created[i] \in Turns /\ promise[created[i]] # "none"
    BY DEF Base, Kept, OutcomeAtEnd, EventsAreReplies, Types, OtherTypes
  <2> QED
    BY <2>1 DEF Base, Kept, CreatedInOrder
<1> QED
  BY <1>1, <1>3, <1>4 DEF Kept

LEMMA ReplyKeeps ==
    ASSUME Base, NEW t \in Turns, ModelReplies(t)
    PROVE  Kept' /\ LockOrder'
<1>1. /\ awaits[t] = "converse" /\ outcome' = [outcome EXCEPT ![t] = "reply"]
      /\ created' = Append(created, t) /\ awaits' = [awaits EXCEPT ![t] = "recordTurn"]
      /\ UNCHANGED <<promise, previous, queueBySessionId, issued, ticket, stored, disturbed>>
  BY DEF ModelReplies, SuspendAt, lockVars
<1>2. /\ created \in Seq(Turns) /\ outcome' = [u \in Turns |-> IF u = t THEN "reply" ELSE outcome[u]]
      /\ awaits' = [u \in Turns |-> IF u = t THEN "recordTurn" ELSE awaits[u]]
      /\ promise[t] = "running" /\ outcome[t] = "none" /\ stored \subseteq Turns
  BY <1>1 DEF Base, Types, OtherTypes, LocalTypes, IInv, Rounds, Kept, OutcomeAtEnd, Working, Awaits
<1>3. /\ DOMAIN created = 1..Len(created) /\ Len(created) \in Nat
      /\ DOMAIN created' = 1..(Len(created) + 1)
      /\ \A i \in DOMAIN created : created'[i] = created[i] /\ created[i] \in Turns
      /\ created'[Len(created) + 1] = t
  BY <1>1, <1>2
<1>4. OutcomeAtEnd'
  BY <1>1, <1>2 DEF Base, Kept, OutcomeAtEnd, Working
<1>5. EventsAreReplies'
  <2>1. \A u \in Turns : outcome'[u] = "reply" <=> \E i \in DOMAIN created' : created'[i] = u
    <3> TAKE u \in Turns
    <3>1. CASE u = t
      BY <1>2, <1>3, <3>1
    <3>2. CASE u # t
      <4>1. outcome[u] = "reply" <=> \E i \in DOMAIN created : created[i] = u
        BY DEF Base, Kept, EventsAreReplies
      <4> QED
        BY <1>2, <1>3, <3>2, <4>1
    <3> QED
      BY <3>1, <3>2
  <2>2. /\ \A u \in stored' : outcome'[u] = "reply"
        /\ \A u \in Turns \ disturbed' : Lock!Settled(u)' /\ outcome'[u] = "reply" => u \in stored'
    BY <1>1, <1>2 DEF Base, Kept, EventsAreReplies, Lock!Settled, Lock!Outcomes
  <2> QED
    BY <2>1, <2>2 DEF EventsAreReplies
<1>6. CreatedInOrder'
  <2> SUFFICES ASSUME NEW i \in DOMAIN created', NEW j \in DOMAIN created', i < j,
                      SessionOf[created'[i]] = SessionOf[created'[j]]
               PROVE  ticket[created'[i]] < ticket[created'[j]]
    BY <1>1 DEF CreatedInOrder
  <2>1. i \in DOMAIN created
    BY <1>3
  <2>2. PICK u \in Turns : created[i] = u /\ created'[i] = u
    BY <1>3, <2>1
  <2>3. CASE j = Len(created) + 1
    <3>1. created'[j] = t /\ SessionOf[u] = SessionOf[t]
      BY <1>3, <2>2, <2>3
    <3>2. outcome[u] = "reply" /\ u # t
      BY <1>2, <2>1, <2>2 DEF Base, Kept, EventsAreReplies
    <3>3. Older(u, t)
      BY <1>2, <3>1, <3>2, RunsAfterOlder
    <3> QED
      BY <2>2, <3>1, <3>3 DEF Older
  <2>4. CASE j # Len(created) + 1
    <3>1. j \in DOMAIN created /\ created'[j] = created[j]
      BY <1>3, <2>4
    <3> QED
      BY <2>1, <2>2, <3>1 DEF Base, Kept, CreatedInOrder
  <2> QED
    BY <2>3, <2>4
<1>7. LockOrder'
  BY <1>1, OverOrder DEF Base, Lock!Settled
<1> QED
  BY <1>4, <1>5, <1>6, <1>7 DEF Kept

LEMMA LandsKeeps ==
    ASSUME Base, NEW t \in Turns, EventLands(t)
    PROVE  Kept'
<1>1. /\ \E i \in DOMAIN created : created[i] = t
      /\ stored' = stored \cup {t}
      /\ UNCHANGED <<promise, ticket, awaits, outcome, created, disturbed>>
  BY DEF EventLands, Range, lockVars, localVars
<1> QED
  BY <1>1 DEF Base, Kept, OutcomeAtEnd, EventsAreReplies, CreatedInOrder, Lock!Settled

LEMMA ReturnKept ==
    ASSUME Base, NEW t \in Turns, Return(t), UNCHANGED memoryVars,
           disturbed' = disturbed \/ disturbed' = disturbed \cup {t},
           \/ awaits[t] \in Working /\ outcome' = [outcome EXCEPT ![t] = "ModelError"]
                                    /\ UNCHANGED disturbed
           \/ UNCHANGED outcome /\ (t \in stored \/ t \in disturbed')
    PROVE  Kept' /\ LockOrder'
<1>1. /\ promise[t] = "running" /\ promise' = [promise EXCEPT ![t] = "fulfilled"]
      /\ awaits' = [u \in Turns |-> IF u = t THEN "nothing" ELSE awaits[u]]
      /\ UNCHANGED <<queueBySessionId, previous, ticket, issued, created, stored>>
  BY DEF Return, Drop, Lock!SettleFn, memoryVars
<1>2. promise' = [u \in Turns |-> IF u = t THEN "fulfilled" ELSE promise[u]]
  BY <1>1 DEF Base, Types, Lock!TypeOK
<1>3. \A u \in Turns : Lock!Settled(u)' <=> Lock!Settled(u) \/ u = t
  BY <1>2 DEF Lock!Settled, Lock!Outcomes
<1>4. LockOrder'
  BY <1>1, <1>2, <1>3, OverOrder DEF Base
<1>5. /\ \A u \in Turns : outcome'[u] = "reply" <=> outcome[u] = "reply"
      /\ \A u \in Turns \ {t} : outcome'[u] = outcome[u]
      /\ outcome'[t] = "reply" => t \in stored \/ t \in disturbed'
  <2>1. awaits[t] \in Working => outcome[t] = "none"
    BY DEF Base, Kept, OutcomeAtEnd
  <2> QED
    BY <2>1 DEF Base, Types, OtherTypes
<1>6. \A u \in disturbed' : promise'[u] # "none"
  BY <1>2 DEF Base, Kept, OutcomeAtEnd, Types, OtherTypes
<1>7. \A u \in Turns : promise'[u] \in {"none", "waiting"} \/ awaits'[u] \in Working
                       => outcome'[u] = "none"
  BY <1>1, <1>2, <1>5 DEF Base, Kept, OutcomeAtEnd, Working, Awaits
<1>8. Kept'
  BY <1>1, <1>2, <1>3, <1>5, <1>6, <1>7, KeptStays
<1> QED
  BY <1>4, <1>8

\* A turn's way from its session's queue to the model and through the loop.
LEMMA StepsKept ==
    ASSUME Base, NEW t \in Turns,
           \/ Invoke(t) \/ StartTurn(t) \/ RecentTurnsAnswered(t) \/ PreferencesAnswered(t)
           \/ ModelAsksForTools(t) \/ ToolSettles(t) \/ (RoundOver(t) /\ ~Return(t))
    PROVE  Kept' /\ LockOrder'
<1>0. /\ Lock!TypeOK /\ LockOrder /\ promise \in [Turns -> {"none"} \cup Lock!Unsettled \cup Lock!Outcomes]
      /\ awaits \in [Turns -> Awaits \cup {"nothing"}]
      /\ \A u \in Turns : promise[u] # "running" => awaits[u] = "nothing"
      /\ disturbed \subseteq Turns
  BY DEF Base, Types, LocalTypes, OtherTypes, Lock!TypeOK, IInv, Rounds
<1>1. CASE Invoke(t)
  <2>1. LockOrder'
    BY <1>0, <1>1, InvokeOrder DEF Invoke
  <2>2. /\ promise[t] = "none" /\ promise' = [promise EXCEPT ![t] = "waiting"]
        /\ \A u \in Turns \ {t} : ticket'[u] = ticket[u]
        /\ UNCHANGED <<awaits, outcome, created, stored, disturbed>>
    BY <1>0, <1>1 DEF Invoke, Lock!RunExclusive, localVars, memoryVars, Lock!TypeOK
  <2>3. promise'[t] = "waiting" /\ \A u \in Turns \ {t} : promise'[u] = promise[u]
    BY <1>0, <2>2
  <2>4. \A u \in Turns : Lock!Settled(u)' <=> Lock!Settled(u)
    BY <2>2, <2>3 DEF Lock!Settled, Lock!Outcomes
  <2>5. \A u \in Turns : promise'[u] \in {"none", "waiting"} \/ awaits'[u] \in Working
                         => outcome'[u] = "none"
    BY <2>2, <2>3 DEF Base, Kept, OutcomeAtEnd
  <2>6. \A u \in disturbed' : promise'[u] # "none"
    BY <1>0, <2>2, <2>3 DEF Base, Kept, OutcomeAtEnd
  <2>7. \A u \in Turns : promise[u] # "none" => promise'[u] # "none" /\ ticket'[u] = ticket[u]
    BY <2>2, <2>3
  <2>8. Kept'
    BY <2>2, <2>4, <2>5, <2>6, <2>7, KeptStays
  <2> QED
    BY <2>1, <2>8
<1>2. CASE StartTurn(t)
  <2>1. LockOrder'
    BY <1>0, <1>2, StartOrder DEF StartTurn
  <2>2. /\ promise[t] = "waiting" /\ promise' = [promise EXCEPT ![t] = "running"]
        /\ UNCHANGED <<ticket, outcome, created, stored, disturbed>>
        /\ awaits' = [awaits EXCEPT ![t] = "getRecentTurns"]
    BY <1>2 DEF StartTurn, Lock!StartFn, Lock!historyVars, SuspendAt, memoryVars
  <2>3. /\ promise'[t] = "running" /\ \A u \in Turns \ {t} : promise'[u] = promise[u]
        /\ \A u \in Turns \ {t} : awaits'[u] = awaits[u]
    BY <1>0, <2>2
  <2>4. \A u \in Turns : Lock!Settled(u)' <=> Lock!Settled(u)
    BY <2>2, <2>3 DEF Lock!Settled, Lock!Outcomes
  <2>5. \A u \in Turns : promise'[u] \in {"none", "waiting"} \/ awaits'[u] \in Working
                         => outcome'[u] = "none"
    BY <2>2, <2>3 DEF Base, Kept, OutcomeAtEnd
  <2>6. \A u \in disturbed' : promise'[u] # "none"
    BY <1>0, <2>2, <2>3 DEF Base, Kept, OutcomeAtEnd
  <2>7. \A u \in Turns : promise[u] # "none" => promise'[u] # "none" /\ ticket'[u] = ticket[u]
    BY <2>2, <2>3
  <2>8. Kept'
    BY <2>2, <2>4, <2>5, <2>6, <2>7, KeptStays
  <2> QED
    BY <2>1, <2>8
<1>3. CASE ~Invoke(t) /\ ~StartTurn(t)
  <2>1. /\ UNCHANGED <<queueBySessionId, previous, promise, ticket, issued>>
        /\ UNCHANGED <<outcome, created, stored>>
        /\ awaits[t] \in Working
        /\ \A u \in Turns \ {t} : awaits'[u] = awaits[u]
        /\ disturbed' = disturbed \/ disturbed' = disturbed \cup {t}
    BY <1>0, <1>3 DEF RecentTurnsAnswered, PreferencesAnswered, ModelAsksForTools, ToolSettles,
       RoundOver, AnotherRound, SuspendAt, lockVars, memoryVars, Working, Awaits
  <2>2. promise[t] = "running" /\ outcome[t] = "none"
    BY <1>0, <2>1 DEF Base, Kept, OutcomeAtEnd, Working, Awaits
  <2>3. LockOrder'
    BY <1>0, <2>1, OverOrder DEF Lock!Settled
  <2>4. \A u \in Turns : promise'[u] \in {"none", "waiting"} \/ awaits'[u] \in Working
                         => outcome'[u] = "none"
    BY <2>1, <2>2 DEF Base, Kept, OutcomeAtEnd
  <2>5. \A u \in disturbed' : promise'[u] # "none"
    BY <1>0, <2>1, <2>2 DEF Base, Kept, OutcomeAtEnd
  <2>6. \A u \in Turns : Lock!Settled(u)' <=> Lock!Settled(u)
    BY <2>1 DEF Lock!Settled
  <2>7. Kept'
    BY <2>1, <2>4, <2>5, <2>6, KeptStays
  <2> QED
    BY <2>3, <2>7
<1> QED
  BY <1>1, <1>2, <1>3

LEMMA RecycleKept ==
    ASSUME Base, Recycle
    PROVE  Kept' /\ LockOrder'
<1> DEFINE cutOff == {t \in Turns : promise[t] \in Lock!Unsettled}
<1>1. /\ promise' = [t \in Turns |-> IF t \in cutOff THEN "rejected" ELSE promise[t]]
      /\ awaits' = [t \in Turns |-> "nothing"]
      /\ outcome' = [t \in Turns |-> IF t \in cutOff /\ outcome[t] = "none" THEN "lost" ELSE outcome[t]]
      /\ disturbed' = disturbed \cup cutOff
      /\ UNCHANGED <<previous, ticket, issued, created, stored>>
  BY DEF Recycle, Drop, memoryVars
<1>2. /\ promise \in [Turns -> {"none"} \cup Lock!Unsettled \cup Lock!Outcomes]
      /\ disturbed \subseteq Turns
  BY DEF Base, Types, Lock!TypeOK, OtherTypes
<1>3. /\ \A t \in Turns : promise'[t] = promise[t] \/ (promise[t] # "none" /\ Lock!Settled(t)')
      /\ \A t \in Turns : promise[t] # "none" => Lock!Settled(t)'
      /\ \A t \in Turns : Lock!Settled(t)' => Lock!Settled(t) \/ t \in cutOff
      /\ \A t \in Turns : Lock!Settled(t) => promise[t] # "none"
      /\ \A t \in cutOff : promise[t] # "none"
      /\ \A t \in Turns : promise[t] # "none" => promise'[t] # "none"
      /\ \A t \in Turns : promise'[t] \in {"none", "waiting"} => promise[t] = "none" /\ t \notin cutOff
  BY <1>1, <1>2 DEF Lock!Settled, Lock!Outcomes, Lock!Unsettled
<1>4. LockOrder'
  <2>1. LockOrder /\ UNCHANGED <<previous, ticket, issued>>
    BY <1>1 DEF Base
  <2> HIDE DEF cutOff
  <2> QED
    BY <1>3, <2>1, OverOrder
<1>5. \A t \in Turns : promise'[t] \in {"none", "waiting"} \/ awaits'[t] \in Working
                       => outcome'[t] = "none"
  BY <1>1, <1>3 DEF Base, Kept, OutcomeAtEnd, Working, Awaits
<1>6. \A t \in disturbed' : promise'[t] # "none"
  BY <1>1, <1>2, <1>3 DEF Base, Kept, OutcomeAtEnd
<1>7. \A t \in Turns : outcome'[t] = "reply" <=> outcome[t] = "reply"
  BY <1>1
<1>8. Kept'
  BY <1>1, <1>3, <1>5, <1>6, <1>7, KeptStays
<1> QED
  BY <1>4, <1>8

-----------------------------------------------------------------------------
(* What a turn recalls. *)

\* What the two transcript properties say of turn t.
TruthfulOf(t) == SomeOf(transcript[t], RepliedBefore(t))
CompleteOf(t) == Recalled(t) /\ MemoryServed(t) => LastOf(transcript[t], RepliedBefore(t))

Transcripts == \A t \in Turns : TruthfulOf(t) /\ CompleteOf(t)

\* What a turn recalled stays true while it runs, and is forgotten with it.
LEMMA TranscriptStays ==
    ASSUME Base, NEW t \in Turns, TruthfulOf(t), CompleteOf(t),
           \A u \in Turns : promise[u] # "none" => ticket'[u] = ticket[u],
           \A u \in Turns : outcome[u] = "reply" => outcome'[u] = "reply",
           \A u \in Turns : outcome'[u] = "reply" => outcome[u] = "reply" \/ promise[u] = "running",
           disturbed \subseteq disturbed',
           \/ transcript'[t] = transcript[t] /\ (Recalled(t)' => Recalled(t))
           \/ transcript'[t] = <<>> /\ ~Recalled(t)'
    PROVE  TruthfulOf(t)' /\ CompleteOf(t)'
<1>1. CASE transcript'[t] = <<>> /\ ~Recalled(t)'
  BY <1>1, LimitsAssumption DEF TruthfulOf, CompleteOf, SomeOf, Range
<1>2. CASE transcript'[t] = transcript[t] /\ (Recalled(t)' => Recalled(t))
  <2>1. /\ \A u \in Turns : ticket[u] \in Nat
        /\ \A u \in Turns : promise[u] = "none" => ticket[u] = 0
        /\ disturbed \subseteq Turns
        /\ \A u \in disturbed : promise[u] # "none"
    BY DEF Base, Types, OtherTypes, Lock!TypeOK, LockOrder, Tickets, Kept, OutcomeAtEnd
  <2>2. RepliedBefore(t) \subseteq RepliedBefore(t)'
    <3> SUFFICES ASSUME NEW u \in RepliedBefore(t) PROVE u \in RepliedBefore(t)'
      OBVIOUS
    <3>1. /\ u \in Turns /\ ConversationOf(u) = ConversationOf(t)
          /\ ticket[u] \in 1..ticket[t] - 1 /\ outcome[u] = "reply"
      BY DEF RepliedBefore
    <3>2. ticket[u] # 0 /\ ticket[t] # 0
      BY <2>1, <3>1
    <3>3. ticket'[u] = ticket[u] /\ ticket'[t] = ticket[t] /\ outcome'[u] = "reply"
      BY <2>1, <3>1, <3>2
    <3> QED
      BY <3>1, <3>3 DEF RepliedBefore, ConversationOf
  <2>3. \A u \in Range(transcript[t]) : /\ u \in Turns /\ u \in RepliedBefore(t)
                                        /\ ticket'[u] = ticket[u]
    <3> SUFFICES ASSUME NEW u \in Range(transcript[t])
                 PROVE  u \in Turns /\ u \in RepliedBefore(t) /\ ticket'[u] = ticket[u]
      OBVIOUS
    <3>1. u \in RepliedBefore(t)
      BY DEF TruthfulOf, SomeOf
    <3>2. u \in Turns /\ ticket[u] # 0
      BY <2>1, <3>1 DEF RepliedBefore
    <3> QED
      BY <2>1, <3>1, <3>2
  <2>4. SomeOf(transcript[t], RepliedBefore(t))'
    <3>1. \A i \in DOMAIN transcript[t] : transcript[t][i] \in Range(transcript[t])
      BY DEF Range
    <3>2. \A i, j \in DOMAIN transcript[t] :
              i < j => ticket'[transcript[t][i]] < ticket'[transcript[t][j]]
      BY <2>3, <3>1 DEF TruthfulOf, SomeOf
    <3>3. Range(transcript[t]) \subseteq RepliedBefore(t)'
      BY <2>2, <2>3
    <3>4. Len(transcript[t]) <= RecentTurnsLimit
      BY DEF TruthfulOf, SomeOf
    <3> QED
      BY <1>2, <3>2, <3>3, <3>4, Zenon DEF SomeOf
  <2>5. ASSUME Recalled(t)', MemoryServed(t)'
        PROVE  LastOf(transcript[t], RepliedBefore(t))'
    <3>1. Recalled(t) /\ promise[t] = "running"
      BY <1>2, <2>5 DEF Base, IInv, Rounds, Recalled, Awaits
    <3>2. ticket'[t] = ticket[t]
      BY <3>1
    <3>3. MemoryServed(t)
      BY <2>1, <2>5, <3>2 DEF MemoryServed, ConversationOf
    <3>4. LastOf(transcript[t], RepliedBefore(t))
      BY <3>1, <3>3 DEF CompleteOf
    <3>5. RepliedBefore(t)' \subseteq RepliedBefore(t)
      <4> SUFFICES ASSUME NEW u \in RepliedBefore(t)', u \notin RepliedBefore(t) PROVE FALSE
        OBVIOUS
      <4>1. /\ u \in Turns /\ ConversationOf(u) = ConversationOf(t)
            /\ ticket'[u] \in 1..ticket[t] - 1 /\ outcome'[u] = "reply"
        BY <3>2 DEF RepliedBefore, ConversationOf
      <4>2. promise[u] # "none"
        BY <4>1 DEF Base, Kept, OutcomeAtEnd
      <4>3. ticket'[u] = ticket[u] /\ promise[u] = "running"
        BY <4>1, <4>2 DEF RepliedBefore
      <4>4. Older(u, t)
        BY <2>1, <4>1, <4>2, <4>3 DEF Older, ConversationOf
      <4> QED
        BY <3>1, <4>1, <4>3, <4>4 DEF Base, LockOrder, ServedInOrder, Lock!Settled, Lock!Outcomes
    <3>6. \A u \in RepliedBefore(t)' \ Range(transcript[t]) :
             /\ Len(transcript[t]) = RecentTurnsLimit
             /\ \A v \in Range(transcript[t]) : ticket'[u] < ticket'[v]
      <4> TAKE u \in RepliedBefore(t)' \ Range(transcript[t])
      <4>1. u \in RepliedBefore(t)
        BY <3>5
      <4>2. u \in Turns /\ ticket[u] # 0
        BY <2>1, <4>1 DEF RepliedBefore
      <4>3. ticket'[u] = ticket[u]
        BY <2>1, <4>2
      <4> QED
        BY <2>3, <3>4, <4>1, <4>3 DEF LastOf
    <3> QED
      BY <1>2, <2>4, <3>6, Zenon DEF LastOf
  <2> QED
    BY <1>2, <2>4, <2>5 DEF TruthfulOf, CompleteOf
<1> QED
  BY <1>1, <1>2

\* Memory's answer, read from its end, is what the turn should see.
LEMMA RecallTells ==
    ASSUME Base, NEW t \in Turns, awaits[t] = "getRecentTurns",
           NEW events \in ListEvents(ConversationOf(t))
    PROVE  /\ SomeOf(ParseTurns(events), RepliedBefore(t))
           /\ MemoryServed(t) => LastOf(ParseTurns(events), RepliedBefore(t))
<1> DEFINE told == ParseTurns(events)
           listed == Events(ConversationOf(t))
<1>1. promise[t] = "running" /\ outcome[t] = "none"
  BY DEF Base, IInv, Rounds, Kept, OutcomeAtEnd, Working, Awaits
<1>2. /\ \A u \in Turns : ticket[u] \in Nat
      /\ \A u \in Turns : promise[u] # "none" => ticket[u] # 0
      /\ stored \subseteq Turns /\ created \in Seq(Turns)
  BY DEF Base, Types, OtherTypes, Lock!TypeOK, LockOrder, Tickets
<1>3. \A u \in listed : u \in Turns /\ u \in RepliedBefore(t)
  <2> SUFFICES ASSUME NEW u \in listed PROVE u \in Turns /\ u \in RepliedBefore(t)
    OBVIOUS
  <2>1. u \in Turns /\ ConversationOf(u) = ConversationOf(t) /\ outcome[u] = "reply"
    BY <1>2 DEF Events, Base, Kept, EventsAreReplies
  <2>2. u # t /\ SessionOf[u] = SessionOf[t]
    BY <1>1, <2>1 DEF ConversationOf
  <2>3. ticket[u] < ticket[t] /\ promise[u] # "none"
    BY <1>1, <2>1, <2>2, RunsAfterOlder DEF Older
  <2>4. ticket[u] \in 1..ticket[t] - 1
    <3>1. ticket[u] \in Nat /\ ticket[u] # 0 /\ ticket[t] \in Nat
      BY <1>2, <2>1, <2>3
    <3> QED
      BY <2>3, <3>1
  <2> QED
    BY <2>1, <2>4 DEF RepliedBefore
<1>4. \A u, v \in listed : CreatedBefore(u, v) => ticket[u] < ticket[v]
  BY DEF CreatedBefore, Base, Kept, CreatedInOrder, Events, ConversationOf
<1>5. PICK m \in 0..RecentTurnsLimit : events \in [1..m -> listed]
  BY DEF ListEvents, BoundedSeq, SeqOf
<1>6. Len(events) = m /\ DOMAIN events = 1..m /\ m \in Nat /\ m <= RecentTurnsLimit
  BY <1>5, LimitsAssumption
<1>7. /\ Len(told) = m /\ DOMAIN told = 1..m
      /\ \A i \in 1..m : m - i + 1 \in 1..m /\ told[i] = events[m - i + 1]
  BY <1>6 DEF ParseTurns, Reverse
<1>8. Range(told) = Range(events)
  <2>1. \A i \in 1..m : \E j \in 1..m : events[i] = told[j]
    <3> TAKE i \in 1..m
    <3>1. m - i + 1 \in 1..m /\ m - (m - i + 1) + 1 = i
      BY <1>6
    <3> QED
      BY <1>7, <3>1
  <2>2. \A i \in 1..m : \E j \in 1..m : told[i] = events[j]
    BY <1>7
  <2> HIDE DEF told
  <2>3. Range(told) = {told[i] : i \in 1..m} /\ Range(events) = {events[i] : i \in 1..m}
    BY <1>6, <1>7 DEF Range
  <2> QED
    BY <2>1, <2>2, <2>3
<1>9. Range(events) \subseteq listed
  BY <1>5, <1>6 DEF Range
<1>10. \A i, j \in 1..m : i < j => ticket[told[i]] < ticket[told[j]]
  <2> SUFFICES ASSUME NEW i \in 1..m, NEW j \in 1..m, i < j
               PROVE  ticket[told[i]] < ticket[told[j]]
    OBVIOUS
  <2>1. m - j + 1 \in 1..m /\ m - i + 1 \in 1..m /\ m - j + 1 < m - i + 1
    BY <1>6
  <2>2. CreatedBefore(events[m - i + 1], events[m - j + 1])
    BY <1>6, <2>1 DEF ListEvents
  <2> QED
    BY <1>4, <1>5, <1>7, <2>1, <2>2
<1>11. SomeOf(told, RepliedBefore(t))
  <2> HIDE DEF told
  <2> QED
    BY <1>3, <1>6, <1>7, <1>8, <1>9, <1>10 DEF SomeOf
<1>12. ASSUME MemoryServed(t)
       PROVE  LastOf(told, RepliedBefore(t))
  <2>1. RepliedBefore(t) \subseteq listed
    <3> SUFFICES ASSUME NEW u \in RepliedBefore(t) PROVE u \in listed
      OBVIOUS
    <3>1. /\ u \in Turns /\ ConversationOf(u) = ConversationOf(t)
          /\ ticket[u] < ticket[t] /\ outcome[u] = "reply"
      BY <1>2 DEF RepliedBefore
    <3>2. u \notin disturbed
      BY <1>2, <1>12, <3>1 DEF MemoryServed
    <3>3. u # t /\ SessionOf[u] = SessionOf[t]
      BY <1>1, <3>1 DEF ConversationOf
    <3>4. Lock!Settled(u)
      BY <1>1, <3>1, <3>3, RunsAfterOlder
    <3> QED
      BY <3>1, <3>2, <3>4 DEF Events, Base, Kept, EventsAreReplies
  <2>2. \A u \in listed \ Range(events) :
           /\ Len(events) = RecentTurnsLimit
           /\ \A v \in Range(events) : CreatedBefore(u, v)
    BY DEF ListEvents
  <2> HIDE DEF told, listed
  <2>3. \A u \in RepliedBefore(t) \ Range(told) :
           /\ Len(told) = RecentTurnsLimit
           /\ \A v \in Range(told) : ticket[u] < ticket[v]
    BY <1>4, <1>6, <1>7, <1>8, <1>9, <2>1, <2>2
  <2> QED
    BY <1>11, <2>3 DEF LastOf
<1> QED
  BY <1>11, <1>12

\* What the steps leave of a turn's past.
Past ==
    /\ \A u \in Turns : promise[u] # "none" => ticket'[u] = ticket[u]
    /\ \A u \in Turns : outcome[u] = "reply" => outcome'[u] = "reply"
    /\ \A u \in Turns : outcome'[u] = "reply" => outcome[u] = "reply" \/ promise[u] = "running"
    /\ disturbed \subseteq disturbed'

Forgets(u) ==
    \/ transcript'[u] = transcript[u] /\ (Recalled(u)' => Recalled(u))
    \/ transcript'[u] = <<>> /\ ~Recalled(u)'

LEMMA ReturnForgets ==
    ASSUME Base, NEW t \in Turns, Return(t)
    PROVE  UNCHANGED ticket /\ \A u \in Turns : Forgets(u)
  BY DEF Return, Lock!SettleFn, Drop, Forgets, Recalled, Awaits

LEMMA StepsForget ==
    ASSUME Base, [Next]_vars, \A t \in Turns : ~RecentTurnsAnswered(t)
    PROVE  Past /\ \A u \in Turns : Forgets(u)
<1>0. /\ awaits \in [Turns -> Awaits \cup {"nothing"}]
      /\ outcome \in [Turns -> {"none", "reply", "ModelError", "lost"}]
      /\ ticket \in [Turns -> Nat]
      /\ \A u \in Turns : awaits[u] # "nothing" => promise[u] = "running"
      /\ \A u \in Turns : awaits[u] \in Working => outcome[u] = "none"
  BY DEF Base, Types, LocalTypes, OtherTypes, Lock!TypeOK, IInv, Rounds, Kept, OutcomeAtEnd
<1> USE DEF SuspendAt
<1>1. ASSUME NEW t \in Turns, Invoke(t) \/ EventLands(t) \/ ToolSettles(t)
      PROVE  Past /\ \A u \in Turns : Forgets(u)
  <2>1. UNCHANGED <<awaits, transcript, outcome, disturbed>>
    BY <1>1 DEF Invoke, EventLands, ToolSettles, localVars
  <2>2. \A u \in Turns : promise[u] # "none" => ticket'[u] = ticket[u]
    BY <1>0, <1>1 DEF Invoke, EventLands, ToolSettles, Lock!RunExclusive, lockVars
  <2> QED
    BY <2>1, <2>2 DEF Past, Forgets, Recalled
<1>2. ASSUME NEW t \in Turns,
             \/ StartTurn(t) \/ PreferencesAnswered(t) \/ ModelAsksForTools(t)
             \/ (RoundOver(t) /\ ~Return(t))
      PROVE  Past /\ \A u \in Turns : Forgets(u)
  <2>1. /\ UNCHANGED <<ticket, transcript, outcome, disturbed>>
        /\ \/ awaits' = [awaits EXCEPT ![t] = "getRecentTurns"]
           \/ /\ Recalled(t)
              /\ \A u \in Turns \ {t} : awaits'[u] = awaits[u]
    BY <1>0, <1>2 DEF StartTurn, Lock!StartFn, Lock!historyVars, PreferencesAnswered,
       ModelAsksForTools, RoundOver, lockVars, Recalled, Awaits
  <2> QED
    BY <1>0, <2>1 DEF Past, Forgets, Recalled, Awaits
<1>3. ASSUME NEW t \in Turns, ModelReplies(t)
      PROVE  Past /\ \A u \in Turns : Forgets(u)
  BY <1>0, <1>3 DEF ModelReplies, lockVars, Past, Forgets, Recalled, Awaits
<1>4. ASSUME NEW t \in Turns, ModelFails(t) \/ RecordTurnAnswered(t) \/ (RoundOver(t) /\ Return(t))
      PROVE  Past /\ \A u \in Turns : Forgets(u)
  <2>1. UNCHANGED ticket /\ \A u \in Turns : Forgets(u)
    BY <1>4, ReturnForgets DEF ModelFails, RecordTurnAnswered
  <2>2. /\ \A u \in Turns : outcome'[u] = "reply" <=> outcome[u] = "reply"
        /\ disturbed \subseteq disturbed'
    BY <1>0, <1>4 DEF ModelFails, RecordTurnAnswered, RoundOver, Working, Awaits
  <2> QED
    BY <2>1, <2>2 DEF Past
<1>5. ASSUME Recycle
      PROVE  Past /\ \A u \in Turns : Forgets(u)
  BY <1>0, <1>5 DEF Recycle, Drop, Past, Forgets, Recalled, Awaits
<1>6. ASSUME UNCHANGED vars
      PROVE  Past /\ \A u \in Turns : Forgets(u)
  BY <1>6 DEF vars, lockVars, localVars, Past, Forgets, Recalled
<1> QED
  BY <1>1, <1>2, <1>3, <1>4, <1>5, <1>6 DEF Next, Proceeds, ServiceAnswers, AllOver

LEMMA NextTranscripts ==
    ASSUME Base, Transcripts, [Next]_vars
    PROVE  Transcripts'
<1>1. CASE \E t \in Turns : RecentTurnsAnswered(t)
  <2>1. PICK t \in Turns : RecentTurnsAnswered(t)
    BY <1>1
  <2>2. /\ awaits[t] = "getRecentTurns" /\ awaits' = [awaits EXCEPT ![t] = "getPreferences"]
        /\ UNCHANGED <<ticket, outcome>> /\ disturbed \subseteq disturbed'
        /\ \A u \in Turns \ {t} : transcript'[u] = transcript[u] /\ awaits'[u] = awaits[u]
    BY <2>1 DEF RecentTurnsAnswered, SuspendAt, lockVars, Base, Types, LocalTypes
  <2>3. \A u \in Turns \ {t} : TruthfulOf(u)' /\ CompleteOf(u)'
    BY <2>2, TranscriptStays DEF Transcripts, Recalled
  <2>4. RepliedBefore(t)' = RepliedBefore(t)
    BY <2>2 DEF RepliedBefore, ConversationOf
  <2>5. TruthfulOf(t)' /\ CompleteOf(t)'
    <3>1. CASE UNCHANGED transcript
      <4>2. CASE t \in disturbed'
        <5>1. ~MemoryServed(t)'
          <6>1. ~(ticket'[t] > ticket'[t])
            BY <2>2 DEF Base, Types, Lock!TypeOK
          <6> QED
            BY <4>2, <6>1 DEF MemoryServed
        <5>2. TruthfulOf(t)'
          BY <2>2, <2>4, <3>1 DEF Transcripts, TruthfulOf, SomeOf
        <5> QED
          BY <5>1, <5>2 DEF CompleteOf
      <4>3. CASE t \notin disturbed'
        <5>1. PICK events \in ListEvents(ConversationOf(t)) :
                 transcript' = [transcript EXCEPT ![t] = ParseTurns(events)] /\ UNCHANGED disturbed
          BY <2>1, <4>3 DEF RecentTurnsAnswered
        <5>2. transcript'[t] = ParseTurns(events)
          BY <5>1 DEF Base, Types, LocalTypes
        <5>3. MemoryServed(t)' => MemoryServed(t)
          BY <2>2, <5>1 DEF MemoryServed, ConversationOf
        <5> QED
          BY <2>2, <2>4, <5>2, <5>3, RecallTells
             DEF TruthfulOf, CompleteOf, SomeOf, LastOf
      <4> QED
        BY <4>2, <4>3
    <3>2. CASE transcript' # transcript
      <4>1. PICK events \in ListEvents(ConversationOf(t)) :
               transcript' = [transcript EXCEPT ![t] = ParseTurns(events)] /\ UNCHANGED disturbed
        BY <2>1, <3>2 DEF RecentTurnsAnswered
      <4>2. transcript'[t] = ParseTurns(events)
        BY <4>1 DEF Base, Types, LocalTypes
      <4>3. MemoryServed(t)' => MemoryServed(t)
        BY <2>2, <4>1 DEF MemoryServed, ConversationOf
      <4> QED
        BY <2>2, <2>4, <4>2, <4>3, RecallTells DEF TruthfulOf, CompleteOf, SomeOf, LastOf
    <3> QED
      BY <3>1, <3>2
  <2> QED
    BY <2>3, <2>5 DEF Transcripts
<1>2. CASE ~ \E t \in Turns : RecentTurnsAnswered(t)
  <2>1. Past /\ \A u \in Turns : Forgets(u)
    BY <1>2, StepsForget
  <2> QED
    BY <2>1, TranscriptStays DEF Past, Forgets, Transcripts
<1> QED
  BY <1>1, <1>2

-----------------------------------------------------------------------------
(* Memory can always answer: there is a newest part of the events, however *)
(* late they came in.  The longest within the limit is taken.              *)

\* The order of the naturals, as a relation.
Below == {p \in Nat \X Nat : p[1] < p[2]}

\* A set of naturals has a least element.
LEMMA LeastNatural ==
    ASSUME NEW T, T \subseteq Nat, T # {}
    PROVE  \E m \in T : \A n \in T : m <= n
<1>1. IsWellFoundedOn(Below, Nat)
  BY NatLessThanWellFounded, Zenon DEF OpToRel, Below
<1>2. PICK m \in T : \A n \in T : <<n, m>> \notin Below
  BY <1>1, WFMin
<1>3. \A n \in T : m <= n
  <2> TAKE n \in T
  <2>1. n \in Nat /\ m \in Nat
    BY <1>2
  <2>2. ~(n < m)
    BY <1>2, <2>1 DEF Below
  <2> QED
    BY <2>1, <2>2
<1> QED
  BY <1>2, <1>3

\* A set of naturals no greater than some bound has a greatest element.
LEMMA GreatestNatural ==
    ASSUME NEW b \in Nat, NEW T, T \subseteq 0..b, T # {}
    PROVE  \E m \in T : \A n \in T : n <= m
<1> DEFINE Mirror == {b - n : n \in T}
<1>1. Mirror \subseteq Nat /\ Mirror # {}
  OBVIOUS
<1>2. PICK k \in Mirror : \A n \in Mirror : k <= n
  <2> HIDE DEF Mirror
  <2> QED
    BY <1>1, LeastNatural
<1>3. PICK m \in T : k = b - m
  BY <1>2
<1>4. ASSUME NEW n \in T PROVE n <= m
  <2>1. b - n \in Mirror
    OBVIOUS
  <2>2. b - m <= b - n
    <3> HIDE DEF Mirror
    <3> QED
      BY <1>2, <1>3, <2>1
  <2>3. n \in 0..b /\ m \in 0..b
    OBVIOUS
  <2> QED
    BY <2>2, <2>3
<1> QED
  BY <1>4

\* Of some turns that were sent to Memory, one was sent last.
LEMMA NewestOf ==
    ASSUME Types, NEW S, S # {}, \A t \in S : \E i \in DOMAIN created : created[i] = t
    PROVE  \E t \in S : \A u \in S \ {t} : CreatedBefore(u, t)
<1> DEFINE Places == {i \in DOMAIN created : created[i] \in S}
<1>1. Len(created) \in Nat /\ DOMAIN created = 1..Len(created)
  BY DEF Types, OtherTypes
<1>2. Places \subseteq 0..Len(created) /\ Places # {}
  BY <1>1
<1>3. PICK m \in Places : \A i \in Places : i <= m
  <2> HIDE DEF Places
  <2> QED
    BY <1>1, <1>2, GreatestNatural
<1>4. ASSUME NEW u \in S \ {created[m]} PROVE CreatedBefore(u, created[m])
  <2>1. PICK i \in DOMAIN created : created[i] = u
    OBVIOUS
  <2>2. i \in Places /\ i # m
    BY <2>1
  <2>3. i <= m
    <3> HIDE DEF Places
    <3> QED
      BY <1>3, <2>2
  <2>4. i < m
    BY <1>1, <1>3, <2>1, <2>2, <2>3
  <2> QED
    BY <1>3, <2>1, <2>4 DEF CreatedBefore
<1> QED
  BY <1>3, <1>4

\* Newest first, and nothing outside newer than something in it.
Newest(events, S) ==
    /\ \A i, j \in DOMAIN events : i < j => CreatedBefore(events[j], events[i])
    /\ \A t \in S \ Range(events), u \in Range(events) : CreatedBefore(t, u)

\* It can be continued by what is left.
LEMMA NewestContinues ==
    ASSUME Types, NEW S, \A t \in S : \E i \in DOMAIN created : created[i] = t,
           NEW n \in Nat, NEW events \in [1..n -> S], Newest(events, S),
           S \ Range(events) # {}
    PROVE  \E more \in [1..n + 1 -> S] : Newest(more, S)
<1>1. PICK t \in S \ Range(events) :
         \A u \in (S \ Range(events)) \ {t} : CreatedBefore(u, t)
  <2> DEFINE left == S \ Range(events)
  <2>1. left # {} /\ \A u \in left : \E i \in DOMAIN created : created[i] = u
    OBVIOUS
  <2> HIDE DEF left
  <2>2. \E u \in left : \A v \in left \ {u} : CreatedBefore(v, u)
    BY <2>1, NewestOf
  <2> QED
    BY <2>2 DEF left
<1> DEFINE more == [i \in 1..n + 1 |-> IF i = n + 1 THEN t ELSE events[i]]
<1>2. /\ more \in [1..n + 1 -> S] /\ DOMAIN more = 1..n + 1
      /\ more[n + 1] = t
      /\ \A i \in 1..n : i \in 1..n + 1 /\ more[i] = events[i] /\ events[i] \in Range(events)
  BY DEF Range
<1>3. \A i \in 1..n + 1 : i \in 1..n \/ i = n + 1
  OBVIOUS
<1> HIDE DEF more
<1>4. ASSUME NEW i \in 1..n + 1, NEW j \in 1..n + 1, i < j
      PROVE  CreatedBefore(more[j], more[i])
  <2>1. i \in 1..n
    BY <1>4
  <2>2. CASE j \in 1..n
    BY <1>2, <1>4, <2>1, <2>2 DEF Newest
  <2>3. CASE j = n + 1
    <3>1. CreatedBefore(t, events[i])
      BY <1>1, <1>2, <2>1 DEF Newest
    <3> QED
      BY <1>2, <2>1, <2>3, <3>1
  <2> QED
    BY <1>3, <2>2, <2>3
<1>5. ASSUME NEW v \in S \ Range(more), NEW u \in Range(more)
      PROVE  CreatedBefore(v, u)
  <2>1. Range(more) = Range(events) \cup {t}
    <3>1. \A i \in 1..n + 1 : more[i] \in Range(events) \cup {t}
      BY <1>2, <1>3
    <3>2. \A x \in Range(events) \cup {t} : \E i \in 1..n + 1 : more[i] = x
      <4>1. \A x \in Range(events) : \E i \in 1..n : events[i] = x
        BY DEF Range
      <4>2. n + 1 \in 1..n + 1
        OBVIOUS
      <4> QED
        BY <1>2, <4>1, <4>2
    <3>3. Range(more) = {more[i] : i \in 1..n + 1}
      BY <1>2 DEF Range
    <3> QED
      BY <3>1, <3>2, <3>3
  <2>2. v \in S \ Range(events) /\ v # t
    BY <1>5, <2>1
  <2>3. CASE u = t
    BY <1>1, <2>2, <2>3
  <2>4. CASE u \in Range(events)
    BY <2>2, <2>4 DEF Newest
  <2> QED
    BY <1>5, <2>1, <2>3, <2>4
<1>6. Newest(more, S)
  BY <1>2, <1>4, <1>5 DEF Newest
<1> QED
  BY <1>2, <1>6

LEMMA MemoryHasAnswer ==
    ASSUME Base, NEW t \in Turns
    PROVE  ListEvents(ConversationOf(t)) # {}
<1> DEFINE listed == Events(ConversationOf(t))
           L == RecentTurnsLimit
           lengths == {n \in 0..L : \E events \in [1..n -> listed] : Newest(events, listed)}
<1>1. \A u \in listed : \E i \in DOMAIN created : created[i] = u
  BY DEF Events, Base, Types, OtherTypes, Kept, EventsAreReplies
<1>2. L \in Nat
  BY LimitsAssumption
<1> HIDE DEF listed, L
<1>3. 0 \in lengths
  <2>1. 0 \in 0..L
    BY <1>2
  <2>2. <<>> \in [1..0 -> listed] /\ DOMAIN <<>> = {}
    OBVIOUS
  <2>3. Range(<<>>) = {}
    BY <2>2 DEF Range
  <2>4. Newest(<<>>, listed)
    BY <2>2, <2>3 DEF Newest
  <2> QED
    BY <2>1, <2>2, <2>4
<1>4. PICK n \in lengths : \A m \in lengths : m <= n
  <2>1. lengths \subseteq 0..L
    OBVIOUS
  <2> HIDE DEF lengths
  <2> QED
    BY <1>2, <1>3, <2>1, GreatestNatural
<1>5. PICK events \in [1..n -> listed] : Newest(events, listed)
  BY <1>4
<1>6. n \in Nat /\ n <= L /\ Len(events) = n /\ DOMAIN events = 1..n
  BY <1>2, <1>4, <1>5
<1>7. listed \ Range(events) = {} \/ n = L
  <2> SUFFICES ASSUME listed \ Range(events) # {}, n # L PROVE FALSE
    OBVIOUS
  <2>1. Types
    BY DEF Base
  <2>2. \E more \in [1..n + 1 -> listed] : Newest(more, listed)
    BY <1>1, <1>5, <1>6, <2>1, NewestContinues
  <2>3. n + 1 \in 0..L /\ ~(n + 1 <= n)
    BY <1>2, <1>6
  <2>4. n + 1 \in lengths
    BY <2>2, <2>3
  <2> HIDE DEF lengths
  <2> QED
    BY <1>4, <2>3, <2>4
<1>8. events \in BoundedSeq(listed, L)
  BY <1>2, <1>5, <1>6 DEF BoundedSeq, SeqOf
<1>9. /\ \A i, j \in DOMAIN events : i < j => CreatedBefore(events[j], events[i])
      /\ \A u \in listed \ Range(events) :
            Len(events) = L /\ \A v \in Range(events) : CreatedBefore(u, v)
  BY <1>5, <1>6, <1>7 DEF Newest
<1>10. events \in ListEvents(ConversationOf(t))
  BY <1>8, <1>9 DEF ListEvents, listed, L
<1> QED
  BY <1>10

-----------------------------------------------------------------------------
(* The invariant. *)

Invariant == Base /\ Transcripts

LEMMA InitInvariant == Init => Invariant
<1> SUFFICES ASSUME Init PROVE Invariant
  OBVIOUS
<1>1. Types /\ IInv
  BY InitTypes, InitEstablishes
<1>2. /\ promise = [t \in Turns |-> "none"] /\ ticket = [t \in Turns |-> 0]
      /\ awaits = [t \in Turns |-> "nothing"] /\ outcome = [t \in Turns |-> "none"]
      /\ created = <<>> /\ stored = {} /\ disturbed = {}
      /\ transcript = [t \in Turns |-> <<>>]
  BY DEF Init, Lock!Init
<1>3. LockOrder
  BY <1>2 DEF LockOrder, Tickets, ServedInOrder, WaitsForOlder, ChainEndsLast, Older
<1>4. Kept
  BY <1>2 DEF Kept, OutcomeAtEnd, EventsAreReplies, CreatedInOrder, Working, Awaits
<1>5. Transcripts
  BY <1>2, LimitsAssumption
     DEF Transcripts, TruthfulOf, CompleteOf, SomeOf, Range, Recalled, Awaits
<1> QED
  BY <1>1, <1>3, <1>4, <1>5 DEF Invariant, Base

LEMMA NextInvariant ==
    ASSUME Invariant, [Next]_vars
    PROVE  Invariant'
<1>1. Types' /\ IInv'
  BY NextTypes, LoopKeeps DEF Invariant, Base
<1>2. Kept' /\ LockOrder'
  <2>1. ASSUME NEW t \in Turns,
               \/ Invoke(t) \/ StartTurn(t) \/ RecentTurnsAnswered(t) \/ PreferencesAnswered(t)
               \/ ModelAsksForTools(t) \/ ToolSettles(t) \/ (RoundOver(t) /\ ~Return(t))
        PROVE  Kept' /\ LockOrder'
    BY <2>1, StepsKept DEF Invariant
  <2>2. ASSUME NEW t \in Turns, ModelReplies(t)
        PROVE  Kept' /\ LockOrder'
    BY <2>2, ReplyKeeps DEF Invariant
  <2>3. ASSUME NEW t \in Turns, ModelFails(t) \/ RecordTurnAnswered(t) \/ (RoundOver(t) /\ Return(t))
        PROVE  Kept' /\ LockOrder'
    <3>1. Return(t) /\ UNCHANGED memoryVars
      BY <2>3 DEF ModelFails, RecordTurnAnswered, RoundOver
    <3>2. /\ disturbed' = disturbed \/ disturbed' = disturbed \cup {t}
          /\ \/ awaits[t] \in Working /\ outcome' = [outcome EXCEPT ![t] = "ModelError"]
                                      /\ UNCHANGED disturbed
             \/ UNCHANGED outcome /\ (t \in stored \/ t \in disturbed')
      <4>1. CASE ModelFails(t)
        BY <4>1 DEF ModelFails, Working, Awaits
      <4>2. CASE RecordTurnAnswered(t)
        BY <4>2 DEF RecordTurnAnswered
      <4>3. CASE RoundOver(t) /\ Return(t)
        <5>1. promise[t] = "running" /\ promise' = [promise EXCEPT ![t] = "fulfilled"]
          BY <4>3 DEF Return, Lock!SettleFn
        <5>2. promise' # promise
          BY <5>1 DEF Invariant, Base, Types, Lock!TypeOK
        <5> QED
          BY <4>3, <5>2 DEF RoundOver, Working, Awaits, lockVars
      <4> QED
        BY <2>3, <4>1, <4>2, <4>3
    <3> QED
      BY <3>1, <3>2, ReturnKept DEF Invariant
  <2>4. ASSUME NEW t \in Turns, EventLands(t)
        PROVE  Kept' /\ LockOrder'
    <3>1. UNCHANGED <<queueBySessionId, previous, promise, ticket, issued>>
      BY <2>4 DEF EventLands, lockVars
    <3> QED
      BY <2>4, <3>1, LandsKeeps, OverOrder DEF Invariant, Base, Lock!Settled
  <2>5. CASE Recycle
    BY <2>5, RecycleKept DEF Invariant
  <2>6. CASE UNCHANGED vars
    BY <2>6 DEF vars, lockVars, localVars, memoryVars, Invariant, Base, Kept, OutcomeAtEnd,
       EventsAreReplies, CreatedInOrder, LockOrder, Tickets, ServedInOrder, WaitsForOlder,
       ChainEndsLast, Older, Lock!Settled
  <2> QED
    BY <2>1, <2>2, <2>3, <2>4, <2>5, <2>6 DEF Next, Proceeds, ServiceAnswers, AllOver
<1>3. Transcripts'
  BY NextTranscripts DEF Invariant
<1> QED
  BY <1>1, <1>2, <1>3 DEF Invariant, Base

\* The inductive invariant of turns, lock and Memory.
THEOREM TurnInvariant == Spec => []Invariant
  BY InitInvariant, NextInvariant, PTL DEF Spec

\* The variables keep their types, the rounds and the tools their bounds.
THEOREM TypeCorrect == Spec => []TypeOK
<1>1. Invariant => TypeOK
  BY DEF Invariant, Base, Types, LocalTypes, OtherTypes, TypeOK
<1> QED
  BY <1>1, TurnInvariant, PTL

\* Whatever Memory loses or delays and whenever the process dies, a turn is shown
\* only replied turns of its own conversation, each once and in order.
THEOREM TranscriptIsTruthfulHolds == Spec => []TranscriptIsTruthful
<1>1. Invariant => TranscriptIsTruthful
  BY DEF Invariant, Transcripts, TruthfulOf, TranscriptIsTruthful
<1> QED
  BY <1>1, TurnInvariant, PTL

\* Unless Memory failed it or an earlier turn, a turn sees all of the recent
\* conversation, however its turns overlapped.
THEOREM TranscriptIsCompleteHolds == Spec => []TranscriptIsComplete
<1>1. Invariant => TranscriptIsComplete
  BY DEF Invariant, Transcripts, CompleteOf, TranscriptIsComplete
<1> QED
  BY <1>1, TurnInvariant, PTL

\* Whenever a turn asks for its recent conversation, Memory has an answer: the
\* success branch of getRecentTurns is never left out for want of one.
THEOREM MemoryAnswers ==
    Spec => [](\A t \in Turns : ListEvents(ConversationOf(t)) # {})
<1>1. Invariant => \A t \in Turns : ListEvents(ConversationOf(t)) # {}
  BY MemoryHasAnswer DEF Invariant
<1> QED
  BY <1>1, TurnInvariant, PTL

\* The conversation the model is sent is consistent: each block of its last
\* message that bears a toolUseId is answered by what its own call returned, in
\* whatever order the calls settled (bedrock-converse-model-client.ts,
\* extractToolCalls and toToolResultMessage).
THEOREM EveryToolUseAnsweredHolds == Spec => []EveryToolUseAnswered
<1>1. Invariant /\ Messages /\ [Next]_vars => Messages'
  BY NextMessages DEF Invariant, Base
<1>2. Messages => EveryToolUseAnswered
  BY DEF Messages, AnsweredIn, EveryToolUseAnswered, ExtractToolCalls
<1> QED
  BY TurnInvariant, InitMessages, <1>1, <1>2, PTL DEF Spec
=============================================================================
