---------------------- MODULE OnDemandEvaluationProofs ----------------------
(***************************************************************************)
(* What the budget gate's verdicts are worth, for any number of calls,     *)
(* sessions and sandboxes, any amounts, budget and number of polls.        *)
(*                                                                         *)
(* The sandboxes are BudgetSandbox's, and so is the invariant about them:  *)
(* BudgetSandboxProofs has shown that a sandbox's total is the sum of what *)
(* ran in it.  A printed total is within that one, so never above what the *)
(* session's holds come to; and the script that ran last in a sandbox has  *)
(* printed all of it.                                                      *)
(***************************************************************************)
EXTENDS OnDemandEvaluation, FiniteSetTheorems, TLAPS

SB == INSTANCE BudgetSandboxProofs

-----------------------------------------------------------------------------
(* The sandboxes. *)

SandboxInv == SB!IInv /\ SB!Owners /\ SB!Sums

LEMMA SandboxAssumptions == Hold \in [Calls -> SB!HoldRecord] /\ NoStart \notin Starts \cup Sessions
  BY HoldAssumption, NoStartAssumption DEF Sandbox!HoldRecord, SB!HoldRecord

LEMMA SandboxInit == Sandbox!Init => SandboxInv
<1>1. Sandbox!Init => SB!Init
  BY DEF Sandbox!Init, SB!Init, Sandbox!cache, SB!cache
<1> QED
  BY <1>1, SandboxAssumptions, SB!InitIInv, SB!InitSums DEF SandboxInv

LEMMA SandboxNext ==
    ASSUME SandboxInv, Sandbox!Next \/ UNCHANGED sandboxVars
    PROVE  SandboxInv'
<1>1. [SB!Next]_(SB!vars)
  <2>1. CASE Sandbox!Next
    BY <2>1 DEF Sandbox!Next, SB!Next, Sandbox!RecordHold, SB!RecordHold,
       Sandbox!StartUnavailable, SB!StartUnavailable, Sandbox!SendScript, SB!SendScript,
       Sandbox!ScriptRuns, SB!ScriptRuns, Sandbox!ScriptRaises, SB!ScriptRaises,
       Sandbox!InvokeAnswered, SB!InvokeAnswered, Sandbox!InvokeUnavailable, SB!InvokeUnavailable,
       Sandbox!StartResolves, SB!StartResolves, Sandbox!StartRejects, SB!StartRejects,
       Sandbox!SandboxExpires, SB!SandboxExpires, Sandbox!Recycle, SB!Recycle,
       Sandbox!SessionOf, SB!SessionOf, Sandbox!Cached, SB!Cached, Sandbox!cache, SB!cache,
       Sandbox!CachePut, SB!CachePut, Sandbox!DropLost, SB!DropLost,
       Sandbox!DropRejected, SB!DropRejected, Sandbox!Return, SB!Return,
       Sandbox!FoldIn, SB!FoldIn, Sandbox!adapterVars, SB!adapterVars,
       Sandbox!budgetVars, SB!budgetVars
  <2>2. CASE UNCHANGED sandboxVars
    BY <2>2 DEF sandboxVars, SB!vars, SB!adapterVars, SB!budgetVars
  <2> QED
    BY <2>1, <2>2
<1>2. SB!IInv'
  BY <1>1, SandboxAssumptions, SB!NextIInv DEF SandboxInv
<1>3. SB!Owners' /\ SB!Sums'
  BY <1>1, SandboxAssumptions, SB!NextSums DEF SandboxInv
<1> QED
  BY <1>2, <1>3 DEF SandboxInv

LEMMA SandboxTypes ==
    ASSUME SandboxInv
    PROVE  Sandbox!TypeOK
  BY DEF SandboxInv, SB!IInv, SB!TypeOK, Sandbox!TypeOK, SB!cache, Sandbox!cache,
     SB!AreBreakdowns, Sandbox!AreBreakdowns

\* What a step of the session may do to its calls.
Begins(c) ==
    /\ pc[c] = "idle"
    /\ pc' = [pc EXCEPT ![c] = "starting"]
    /\ UNCHANGED <<script, result, runningTotal, disturbed>>
    /\ \A d \in Calls \ {c} : sandboxOf'[d] = sandboxOf[d]

Prints(c) ==
    /\ script[c] = "sent"
    /\ script' = [script EXCEPT ![c] = "ran"]
    /\ runningTotal' = [runningTotal EXCEPT ![sandboxOf[c]] = @ + Hold[c].amount]
    /\ UNCHANGED <<pc, result, sandboxOf, disturbed>>

GoesOn ==
    /\ UNCHANGED <<sandboxOf, runningTotal>>
    /\ disturbed \subseteq disturbed'
    /\ \A c \in Calls :
        /\ script'[c] = "ran" <=> script[c] = "ran"
        /\ pc'[c] = "idle" <=> pc[c] = "idle"
        /\ pc'[c] = "starting" => pc[c] = "starting"
        /\ pc[c] = "done" => pc'[c] = "done" /\ result'[c] = result[c]
        /\ result'[c] = "snapshot" => result[c] = "snapshot" \/ script[c] = "ran"
        /\ pc'[c] = "lost" => pc[c] = "lost" \/ disturbed' = Sessions

LEMMA StepKinds ==
    ASSUME SandboxInv, Sandbox!Next
    PROVE  (\E c \in Calls : Begins(c) \/ Prints(c)) \/ GoesOn
<1> SUFFICES ASSUME Sandbox!TypeOK, Sandbox!Next,
                    \A c \in Calls : script[c] = "ran" => pc[c] # "starting",
                    \A c \in Calls : result[c] # "none" => pc[c] = "done"
             PROVE  (\E c \in Calls : Begins(c) \/ Prints(c)) \/ GoesOn
  BY SandboxTypes DEF SandboxInv, SB!IInv, SB!ScriptsHaveSandboxes, SB!ResultsAreFinal
<1> USE DEF Sandbox!adapterVars, Sandbox!budgetVars, Sandbox!Return
<1>1. ASSUME NEW c \in Calls, Sandbox!RecordHold(c)
      PROVE  Begins(c)
  BY <1>1 DEF Sandbox!RecordHold, Begins, Sandbox!TypeOK
<1>2. ASSUME NEW c \in Calls, Sandbox!ScriptRuns(c)
      PROVE  Prints(c)
  BY <1>2 DEF Sandbox!ScriptRuns, Prints
<1>3. ASSUME NEW c \in Calls, Sandbox!StartUnavailable(c) \/ Sandbox!InvokeAnswered(c)
      PROVE  GoesOn
  BY <1>3 DEF Sandbox!StartUnavailable, Sandbox!InvokeAnswered, GoesOn, Sandbox!TypeOK
<1>4. ASSUME NEW c \in Calls, Sandbox!InvokeUnavailable(c)
      PROVE  GoesOn
  BY <1>4 DEF Sandbox!InvokeUnavailable, GoesOn, Sandbox!TypeOK
<1>5. ASSUME NEW c \in Calls, Sandbox!SendScript(c) \/ Sandbox!ScriptRaises(c)
      PROVE  GoesOn
  BY <1>5 DEF Sandbox!SendScript, Sandbox!ScriptRaises, GoesOn, Sandbox!TypeOK
<1>6. ASSUME NEW x \in Starts, Sandbox!StartResolves(x) \/ Sandbox!StartRejects(x)
                               \/ Sandbox!SandboxExpires(x)
      PROVE  GoesOn
  BY <1>6 DEF Sandbox!StartResolves, Sandbox!StartRejects, Sandbox!SandboxExpires, GoesOn
<1>7. ASSUME Sandbox!Recycle
      PROVE  GoesOn
  BY <1>7 DEF Sandbox!Recycle, GoesOn, Sandbox!TypeOK
<1> QED
  BY <1>1, <1>2, <1>3, <1>4, <1>5, <1>6, <1>7 DEF Sandbox!Next

-----------------------------------------------------------------------------
(* Sequences, maxima and sums. *)

LEMMA SeqOfFew ==
    /\ SetToSeq({}) = <<>>
    /\ \A c : SetToSeq({c}) = <<c>>
<1>1. SetToSeq({}) = <<>>
  BY FS_EmptySet DEF SetToSeq, IsInjective
<1>2. ASSUME NEW c
      PROVE  SetToSeq({c}) = <<c>>
  <2>1. Cardinality({c}) = 1
    BY FS_Singleton
  <2>2. <<c>> \in [1..1 -> {c}] /\ IsInjective(<<c>>)
    BY DEF IsInjective
  <2>3. \A f \in [1..1 -> {c}] : f = <<c>>
    <3> TAKE f \in [1..1 -> {c}]
    <3>1. f = [i \in 1..1 |-> f[i]] /\ <<c>> = [i \in 1..1 |-> c]
      OBVIOUS
    <3>2. \A i \in 1..1 : f[i] = c
      OBVIOUS
    <3> QED
      BY <3>1, <3>2
  <2> QED
    BY <2>1, <2>2, <2>3 DEF SetToSeq
<1> QED
  BY <1>1, <1>2

\* Numbers that some number bounds have a maximum.
LEMMA MaxExists ==
    ASSUME NEW T, T \subseteq Nat, T # {}, NEW n \in Nat, \A t \in T : t <= n
    PROVE  Max(T) \in T /\ \A t \in T : t <= Max(T)
<1> DEFINE U == {u \in Nat : \A t \in T : t <= u}
<1>1. PICK m \in U : \A u \in U : m <= u
  <2>1. U \subseteq Nat /\ U # {}
    OBVIOUS
  <2> HIDE DEF U
  <2> QED
    BY <2>1, SandboxAssumptions, SB!LeastNatural
<1>2. m \in T
  <2> SUFFICES ASSUME m \notin T PROVE FALSE
    OBVIOUS
  <2>1. m \in Nat /\ m > 0 /\ \A t \in T : t \in Nat /\ t < m
    <3>1. m \in Nat /\ \A t \in T : t \in Nat /\ t <= m /\ t # m
      BY <1>1
    <3>2. \E t \in T : TRUE
      OBVIOUS
    <3> QED
      BY <3>1, <3>2
  <2>2. m - 1 \in Nat /\ \A t \in T : t <= m - 1
    BY <2>1
  <2>3. m <= m - 1
    BY <1>1, <2>2
  <2> QED
    BY <2>1, <2>3
<1>3. \A t \in T : m >= t
  BY <1>1
<1> QED
  BY <1>2, <1>3, Zenon DEF Max

LEMMA SumsAgree ==
    ASSUME NEW S
    PROVE  SumFunctionOnSet(Sandbox!Amount, S) = SB!SumFunctionOnSet(SB!Amount, S)
<1>1. Sandbox!Amount = SB!Amount
  BY DEF Sandbox!Amount, SB!Amount
<1> QED
  BY <1>1, Zenon DEF SumFunctionOnSet, SB!SumFunctionOnSet, FoldFunctionOnSet,
     SB!FoldFunctionOnSet, MapThenFoldSet, SB!MapThenFoldSet

-----------------------------------------------------------------------------
(* Types. *)

\* What a step of the session adds to the spans.
LEMMA SpanSteps ==
    ASSUME SandboxInv, TypeOK, SessionStep
    PROVE  /\ \A c \in Calls : Begins(c) => /\ spanOrder' = Append(spanOrder, c)
                                            /\ printed' = printed
                                            /\ overlapped' = (overlapped \/ (c \in Mine /\ Open # {}))
           /\ \A c \in Calls : Prints(c) =>
                 /\ UNCHANGED <<spanOrder, overlapped>>
                 /\ printed' = [printed EXCEPT ![c] = runningTotal'[sandboxOf[c]]]
           /\ GoesOn => UNCHANGED spanVars
<1> DEFINE begun == {c \in Calls : pc[c] = "idle" /\ pc'[c] = "starting"}
<1>1. /\ spanOrder' = spanOrder \o SetToSeq(begun)
      /\ printed' = [c \in Calls |->
             IF script[c] # "ran" /\ script'[c] = "ran"
             THEN runningTotal'[sandboxOf[c]] ELSE printed[c]]
      /\ overlapped' = (overlapped \/ (begun \cap Mine # {} /\ Open # {}))
  BY DEF SessionStep
<1>2. /\ spanOrder \in Seq(Calls) /\ printed \in [Calls -> Nat] /\ overlapped \in BOOLEAN
      /\ pc = [c \in Calls |-> pc[c]] /\ script = [c \in Calls |-> script[c]]
  BY DEF TypeOK, Sandbox!TypeOK
<1>3. ASSUME NEW c \in Calls, Begins(c)
      PROVE  /\ spanOrder' = Append(spanOrder, c)
             /\ printed' = printed
             /\ overlapped' = (overlapped \/ (c \in Mine /\ Open # {}))
  <2>1. begun = {c}
    BY <1>2, <1>3 DEF Begins
  <2>2. spanOrder' = spanOrder \o <<c>>
    BY <1>1, <2>1, SeqOfFew
  <2>3. spanOrder' = Append(spanOrder, c)
    BY <1>2, <2>2
  <2>4. printed' = printed
    BY <1>1, <1>2, <1>3 DEF Begins
  <2>5. overlapped' = (overlapped \/ (c \in Mine /\ Open # {}))
    <3>1. begun \cap Mine # {} <=> c \in Mine
      BY <2>1
    <3> QED
      BY <1>1, <3>1
  <2> QED
    BY <2>3, <2>4, <2>5
<1>4. ASSUME begun = {}
      PROVE  UNCHANGED <<spanOrder, overlapped>>
  <2>1. spanOrder' = spanOrder \o <<>>
    BY <1>1, <1>4, SeqOfFew
  <2>2. spanOrder' = spanOrder
    BY <1>2, <2>1
  <2>3. overlapped' = overlapped
    <3>1. begun \cap Mine = {}
      BY <1>4
    <3> QED
      BY <1>1, <1>2, <3>1
  <2> QED
    BY <2>2, <2>3
<1>5. ASSUME NEW c \in Calls, Prints(c)
      PROVE  /\ UNCHANGED <<spanOrder, overlapped>>
             /\ printed' = [printed EXCEPT ![c] = runningTotal'[sandboxOf[c]]]
  <2>1. begun = {}
    BY <1>5 DEF Prints
  <2>2. \A d \in Calls : script[d] # "ran" /\ script'[d] = "ran" <=> d = c
    BY <1>2, <1>5 DEF Prints
  <2>3. printed' = [printed EXCEPT ![c] = runningTotal'[sandboxOf[c]]]
    BY <1>1, <1>2, <2>2
  <2> QED
    BY <1>4, <2>1, <2>3
<1>6. ASSUME GoesOn
      PROVE  UNCHANGED spanVars
  <2>1. begun = {}
    BY <1>6 DEF GoesOn
  <2>2. printed' = printed
    BY <1>1, <1>2, <1>6 DEF GoesOn
  <2> QED
    BY <1>4, <2>1, <2>2 DEF spanVars
<1> QED
  BY <1>3, <1>5, <1>6

LEMMA InitTypeOK == Init => TypeOK
<1> SUFFICES ASSUME Init PROVE TypeOK
  OBVIOUS
<1>1. Sandbox!TypeOK
  BY SandboxInit, SandboxTypes DEF Init
<1>2. spanOrder \in Seq(Calls) /\ printed \in [Calls -> Nat] /\ overlapped \in BOOLEAN
  <2>1. <<>> \in Seq(Calls) /\ [c \in Calls |-> 0] \in [Calls -> Nat]
    OBVIOUS
  <2>2. spanOrder = <<>> /\ printed = [c \in Calls |-> 0] /\ overlapped = FALSE
    BY DEF Init
  <2> QED
    BY <2>1, <2>2
<1>3. attempts \in [LogGroups -> 0..(MaxAttempts - 1)]
  <2>1. 0 \in 0..(MaxAttempts - 1)
    BY LimitsAssumption
  <2> QED
    BY <2>1 DEF Init
<1>4. query \in [LogGroups -> {"none", "waiting", "asked", "complete"}]
  BY DEF Init
<1>5. downloaded \in [spans : SUBSET Calls, records : SUBSET Calls]
  BY DEF Init
<1>6. outcome \in [Evaluators -> Verdicts \cup {"none", "judged", "THREW"}]
  BY DEF Init
<1> QED
  BY <1>1, <1>2, <1>3, <1>4, <1>5, <1>6 DEF Init, TypeOK

LEMMA NextTypeOK ==
    ASSUME SandboxInv, SandboxInv', TypeOK, [Next]_vars
    PROVE  TypeOK'
<1>1. Sandbox!TypeOK'
  BY DEF SandboxInv, SB!IInv, SB!TypeOK, Sandbox!TypeOK, SB!cache, Sandbox!cache,
     SB!AreBreakdowns, Sandbox!AreBreakdowns
<1>2. CASE SessionStep
  <2>1. spanOrder' \in Seq(Calls) /\ printed' \in [Calls -> Nat] /\ overlapped' \in BOOLEAN
    <3>1. spanOrder \in Seq(Calls) /\ printed \in [Calls -> Nat] /\ overlapped \in BOOLEAN
      BY DEF TypeOK
    <3>2. CASE \E c \in Calls : Begins(c)
      <4>1. PICK c \in Calls : Begins(c)
        BY <3>2
      <4>2. /\ spanOrder' = Append(spanOrder, c) /\ printed' = printed
            /\ overlapped' = (overlapped \/ (c \in Mine /\ Open # {}))
        BY <1>2, <4>1, SpanSteps
      <4> QED
        BY <3>1, <4>2
    <3>3. CASE \E c \in Calls : Prints(c)
      <4>1. PICK c \in Calls : Prints(c)
        BY <3>3
      <4>2. sandboxOf[c] \in Starts
        BY <4>1 DEF Prints, SandboxInv, SB!IInv, SB!ScriptsHaveSandboxes
      <4>3. runningTotal'[sandboxOf[c]] \in Nat
        BY <1>1, <4>2 DEF Sandbox!TypeOK
      <4> QED
        BY <1>2, <3>1, <4>1, <4>3, SpanSteps
    <3>4. CASE GoesOn
      BY <1>2, <3>1, <3>4, SpanSteps DEF spanVars
    <3> QED
      BY <1>2, <3>2, <3>3, <3>4, StepKinds DEF SessionStep
  <2> QED
    BY <1>1, <1>2, <2>1 DEF SessionStep, scriptVars, TypeOK
<1>3. CASE StartQueries
  BY <1>1, <1>3 DEF StartQueries, TypeOK, spanVars
<1>4. CASE \E g \in LogGroups : Poll(g)
  BY <1>1, <1>4 DEF Poll, TypeOK, spanVars
<1>5. CASE \E g \in LogGroups : PollAnswered(g)
  <2>1. PICK g \in LogGroups : PollAnswered(g)
    BY <1>5
  <2>2. attempts' \in [LogGroups -> 0..(MaxAttempts - 1)]
    BY <2>1, LimitsAssumption DEF PollAnswered, PollsLeft, CountPoll, TypeOK
  <2> QED
    BY <1>1, <2>1, <2>2 DEF PollAnswered, TypeOK, spanVars
<1>6. CASE Download
  BY <1>1, <1>6 DEF Download, TypeOK, spanVars, Ended, Mine
<1>7. CASE \E e \in Evaluators : EvaluateAnswered(e)
  <2>1. \A found, target : EvaluateBudgetGate(found, target) \in Verdicts
    BY DEF EvaluateBudgetGate, Judge, Verdicts
  <2>2. PICK e \in Evaluators : EvaluateAnswered(e)
    BY <1>7
  <2>3. PICK o : o \in Verdicts \cup {"judged", "THREW"} /\ outcome' = [outcome EXCEPT ![e] = o]
    BY <2>1, <2>2 DEF EvaluateAnswered
  <2>4. outcome' \in [Evaluators -> Verdicts \cup {"none", "judged", "THREW"}]
    BY <2>3 DEF TypeOK
  <2>5. UNCHANGED <<spanVars, stage, attempts, query, downloaded>>
    BY <2>2 DEF EvaluateAnswered
  <2> QED
    BY <1>1, <2>4, <2>5 DEF TypeOK, spanVars
<1>8. CASE Report
  BY <1>1, <1>8 DEF Report, TypeOK, spanVars
<1>9. CASE UNCHANGED vars
  BY <1>1, <1>9 DEF vars, spanVars, scriptVars, TypeOK
<1> QED
  BY <1>2, <1>3, <1>4, <1>5, <1>6, <1>7, <1>8, <1>9 DEF Next, ScriptProceeds, ServiceAnswers

-----------------------------------------------------------------------------
(* What was printed. *)

Began == {c \in Mine : pc[c] # "idle"}
LastBegan(c) == c \in Began /\ \A d \in Began : ~StartedBefore(c, d)

\* Nothing has gone wrong for the session so far.
Calm ==
    /\ Transcript \notin disturbed
    /\ \A c \in Mine : pc[c] = "done" => result[c] = "snapshot"

\* A snapshot comes from a script that ran.
SnapshotsRan == \A c \in Calls : result[c] = "snapshot" => script[c] = "ran"

\* No script printed more than its sandbox has come to since ...
PrintedWithinTotal ==
    \A c \in Calls : script[c] = "ran" => printed[c] <= runningTotal[sandboxOf[c]]

\* ... and one of them, the last, printed all of it.
TotalWasPrinted ==
    \A c \in Calls :
        script[c] = "ran" =>
            \E d \in Calls : /\ script[d] = "ran"
                             /\ sandboxOf[d] = sandboxOf[c]
                             /\ printed[d] = runningTotal[sandboxOf[c]]

BegunHaveSpans ==
    \A c \in Calls : pc[c] # "idle" => \E i \in DOMAIN spanOrder : spanOrder[i] = c

LostAreDisturbed == \A c \in Calls : pc[c] = "lost" => Transcript \in disturbed

\* If the session's recordings came one after the other, the one that began last
\* is the only one that may still be under way, and has printed the final total.
InTurn ==
    Calm /\ ~overlapped =>
        \A c \in Calls :
            LastBegan(c) =>
                /\ \A d \in Began \ {c} : pc[d] = "done"
                /\ script[c] = "ran" => printed[c] = runningTotal[sandboxOf[c]]

TotalsArePrinted == SnapshotsRan /\ PrintedWithinTotal /\ TotalWasPrinted
SpansInOrder == BegunHaveSpans /\ LostAreDisturbed /\ InTurn

LEMMA BeginsKeeps ==
    ASSUME SandboxInv, SandboxInv', TypeOK, TotalsArePrinted, SpansInOrder, SessionStep,
           NEW c \in Calls, Begins(c)
    PROVE  TotalsArePrinted' /\ SpansInOrder'
<1>1. /\ pc[c] = "idle" /\ pc' = [pc EXCEPT ![c] = "starting"]
      /\ UNCHANGED <<script, result, runningTotal, disturbed, printed>>
      /\ \A d \in Calls \ {c} : sandboxOf'[d] = sandboxOf[d]
      /\ spanOrder' = Append(spanOrder, c)
      /\ overlapped' = (overlapped \/ (c \in Mine /\ Open # {}))
  BY SpanSteps DEF Begins
<1>2. pc \in [Calls -> {"idle", "starting", "executing", "done", "lost"}]
  BY DEF TypeOK, Sandbox!TypeOK
<1>3. spanOrder \in Seq(Calls)
  BY DEF TypeOK
<1>4. script[c] = "none"
  BY <1>1, <1>2 DEF SandboxInv, SB!IInv, SB!ScriptsHaveSandboxes
<1>5. \A d \in Calls : script[d] = "ran" => d # c
  BY <1>4
<1>6. TotalsArePrinted'
  BY <1>1, <1>5 DEF TotalsArePrinted, SnapshotsRan, PrintedWithinTotal, TotalWasPrinted
<1>7. /\ DOMAIN spanOrder' = 1..(Len(spanOrder) + 1)
      /\ DOMAIN spanOrder = 1..Len(spanOrder) /\ Len(spanOrder) \in Nat
      /\ \A i \in DOMAIN spanOrder : spanOrder'[i] = spanOrder[i]
      /\ spanOrder'[Len(spanOrder) + 1] = c
  BY <1>1, <1>3
<1>8. BegunHaveSpans'
  <2> SUFFICES ASSUME NEW d \in Calls, pc'[d] # "idle"
               PROVE  \E i \in DOMAIN spanOrder' : spanOrder'[i] = d
    BY DEF BegunHaveSpans
  <2>1. CASE d = c
    BY <1>7, <2>1
  <2>2. CASE d # c
    BY <1>1, <1>2, <1>7, <2>2 DEF SpansInOrder, BegunHaveSpans
  <2> QED
    BY <2>1, <2>2
<1>9. LostAreDisturbed'
  BY <1>1, <1>2 DEF SpansInOrder, LostAreDisturbed
<1>10. InTurn'
  <2> SUFFICES ASSUME Calm', ~overlapped', NEW d \in Calls, LastBegan(d)'
               PROVE  /\ \A e \in Began' \ {d} : pc'[e] = "done"
                      /\ script'[d] = "ran" => printed'[d] = runningTotal'[sandboxOf'[d]]
    BY DEF InTurn
  <2>1. Calm /\ ~overlapped /\ Mine' = Mine
    BY <1>1, <1>2 DEF Calm, TypeOK, Mine
  <2>2. CASE c \in Mine
    <3>1. Open = {}
      BY <1>1, <2>2
    <3>2. \A e \in Began : pc[e] = "done"
      BY <1>2, <2>1, <3>1 DEF Began, Open, SpansInOrder, LostAreDisturbed, Calm, Mine
    <3>3. d = c
      <4> SUFFICES ASSUME d # c PROVE FALSE
        OBVIOUS
      <4>1. d \in Began' /\ c \in Began' /\ ~StartedBefore(d, c)'
        BY <1>1, <1>2, <2>1, <2>2 DEF LastBegan, Began, Mine
      <4>2. pc[d] # "idle"
        BY <1>1, <1>2, <4>1 DEF Began
      <4>3. PICK i \in DOMAIN spanOrder : spanOrder[i] = d
        BY <4>2 DEF SpansInOrder, BegunHaveSpans
      <4>4. /\ i \in DOMAIN spanOrder' /\ Len(spanOrder) + 1 \in DOMAIN spanOrder'
            /\ i < Len(spanOrder) + 1 /\ spanOrder'[i] = d
        BY <1>7, <4>3
      <4>5. StartedBefore(d, c)'
        BY <1>7, <4>4 DEF StartedBefore
      <4> QED
        BY <4>1, <4>5
    <3>4. \A e \in Began' \ {c} : e \in Began /\ pc'[e] = pc[e]
      BY <1>1, <1>2, <2>1 DEF Began, Mine
    <3> QED
      BY <1>1, <1>4, <3>2, <3>3, <3>4
  <2>3. CASE c \notin Mine
    <3>1. Began' = Began /\ \A e \in Began : pc'[e] = pc[e]
      BY <1>1, <1>2, <2>1, <2>3 DEF Began, Mine
    <3>2. \A a, b : StartedBefore(a, b) => StartedBefore(a, b)'
      BY <1>7 DEF StartedBefore
    <3>3. LastBegan(d)
      BY <3>1, <3>2 DEF LastBegan
    <3>4. d # c
      BY <2>3, <3>3 DEF LastBegan, Began
    <3>5. /\ \A e \in Began \ {d} : pc[e] = "done"
          /\ script[d] = "ran" => printed[d] = runningTotal[sandboxOf[d]]
      BY <2>1, <3>3 DEF SpansInOrder, InTurn
    <3> QED
      BY <1>1, <3>1, <3>4, <3>5
  <2> QED
    BY <2>2, <2>3
<1> QED
  BY <1>6, <1>8, <1>9, <1>10 DEF SpansInOrder

LEMMA PrintsKeeps ==
    ASSUME SandboxInv, SandboxInv', TypeOK, TotalsArePrinted, SpansInOrder, SessionStep,
           NEW c \in Calls, Prints(c)
    PROVE  TotalsArePrinted' /\ SpansInOrder'
<1>1. PICK x \in Starts : sandboxOf[c] = x
  BY DEF Prints, SandboxInv, SB!IInv, SB!ScriptsHaveSandboxes
<1>2. PICK n \in Nat : Hold[c].amount = n
  BY HoldAssumption DEF Sandbox!HoldRecord
<1>3. /\ runningTotal \in [Starts -> Nat] /\ printed \in [Calls -> Nat]
      /\ script = [d \in Calls |-> script[d]]
  BY DEF TypeOK, Sandbox!TypeOK
<1>4. /\ script[c] = "sent" /\ script' = [script EXCEPT ![c] = "ran"]
      /\ runningTotal' = [runningTotal EXCEPT ![x] = @ + n]
      /\ printed' = [printed EXCEPT ![c] = runningTotal'[x]]
      /\ UNCHANGED <<pc, result, sandboxOf, disturbed, spanOrder, overlapped>>
  BY <1>1, <1>2, SpanSteps DEF Prints
<1>5. /\ runningTotal'[x] = runningTotal[x] + n
      /\ \A y \in Starts \ {x} : runningTotal'[y] = runningTotal[y]
      /\ printed'[c] = runningTotal'[x] /\ script'[c] = "ran"
      /\ \A d \in Calls \ {c} : printed'[d] = printed[d] /\ script'[d] = script[d]
  BY <1>3, <1>4
<1>6. \A d \in Calls : script[d] = "ran" => sandboxOf[d] \in Starts /\ d # c
  BY <1>4 DEF SandboxInv, SB!IInv, SB!ScriptsHaveSandboxes
<1>7. TotalsArePrinted'
  <2>1. SnapshotsRan'
    BY <1>4, <1>5 DEF TotalsArePrinted, SnapshotsRan
  <2>2. PrintedWithinTotal'
    <3> SUFFICES ASSUME NEW d \in Calls, script'[d] = "ran"
                 PROVE  printed'[d] <= runningTotal'[sandboxOf[d]]
      BY <1>4 DEF PrintedWithinTotal
    <3>1. CASE d = c
      BY <1>1, <1>2, <1>3, <1>5, <3>1
    <3>2. CASE d # c
      <4>1. /\ printed[d] <= runningTotal[sandboxOf[d]] /\ sandboxOf[d] \in Starts
            /\ printed[d] \in Nat /\ runningTotal[sandboxOf[d]] \in Nat
        BY <1>3, <1>5, <1>6, <3>2 DEF TotalsArePrinted, PrintedWithinTotal
      <4>2. runningTotal[sandboxOf[d]] <= runningTotal'[sandboxOf[d]]
        BY <1>2, <1>3, <1>5, <4>1
      <4>3. runningTotal'[sandboxOf[d]] \in Nat
        BY <1>2, <1>3, <1>5, <4>1
      <4> QED
        BY <1>5, <3>2, <4>1, <4>2, <4>3
    <3> QED
      BY <3>1, <3>2
  <2>3. TotalWasPrinted'
    <3> SUFFICES ASSUME NEW d \in Calls, script'[d] = "ran"
                 PROVE  \E e \in Calls : /\ script'[e] = "ran"
                                         /\ sandboxOf[e] = sandboxOf[d]
                                         /\ printed'[e] = runningTotal'[sandboxOf[d]]
      BY <1>4 DEF TotalWasPrinted
    <3>1. CASE sandboxOf[d] = x
      BY <1>1, <1>5, <3>1
    <3>2. CASE sandboxOf[d] # x
      <4>1. PICK e \in Calls : /\ script[e] = "ran" /\ sandboxOf[e] = sandboxOf[d]
                               /\ printed[e] = runningTotal[sandboxOf[d]]
        BY <1>1, <1>5, <3>2 DEF TotalsArePrinted, TotalWasPrinted
      <4>2. e # c /\ sandboxOf[d] \in Starts \ {x}
        BY <1>6, <3>2, <4>1
      <4> QED
        BY <1>5, <4>1, <4>2
    <3> QED
      BY <3>1, <3>2
  <2> QED
    BY <2>1, <2>2, <2>3 DEF TotalsArePrinted
<1>8. BegunHaveSpans' /\ LostAreDisturbed'
  BY <1>4 DEF SpansInOrder, BegunHaveSpans, LostAreDisturbed
<1>9. InTurn'
  <2> SUFFICES ASSUME Calm', ~overlapped', NEW d \in Calls, LastBegan(d)'
               PROVE  /\ \A e \in Began' \ {d} : pc'[e] = "done"
                      /\ script'[d] = "ran" => printed'[d] = runningTotal'[sandboxOf'[d]]
    BY DEF InTurn
  <2>1. /\ Calm /\ ~overlapped /\ Mine' = Mine /\ Began' = Began
        /\ \A a, b : StartedBefore(a, b)' <=> StartedBefore(a, b)
    BY <1>4 DEF Calm, Mine, Began, StartedBefore
  <2>2. LastBegan(d)
    BY <2>1 DEF LastBegan
  <2>3. /\ \A e \in Began \ {d} : pc[e] = "done"
        /\ script[d] = "ran" => printed[d] = runningTotal[sandboxOf[d]]
    BY <2>1, <2>2 DEF SpansInOrder, InTurn
  <2>4. ASSUME d # c, script[d] = "ran"
        PROVE  sandboxOf[d] # x
    <3> SUFFICES ASSUME sandboxOf[d] = x PROVE FALSE
      OBVIOUS
    <3>1. startedFor[x] = Hold[d].session /\ startedFor[x] = Hold[c].session
      BY <1>1, NoStartAssumption
         DEF SandboxInv, SB!Owners, SB!SandboxesAreOwn, SB!SessionOf
    <3>2. c \in Began
      <4>1. pc[c] # "idle"
        BY <1>4 DEF SandboxInv, SB!IInv, SB!ScriptsHaveSandboxes
      <4> QED
        BY <2>2, <3>1, <4>1 DEF LastBegan, Began, Mine
    <3>3. result[c] = "snapshot"
      BY <2>1, <2>3, <2>4, <3>2 DEF Calm, Began
    <3> QED
      BY <1>4, <3>3 DEF TotalsArePrinted, SnapshotsRan
  <2>5. script'[d] = "ran" => printed'[d] = runningTotal'[sandboxOf[d]]
    <3>1. CASE d = c
      BY <1>1, <1>5, <3>1
    <3>2. CASE d # c
      BY <1>5, <1>6, <2>3, <2>4, <3>2
    <3> QED
      BY <3>1, <3>2
  <2> QED
    BY <1>4, <2>1, <2>3, <2>5
<1> QED
  BY <1>7, <1>8, <1>9 DEF SpansInOrder

LEMMA GoesOnKeeps ==
    ASSUME SandboxInv, TypeOK, TotalsArePrinted, SpansInOrder, GoesOn, UNCHANGED spanVars
    PROVE  TotalsArePrinted' /\ SpansInOrder'
<1>1. UNCHANGED <<spanOrder, printed, overlapped, sandboxOf, runningTotal>>
  BY DEF spanVars, GoesOn
<1>2. TotalsArePrinted'
  BY <1>1 DEF GoesOn, TotalsArePrinted, SnapshotsRan, PrintedWithinTotal, TotalWasPrinted
<1>3. BegunHaveSpans' /\ LostAreDisturbed'
  BY <1>1, TranscriptAssumption DEF GoesOn, SpansInOrder, BegunHaveSpans, LostAreDisturbed
<1>4. InTurn'
  <2>1. /\ Mine' = Mine /\ Began' = Began
        /\ \A a, b : StartedBefore(a, b)' <=> StartedBefore(a, b)
    BY <1>1 DEF GoesOn, Mine, Began, StartedBefore
  <2>2. Calm' => Calm
    BY DEF Calm, GoesOn, Mine
  <2>3. \A d \in Calls : LastBegan(d)' => LastBegan(d)
    BY <2>1 DEF LastBegan
  <2> QED
    BY <1>1, <2>1, <2>2, <2>3 DEF SpansInOrder, InTurn, GoesOn, Began, Mine
<1> QED
  BY <1>3, <1>2, <1>4 DEF SpansInOrder

-----------------------------------------------------------------------------
(* The stages of the script. *)

Found == downloaded.spans \cup downloaded.records
Verdict == EvaluateBudgetGate(Found, LastExecuteCode(downloaded.spans))

\* What was found had ended, and the gate's verdict is on what was found.
InStages ==
    /\ stage \in {"idle", "querying"} => outcome["budgetGate"] = "none"
    /\ stage = "idle" => downloaded.spans = {} /\ downloaded.records = {}
    /\ Found \subseteq Ended
    /\ outcome["budgetGate"] \in {"none", "THREW", Verdict}

IInv == SandboxInv /\ TypeOK /\ TotalsArePrinted /\ SpansInOrder /\ InStages

LEMMA InitIInv == Init => IInv
<1> SUFFICES ASSUME Init PROVE IInv
  OBVIOUS
<1>1. SandboxInv /\ TypeOK
  BY SandboxInit, InitTypeOK DEF Init
<1>2. \A c \in Calls : pc[c] = "idle" /\ script[c] = "none" /\ result[c] = "none"
  BY DEF Init, Sandbox!Init
<1>3. TotalsArePrinted
  BY <1>2 DEF TotalsArePrinted, SnapshotsRan, PrintedWithinTotal, TotalWasPrinted
<1>4. SpansInOrder
  <2>1. \A c : ~LastBegan(c)
    BY <1>2 DEF LastBegan, Began, Mine
  <2> QED
    BY <1>2, <2>1 DEF SpansInOrder, BegunHaveSpans, LostAreDisturbed, InTurn
<1>5. InStages
  BY DEF Init, InStages, Found, Evaluators
<1> QED
  BY <1>1, <1>3, <1>4, <1>5 DEF IInv

\* Once the queries are started, the session rests.
LEMMA AtRest ==
    ASSUME TotalsArePrinted, SpansInOrder, UNCHANGED <<sandboxVars, spanVars>>
    PROVE  /\ TotalsArePrinted' /\ SpansInOrder'
           /\ Ended' = Ended
           /\ \A found, target : EvaluateBudgetGate(found, target)' = EvaluateBudgetGate(found, target)
           /\ \A spans : LastExecuteCode(spans)' = LastExecuteCode(spans)
<1>1. UNCHANGED <<pc, sandboxOf, script, result, runningTotal, disturbed,
                  spanOrder, printed, overlapped>>
  BY DEF sandboxVars, spanVars
<1>2. TotalsArePrinted'
  BY <1>1 DEF TotalsArePrinted, SnapshotsRan, PrintedWithinTotal, TotalWasPrinted
<1>3. /\ Mine' = Mine /\ Began' = Began /\ Ended' = Ended /\ Reporting' = Reporting
      /\ \A a, b : StartedBefore(a, b)' <=> StartedBefore(a, b)
  BY <1>1 DEF Mine, Began, Ended, Reporting, StartedBefore
<1>4. SpansInOrder'
  <2>1. \A c \in Calls : LastBegan(c)' <=> LastBegan(c)
    BY <1>3 DEF LastBegan
  <2> QED
    BY <1>1, <1>3, <2>1 DEF SpansInOrder, BegunHaveSpans, LostAreDisturbed, InTurn, Calm
<1>5. \A found, target : EvaluateBudgetGate(found, target)' = EvaluateBudgetGate(found, target)
  BY <1>1, <1>3 DEF EvaluateBudgetGate, RunningTotals
<1>6. \A spans : LastExecuteCode(spans)' = LastExecuteCode(spans)
  BY <1>3 DEF LastExecuteCode
<1> QED
  BY <1>2, <1>3, <1>4, <1>5, <1>6

LEMMA SessionStepKeeps ==
    ASSUME SandboxInv, SandboxInv', TypeOK, TotalsArePrinted, SpansInOrder, InStages, SessionStep
    PROVE  TotalsArePrinted' /\ SpansInOrder' /\ InStages'
<1>1. CASE \E c \in Calls : Begins(c)
  <2>1. PICK c \in Calls : Begins(c)
    BY <1>1
  <2> QED
    BY <2>1, BeginsKeeps DEF SessionStep, InStages, scriptVars, Found
<1>2. CASE \E c \in Calls : Prints(c)
  <2>1. PICK c \in Calls : Prints(c)
    BY <1>2
  <2> QED
    BY <2>1, PrintsKeeps DEF SessionStep, InStages, scriptVars, Found
<1>3. CASE GoesOn
  <2>1. UNCHANGED spanVars
    BY <1>3, SpanSteps
  <2> QED
    BY <1>3, <2>1, GoesOnKeeps DEF SessionStep, InStages, scriptVars, Found
<1> QED
  BY <1>1, <1>2, <1>3, StepKinds DEF SessionStep

LEMMA NextIInv ==
    ASSUME IInv, [Next]_vars
    PROVE  IInv'
<1>1. SandboxInv'
  <2>1. Sandbox!Next \/ UNCHANGED sandboxVars
    BY DEF Next, SessionStep, StartQueries, ScriptProceeds, ServiceAnswers, Poll, PollAnswered,
       Download, EvaluateAnswered, Report, vars
  <2> QED
    BY <2>1, SandboxNext DEF IInv
<1>2. TypeOK'
  BY <1>1, NextTypeOK DEF IInv
<1>3. CASE SessionStep
  BY <1>1, <1>2, <1>3, SessionStepKeeps DEF IInv
<1>4. CASE UNCHANGED <<sandboxVars, spanVars>>
  <2>1. TotalsArePrinted' /\ SpansInOrder' /\ Ended' = Ended
    BY <1>4, AtRest DEF IInv
  <2>2. ASSUME UNCHANGED downloaded
        PROVE  Found' = Found /\ Verdict' = Verdict
    <3>1. Found' = Found
      BY <2>2 DEF Found
    <3>2. LastExecuteCode(downloaded.spans)' = LastExecuteCode(downloaded.spans)
      BY <1>4, <2>2 DEF LastExecuteCode, StartedBefore, spanVars
    <3>3. \A f, t : EvaluateBudgetGate(f, t)' = EvaluateBudgetGate(f, t)
      BY <1>4, AtRest DEF IInv
    <3> QED
      BY <3>1, <3>2, <3>3 DEF Verdict
  <2>3. InStages'
    <3>1. CASE StartQueries
      BY <2>1, <2>2, <3>1 DEF StartQueries, IInv, InStages
    <3>2. CASE \E g \in LogGroups : Poll(g) \/ PollAnswered(g)
      BY <2>1, <2>2, <3>2 DEF Poll, PollAnswered, IInv, InStages
    <3>3. CASE Download
      BY <2>1, <3>3 DEF Download, IInv, InStages, Found
    <3>4. CASE \E e \in Evaluators : EvaluateAnswered(e)
      <4>1. PICK e \in Evaluators : EvaluateAnswered(e)
        BY <3>4
      <4>2. UNCHANGED <<stage, downloaded>> /\ stage = "evaluating"
        BY <4>1 DEF EvaluateAnswered
      <4>3. outcome'["budgetGate"] \in {"none", "THREW", Verdict}
        BY <4>1 DEF EvaluateAnswered, IInv, InStages, TypeOK, Evaluators, Verdict, Found
      <4> QED
        BY <2>1, <2>2, <4>2, <4>3 DEF IInv, InStages
    <3>5. CASE Report \/ UNCHANGED scriptVars
      BY <2>1, <2>2, <3>5 DEF Report, scriptVars, IInv, InStages
    <3>6. CASE SessionStep
      BY <1>1, <1>2, <3>6, SessionStepKeeps DEF IInv
    <3> QED
      BY <3>1, <3>2, <3>3, <3>4, <3>5, <3>6 DEF Next, ScriptProceeds, ServiceAnswers, vars
  <2> QED
    BY <1>1, <1>2, <2>1, <2>3 DEF IInv
<1> QED
  <2>1. SessionStep \/ UNCHANGED <<sandboxVars, spanVars>>
    BY DEF Next, StartQueries, ScriptProceeds, ServiceAnswers, Poll, PollAnswered, Download,
       EvaluateAnswered, Report, vars
  <2> QED
    BY <1>3, <1>4, <2>1

\* The inductive invariant of the session, its spans and the script: what was
\* printed, in which order recordings began, and what the verdict is about.
THEOREM EvaluationInvariant == Spec => []IInv
  BY InitIInv, NextIInv, PTL DEF Spec

-----------------------------------------------------------------------------
(* The verdicts. *)

\* The session's holds, as BudgetSandboxProofs sums them.
LEMMA HeldIsSum ==
    ASSUME IInv
    PROVE  /\ Held = SB!SumFunctionOnSet(SB!Amount, SB!Ran(Transcript))
           /\ SB!IsFiniteSet(SB!Ran(Transcript))
           /\ \A c \in Calls : SB!Amount[c] \in Nat
           /\ Held \in Nat
<1>1. {c \in Mine : script[c] = "ran"} = SB!Ran(Transcript)
  BY DEF Mine, SB!Ran, SB!SessionOf
<1>2. Held = SB!SumFunctionOnSet(SB!Amount, SB!Ran(Transcript))
  BY <1>1, SumsAgree DEF Held
<1>3. SB!IsFiniteSet(SB!Ran(Transcript))
  <2>1. SB!Ran(Transcript) \subseteq {c \in Calls : script[c] = "ran"}
    BY DEF SB!Ran
  <2> QED
    BY <2>1, SandboxAssumptions, SB!FS_Subset DEF IInv, SandboxInv, SB!Sums, SB!FewRan
<1>4. \A c \in Calls : SB!Amount[c] \in Nat
  <2>1. \A c \in Calls : Hold[c].amount \in Nat
    BY HoldAssumption DEF Sandbox!HoldRecord
  <2> QED
    BY <2>1, Zenon DEF SB!Amount
<1>5. \A c \in SB!Ran(Transcript) : SB!Amount[c] \in Nat
  BY <1>4 DEF SB!Ran
<1>6. SB!SumFunctionOnSet(SB!Amount, SB!Ran(Transcript)) \in Nat
  BY <1>3, <1>5, SandboxAssumptions, SB!SumType, Zenon
<1> QED
  BY <1>2, <1>3, <1>4, <1>6

\* A sandbox that a script of the session ran in was started for the session.
LEMMA SandboxOfMine ==
    ASSUME IInv, NEW c \in Mine, script[c] = "ran"
    PROVE  /\ sandboxOf[c] \in Starts /\ startedFor[sandboxOf[c]] = Transcript
           /\ \A d \in Calls : sandboxOf[d] = sandboxOf[c] => d \in Mine
<1>1. sandboxOf[c] \in Starts
  BY DEF IInv, SandboxInv, SB!IInv, SB!ScriptsHaveSandboxes, Mine
<1>2. sandboxOf[c] # NoStart
  BY <1>1, NoStartAssumption
<1> QED
  BY <1>1, <1>2 DEF IInv, SandboxInv, SB!Owners, SB!SandboxesAreOwn, SB!SessionOf, Mine

\* A total in a snapshot is never above what the session has come to.
LEMMA ReportedWithinHeld ==
    ASSUME IInv
    PROVE  \A c \in Reporting : printed[c] \in Nat /\ printed[c] <= Held
<1> TAKE c \in Reporting
<1>1. c \in Mine /\ c \in Calls /\ script[c] = "ran"
  BY DEF Reporting, Ended, Mine, IInv, TotalsArePrinted, SnapshotsRan
<1>2. PICK x \in Starts : sandboxOf[c] = x
  BY <1>1, SandboxOfMine
<1>3. printed[c] \in Nat /\ runningTotal[x] \in Nat /\ printed[c] <= runningTotal[x]
  BY <1>1, <1>2 DEF IInv, TypeOK, Sandbox!TypeOK, TotalsArePrinted, PrintedWithinTotal
<1>4. runningTotal[x] = SB!SumFunctionOnSet(SB!Amount, SB!RanIn(x))
  BY DEF IInv, SandboxInv, SB!Sums, SB!TotalsAreSums
<1>5. SB!RanIn(x) \in SUBSET SB!Ran(Transcript)
  BY <1>1, <1>2, SandboxOfMine DEF SB!RanIn, SB!Ran, SB!SessionOf, Mine
<1>6. \A d \in SB!Ran(Transcript) : SB!Amount[d] \in Nat
  BY HeldIsSum DEF SB!Ran
<1>7. SB!SumFunctionOnSet(SB!Amount, SB!RanIn(x))
         <= SB!SumFunctionOnSet(SB!Amount, SB!Ran(Transcript))
  BY <1>5, <1>6, HeldIsSum, SandboxAssumptions, SB!SumGrows
<1>8. runningTotal[x] <= Held /\ Held \in Nat
  BY <1>4, <1>7, HeldIsSum
<1> QED
  BY <1>3, <1>8

\* So whatever part of the telemetry is judged, the figure that is compared with
\* the budget is one of the totals, and within what the session came to.
LEMMA FinalTotal ==
    ASSUME IInv, NEW found, RunningTotals(found) # {}
    PROVE  /\ FinalRunningTotal(RunningTotals(found)) \in RunningTotals(found)
           /\ \A t \in RunningTotals(found) : /\ t \in Nat /\ t <= Held
                                              /\ t <= FinalRunningTotal(RunningTotals(found))
<1> DEFINE T == RunningTotals(found)
<1>1. \A t \in T : t \in Nat /\ t <= Held
  BY ReportedWithinHeld DEF RunningTotals
<1>2. T \subseteq Nat /\ T # {} /\ Held \in Nat
  BY <1>1, HeldIsSum
<1> HIDE DEF T
<1>3. Max(T) \in T /\ \A t \in T : t <= Max(T)
  BY <1>1, <1>2, MaxExists
<1> QED
  BY <1>1, <1>3 DEF T, FinalRunningTotal

\* In a clean session, the only sandbox has all of the session's holds in its
\* total, and some snapshot tells it.
LEMMA CleanSession ==
    ASSUME IInv, Clean
    PROVE  /\ Reporting = Ended /\ Ended = Began
           /\ \A c \in Mine : script[c] = "ran" => runningTotal[sandboxOf[c]] = Held
           /\ \E c \in Reporting : printed[c] = Held
<1>1. Reporting = Ended /\ Ended = Began /\ Began # {}
  BY DEF Clean, Reporting, Ended, Began
<1>2. ASSUME NEW c \in Mine, script[c] = "ran"
      PROVE  runningTotal[sandboxOf[c]] = Held
  <2>1. PICK x \in Starts : sandboxOf[c] = x
    BY <1>2, SandboxOfMine
  <2>2. startedFor[x] = Transcript
    BY <1>2, <2>1, SandboxOfMine
  <2>3. \A d \in Mine : script[d] = "ran" => sandboxOf[d] = x
    <3> TAKE d \in Mine
    <3> HAVE script[d] = "ran"
    <3>1. sandboxOf[d] \in Starts /\ startedFor[sandboxOf[d]] = Transcript
      BY SandboxOfMine
    <3> QED
      BY <2>2, <3>1, TranscriptAssumption DEF Clean, IInv, SandboxInv, SB!Owners, SB!OneStartEach
  <2>4. SB!RanIn(x) = SB!Ran(Transcript)
    BY <1>2, <2>1, <2>3, SandboxOfMine DEF SB!RanIn, SB!Ran, SB!SessionOf, Mine
  <2>5. runningTotal[x] = SB!SumFunctionOnSet(SB!Amount, SB!RanIn(x))
    BY DEF IInv, SandboxInv, SB!Sums, SB!TotalsAreSums
  <2> QED
    BY <2>1, <2>4, <2>5, HeldIsSum
<1>3. \A c \in Reporting : c \in Mine /\ c \in Calls /\ script[c] = "ran"
  BY DEF Reporting, Ended, Mine, IInv, TotalsArePrinted, SnapshotsRan
<1>4. PICK c \in Reporting : TRUE
  BY <1>1
<1>5. PICK d \in Calls : /\ script[d] = "ran" /\ sandboxOf[d] = sandboxOf[c]
                         /\ printed[d] = runningTotal[sandboxOf[c]]
  BY <1>3 DEF IInv, TotalsArePrinted, TotalWasPrinted
<1>6. d \in Reporting
  <2>1. d \in Mine
    BY <1>3, <1>5, SandboxOfMine
  <2>2. pc[d] # "idle"
    BY <1>5 DEF IInv, SandboxInv, SB!IInv, SB!ScriptsHaveSandboxes
  <2> QED
    BY <1>1, <2>1, <2>2 DEF Began
<1>7. printed[d] = Held
  BY <1>2, <1>3, <1>5
<1> QED
  BY <1>1, <1>2, <1>6, <1>7

LEMMA GateFailsOverBudget ==
    ASSUME IInv, NEW found, NEW target, EvaluateBudgetGate(found, target) = "FAIL"
    PROVE  Held > Budget
<1> DEFINE scope == SpansInScope(found, target)
           final == FinalRunningTotal(RunningTotals(scope))
<1>1. RunningTotals(scope) # {} /\ ~(final <= Budget)
  BY DEF EvaluateBudgetGate, Judge
<1>2. final \in Nat /\ final <= Held
  BY <1>1, FinalTotal
<1> HIDE DEF final
<1> QED
  BY <1>1, <1>2, HeldIsSum, LimitsAssumption

LEMMA HighestIsFinal ==
    ASSUME IInv, Clean
    PROVE  EvaluateBudgetGate(Ended, {}) = Judge(Held)
<1>1. SpansInScope(Ended, {}) = Ended
  BY DEF SpansInScope
<1>2. PICK c \in Reporting : printed[c] = Held
  BY CleanSession
<1>3. Held \in RunningTotals(Ended)
  BY <1>2, CleanSession DEF RunningTotals
<1> DEFINE final == FinalRunningTotal(RunningTotals(Ended))
<1>4. final \in Nat /\ final <= Held /\ Held <= final /\ Held \in Nat
  BY <1>3, FinalTotal, HeldIsSum
<1>5. final = Held
  <2> HIDE DEF final
  <2> QED
    BY <1>4
<1> QED
  BY <1>1, <1>3, <1>5 DEF EvaluateBudgetGate

LEMMA LastSpanIsFinal ==
    ASSUME IInv, Clean, ~overlapped, downloaded.spans = Ended
    PROVE  Verdict = Judge(Held)
<1>1. Found = Ended /\ Reporting = Ended /\ Ended = Began
  BY CleanSession DEF IInv, InStages, Found
<1> DEFINE target == LastExecuteCode(Ended)
<1>2. \A c \in target : c \in Ended /\ LastBegan(c)
  BY <1>1 DEF LastExecuteCode, LastBegan
<1>3. CASE target = {}
  BY <1>1, <1>3, HighestIsFinal DEF Verdict
<1>4. CASE target # {}
  <2>1. SpansInScope(Found, target) = target
    BY <1>1, <1>2, <1>4 DEF SpansInScope
  <2>2. Calm
    BY <1>1 DEF Clean, Calm, Reporting, Ended
  <2>3. \A c \in target : c \in Reporting /\ printed[c] = Held
    <3> TAKE c \in target
    <3>1. c \in Reporting /\ c \in Mine /\ c \in Calls /\ script[c] = "ran"
      BY <1>1, <1>2 DEF Reporting, Ended, Mine, IInv, TotalsArePrinted, SnapshotsRan
    <3>2. printed[c] = runningTotal[sandboxOf[c]]
      BY <1>2, <2>2, <3>1 DEF IInv, SpansInOrder, InTurn
    <3> QED
      BY <3>1, <3>2, CleanSession
  <2>4. RunningTotals(target) = {Held}
    BY <1>4, <2>3 DEF RunningTotals
  <2>5. FinalRunningTotal({Held}) = Held
    BY <2>4, FinalTotal
  <2>6. Verdict = EvaluateBudgetGate(Found, target)
    BY <1>1 DEF Verdict
  <2> HIDE DEF target
  <2> QED
    BY <2>1, <2>4, <2>5, <2>6 DEF EvaluateBudgetGate
<1> QED
  BY <1>3, <1>4

-----------------------------------------------------------------------------
\* Every variable keeps its type, the numbers of polls their bound.
THEOREM TypeCorrect == Spec => []TypeOK
  BY EvaluationInvariant, PTL DEF IInv

\* However much of the telemetry is found, and whatever sandboxes were lost, the
\* gate fails no session whose holds are within the budget.
THEOREM FailedSessionIsOverBudgetHolds == Spec => []FailedSessionIsOverBudget
<1>1. IInv => FailedSessionIsOverBudget
  BY GateFailsOverBudget DEF IInv, InStages, Verdict, FailedSessionIsOverBudget
<1> QED
  BY <1>1, EvaluationInvariant, PTL

\* Over all of the spans of a session in which nothing failed, the gate gives the
\* verdict that the session's holds deserve: overlapping recordings do not matter.
THEOREM HighestTotalIsFinalHolds == Spec => []HighestTotalIsFinal
<1>1. IInv => HighestTotalIsFinal
  BY HighestIsFinal DEF HighestTotalIsFinal
<1> QED
  BY <1>1, EvaluationInvariant, PTL

\* The span that began last is enough for that verdict, if no two recordings
\* overlapped and no span is missing.
THEOREM LastSpanHasFinalTotalHolds == Spec => []LastSpanHasFinalTotal
<1>1. IInv => LastSpanHasFinalTotal
  BY LastSpanIsFinal DEF IInv, InStages, LastSpanHasFinalTotal
<1> QED
  BY <1>1, EvaluationInvariant, PTL
=============================================================================
