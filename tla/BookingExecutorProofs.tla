----------------------- MODULE BookingExecutorProofs -----------------------
(***************************************************************************)
(* What the executor and the Gateway's Policy guarantee together, for any  *)
(* number of calls, sessions, candidates and rounds, any prices and any    *)
(* threshold.                                                              *)
(*                                                                         *)
(* A hold is decided after the executor has read the approval it carries,  *)
(* often after that approval is gone again.  IInv therefore follows each   *)
(* call: what Policy decided is what it decides of the call's price and    *)
(* approval as they still stand, because neither changes once the request  *)
(* is on the wire; and an approval that was read had been granted.         *)
(*                                                                         *)
(* One approve-hold pays for the approved holds of one round at most, and  *)
(* no failure spends it.  The approval a session holds is one grant not    *)
(* yet spent.  When a hold that carries an approval is confirmed and its   *)
(* session's approval is gone already, a sibling of the same round has     *)
(* spent it: the session's next round, whose holds would read a newer      *)
(* approval, cannot have begun.                                            *)
(***************************************************************************)
EXTENDS BookingExecutor, FiniteSetTheorems, TLAPS

Asked(c) == HoldArguments(request[c].candidateId, livePrice[c], wasApproved[c])

\* How far a call has come limits what can be set about it.
InOrder(c) ==
    /\ pc[c] # "idle" => request[c] \in Request
    /\ pc[c] \in {"idle", "search", "checkPrice", "approveHold"} =>
          wire[c] = "none" /\ livePrice[c] = NoPrice
    /\ pc[c] = "idle" => ~wasApproved[c]
    /\ result[c] # "none" => pc[c] = "done"
    /\ pc[c] \in {"checkPrice", "holdRequest", "recordHold"} => request[c].tool = "hold"
    /\ pc[c] = "search" => request[c].tool = "search"

LifeCycle == \A c \in Calls : InOrder(c)

\* The Gateway's decisions still follow from what each hold asked for.
DecidedByPolicy ==
    \A c \in Calls :
        /\ wire[c] = "placed" => Permits(Asked(c))
        /\ wire[c] = "denied" => ~Permits(Asked(c))

\* Approvals at hand, and those read by some hold, were granted to the session.
ApprovalsWereGranted ==
    /\ \A s \in approvedSessions : grants[s] > 0
    /\ \A c \in Calls : wasApproved[c] => grants[request[c].session] > 0

\* A price that a hold carries is the live price of its candidate, and a hold
\* is recorded only once placed with one.
PricesAreLive ==
    \A c \in Calls :
        /\ livePrice[c] # NoPrice => livePrice[c] = LivePrice[request[c].candidateId]
        /\ pc[c] = "recordHold" => wire[c] = "placed" /\ livePrice[c] # NoPrice

IInv ==
    /\ TypeOK
    /\ LifeCycle
    /\ DecidedByPolicy
    /\ ApprovalsWereGranted
    /\ PricesAreLive
    /\ CallerAskedOnlyWhenGated
    /\ NothingHeldOnPaper

-----------------------------------------------------------------------------
\* What every request holds.
LEMMA RequestFields ==
    ASSUME NEW r \in Request
    PROVE  /\ r.session \in Sessions
           /\ r.tool \in {"search", "hold", "approve-hold"}
           /\ r.tool = "hold" => r.candidateId \in Candidates
           /\ r.tool = "search" => r.found \in SearchResults
  BY DEF Request

\* Policy permits exactly the holds that are not gated and the approved ones.
LEMMA PermitsUngatedOrApproved ==
    ASSUME NEW k, NEW p \in Price \cup {NoPrice}, NEW approved \in BOOLEAN
    PROVE  Permits(HoldArguments(k, p, approved)) <=> ~Gated(p) \/ approved
  BY ThresholdAssumption, NoPriceAssumption
     DEF Permits, HoldArguments, HoldThresholdPolicy, HoldApprovedPolicy, Gated, Price

\* A call of a new round is suspended at one of the awaits.
LEMMA FirstAwaitIsAwait ==
    ASSUME NEW r \in Request
    PROVE  /\ FirstAwait(r) \in {"search", "checkPrice", "holdRequest", "approveHold"}
           /\ FirstAwait(r) \in {"checkPrice", "holdRequest"} => r.tool = "hold"
           /\ FirstAwait(r) = "search" => r.tool = "search"
<1>1. CASE r.tool = "search"
  BY <1>1 DEF FirstAwait
<1>2. CASE r.tool = "hold"
  BY <1>2 DEF FirstAwait
<1>3. CASE r.tool = "approve-hold"
  BY <1>3 DEF FirstAwait
<1> QED
  BY <1>1, <1>2, <1>3, RequestFields

-----------------------------------------------------------------------------
LEMMA InitTypeOK == Init => TypeOK
  BY DEF Init, TypeOK, Results, Awaits

LEMMA StartRoundLifeCycle ==
    ASSUME TypeOK, LifeCycle, NEW s \in Sessions, StartRound(s)
    PROVE  TypeOK' /\ LifeCycle'
<1>1. PICK started \in SUBSET {c \in Calls : pc[c] = "idle"} :
         \E asked \in [started -> {r \in Request : r.session = s}] :
            ExecuteAll(s, started, asked)
  BY DEF StartRound
<1>2. PICK asked \in [started -> {r \in Request : r.session = s}] :
         ExecuteAll(s, started, asked)
  BY <1>1
<1> USE <1>2 DEF ExecuteAll
<1>3. \A c \in started : asked[c] \in Request
  OBVIOUS
<1>4. TypeOK'
  <2>1. request' \in [Calls -> Request \cup {NoRequest}]
    BY <1>3 DEF TypeOK
  <2>2. pc' \in [Calls -> {"idle", "done", "lost"} \cup Awaits]
    <3>1. \A c \in started : FirstAwait(asked[c]) \in Awaits
      BY <1>3, FirstAwaitIsAwait DEF Awaits
    <3> QED
      BY <3>1 DEF TypeOK
  <2>3. wasApproved' \in [Calls -> BOOLEAN]
    <3>1. ReadApproval(s) \in BOOLEAN
      BY DEF ReadApproval
    <3> QED
      BY <3>1, Zenon DEF TypeOK
  <2>4. wire' \in [Calls -> {"none", "sent", "placed", "denied", "failed"}]
    BY DEF TypeOK
  <2>5. round' \in [Calls -> Nat] /\ rounds' \in [Sessions -> Nat]
    BY DEF TypeOK, StartRound
  <2>6. grantsSeen' \in [Calls -> Nat]
    BY DEF TypeOK
  <2> QED
    BY <2>1, <2>2, <2>3, <2>4, <2>5, <2>6 DEF TypeOK, StartRound, executorVars
<1>5. LifeCycle'
  <2>1. ASSUME NEW c \in started
        PROVE  /\ pc'[c] = FirstAwait(asked[c]) /\ request'[c] = asked[c]
               /\ pc'[c] # "holdRequest" => wire'[c] = "none"
               /\ livePrice'[c] = NoPrice /\ result'[c] = "none"
    BY <2>1 DEF TypeOK, LifeCycle, InOrder, StartRound
  <2>2. ASSUME NEW c \in Calls \ started
        PROVE  UNCHANGED <<pc[c], request[c], wasApproved[c], wire[c], livePrice[c], result[c]>>
    BY <2>2 DEF StartRound
  <2>3. ASSUME NEW c \in started PROVE InOrder(c)'
    <3>1. asked[c] \in Request
      BY <1>3
    <3> QED
      BY <2>1, <3>1, FirstAwaitIsAwait DEF InOrder
  <2>4. ASSUME NEW c \in Calls \ started PROVE InOrder(c)'
    BY <2>2, <2>4 DEF LifeCycle, InOrder
  <2> QED
    BY <2>3, <2>4 DEF LifeCycle
<1> QED
  BY <1>4, <1>5

LEMMA StepLifeCycle ==
    ASSUME TypeOK, LifeCycle, NEW c \in Calls, Step(c)
    PROVE  TypeOK' /\ LifeCycle'
<1> USE DEF Finish, executorVars, localVars, historyVars, Awaits, Results
<1>0. pc[c] # "idle" => request[c] \in Request
  BY DEF LifeCycle, InOrder
<1>1. CASE SearchAnswered(c)
  <2>1. request[c].found \subseteq Candidates
    BY <1>0, <1>1, RequestFields, SearchResultsAssumption DEF SearchAnswered, LifeCycle, InOrder
  <2>2. TypeOK'
    BY <1>1, <2>1 DEF TypeOK, SearchAnswered
  <2> QED
    BY <1>1, <2>2 DEF TypeOK, LifeCycle, InOrder, SearchAnswered
<1>2. CASE CallFailed(c)
  BY <1>2 DEF TypeOK, LifeCycle, InOrder, CallFailed
<1>3. CASE CheckPriceAnswered(c)
  <2>1. LivePrice[request[c].candidateId] \in Price
    BY <1>0, <1>3, RequestFields, LivePriceAssumption DEF CheckPriceAnswered, LifeCycle, InOrder
  <2>2. TypeOK'
    BY <1>3, <2>1 DEF TypeOK, CheckPriceAnswered
  <2> QED
    BY <1>3, <2>2 DEF TypeOK, LifeCycle, InOrder, CheckPriceAnswered
<1>4. CASE GatewayDecides(c)
  BY <1>4 DEF TypeOK, LifeCycle, InOrder, GatewayDecides
<1>5. CASE HoldConfirmed(c)
  <2>1. TypeOK'
    BY <1>5 DEF TypeOK, HoldConfirmed, ConsumeApproval
  <2> QED
    BY <1>5, <2>1 DEF TypeOK, LifeCycle, InOrder, HoldConfirmed
<1>6. CASE HoldGated(c)
  BY <1>6 DEF TypeOK, LifeCycle, InOrder, HoldGated
<1>7. CASE HoldUnanswered(c)
  BY <1>7 DEF TypeOK, LifeCycle, InOrder, HoldUnanswered
<1>8. CASE RecordHoldAnswered(c)
  <2>1. TypeOK'
    BY <1>8 DEF TypeOK, RecordHoldAnswered
  <2> QED
    BY <1>8, <2>1 DEF TypeOK, LifeCycle, InOrder, RecordHoldAnswered
<1>9. CASE ApproveHoldAnswered(c)
  <2>1. request[c].session \in Sessions
    BY <1>0, <1>9, RequestFields DEF ApproveHoldAnswered
  <2>2. TypeOK'
    BY <1>9, <2>1 DEF TypeOK, ApproveHoldAnswered
  <2> QED
    BY <1>9, <2>2 DEF TypeOK, LifeCycle, InOrder, ApproveHoldAnswered
<1> QED
  BY <1>1, <1>2, <1>3, <1>4, <1>5, <1>6, <1>7, <1>8, <1>9 DEF Step

LEMMA RecycleLifeCycle ==
    ASSUME TypeOK, LifeCycle, Recycle
    PROVE  TypeOK' /\ LifeCycle'
<1>1. TypeOK'
  BY DEF TypeOK, Recycle, Awaits, historyVars
<1>2. LifeCycle'
  BY DEF TypeOK, LifeCycle, InOrder, Recycle, Awaits
<1> QED
  BY <1>1, <1>2

LEMMA LifeCycleInvariant == Spec => [](TypeOK /\ LifeCycle)
<1>1. Init => TypeOK /\ LifeCycle
  BY DEF Init, TypeOK, LifeCycle, InOrder, Results, Awaits
<1>2. TypeOK /\ LifeCycle /\ [Next]_vars => TypeOK' /\ LifeCycle'
  <2> SUFFICES ASSUME TypeOK, LifeCycle, [Next]_vars PROVE TypeOK' /\ LifeCycle'
    OBVIOUS
  <2>1. CASE UNCHANGED vars
    BY <2>1 DEF TypeOK, LifeCycle, InOrder, vars, executorVars, localVars, historyVars
  <2> QED
    BY <2>1, StartRoundLifeCycle, StepLifeCycle, RecycleLifeCycle DEF Next
<1> QED
  BY <1>1, <1>2, PTL DEF Spec

\* The variables keep their types.
THEOREM TypeCorrect == Spec => []TypeOK
  BY LifeCycleInvariant, PTL

-----------------------------------------------------------------------------
\* What any step may do to a call d: what the call asks for is settled once it
\* has started, its price once it is asked for, and a decision once it is made.
Effects(d) ==
    /\ pc[d] # "idle" =>
          request'[d] = request[d] /\ wasApproved'[d] = wasApproved[d]
    /\ livePrice'[d] # livePrice[d] =>
          pc[d] = "checkPrice" /\ livePrice'[d] = LivePrice[request[d].candidateId]
    /\ wire'[d] \in {"placed", "denied"} =>
          wire'[d] = wire[d] \/ (wire[d] = "sent" /\ (wire'[d] = "placed" <=> Permits(Asked(d))))
    /\ wire[d] = "placed" => wire'[d] = "placed"
    /\ pc'[d] = "recordHold" =>
          pc[d] = "recordHold" \/ (wire[d] = "placed" /\ livePrice[d] # NoPrice)
    /\ result'[d] \in {"askCaller", "searchAgain"} =>
          result'[d] = result[d] \/ (pc[d] = "holdRequest" /\ wire[d] = "denied")
    /\ result'[d] = "held" =>
          result[d] = "held" \/ wire[d] = "placed" \/ pc[d] = "recordHold"
    /\ d \in recorded' => d \in recorded \/ pc[d] = "recordHold"
    /\ wasApproved'[d] => wasApproved[d] \/ request'[d].session \in approvedSessions

LEMMA StartRoundEffects ==
    ASSUME TypeOK, LifeCycle, NEW s \in Sessions, StartRound(s), NEW d \in Calls
    PROVE  Effects(d)
<1>1. PICK started \in SUBSET {c \in Calls : pc[c] = "idle"} :
         \E asked \in [started -> {r \in Request : r.session = s}] :
            ExecuteAll(s, started, asked)
  BY DEF StartRound
<1>2. PICK asked \in [started -> {r \in Request : r.session = s}] :
         ExecuteAll(s, started, asked)
  BY <1>1
<1>3. UNCHANGED <<livePrice, result, recorded>>
  BY DEF StartRound
<1>4. CASE d \in started
  <2>1. pc[d] = "idle" /\ wire[d] = "none" /\ ~wasApproved[d]
    BY <1>4 DEF LifeCycle, InOrder
  <2>2. /\ pc'[d] = FirstAwait(asked[d]) /\ pc'[d] # "recordHold"
        /\ wire'[d] \in {"none", "sent"}
        /\ request'[d].session = s
        /\ wasApproved'[d] => s \in approvedSessions
    <3>1. asked[d] \in Request /\ asked[d].session = s
      BY <1>4
    <3>2. FirstAwait(asked[d]) # "recordHold"
      BY <3>1, FirstAwaitIsAwait
    <3> QED
      BY <1>2, <1>4, <2>1, <3>1, <3>2 DEF ExecuteAll, ReadApproval
  <2> QED
    BY <1>3, <2>1, <2>2 DEF Effects
<1>5. CASE d \notin started
  <2>1. UNCHANGED <<pc[d], request[d], wasApproved[d], wire[d]>>
    BY <1>2, <1>5 DEF ExecuteAll
  <2> QED
    BY <1>3, <2>1 DEF Effects
<1> QED
  BY <1>4, <1>5

LEMMA StepEffects ==
    ASSUME TypeOK, LifeCycle, NEW c \in Calls, Step(c), NEW d \in Calls
    PROVE  Effects(d)
<1> USE DEF Finish, executorVars, localVars, historyVars, TypeOK, Effects
<1>1. CASE SearchAnswered(c)
  BY <1>1 DEF SearchAnswered
<1>2. CASE CallFailed(c)
  BY <1>2 DEF CallFailed
<1>3. CASE CheckPriceAnswered(c)
  <2>1. wire[c] = "none"
    BY <1>3 DEF LifeCycle, InOrder, CheckPriceAnswered
  <2> QED
    BY <1>3, <2>1 DEF CheckPriceAnswered
<1>4. CASE GatewayDecides(c)
  BY <1>4 DEF GatewayDecides, Asked
<1>5. CASE HoldConfirmed(c)
  BY <1>5 DEF HoldConfirmed
<1>6. CASE HoldGated(c)
  BY <1>6 DEF HoldGated
<1>7. CASE HoldUnanswered(c)
  BY <1>7 DEF HoldUnanswered
<1>8. CASE RecordHoldAnswered(c)
  BY <1>8 DEF RecordHoldAnswered
<1>9. CASE ApproveHoldAnswered(c)
  BY <1>9 DEF ApproveHoldAnswered
<1> QED
  BY <1>1, <1>2, <1>3, <1>4, <1>5, <1>6, <1>7, <1>8, <1>9 DEF Step

LEMMA NextEffects ==
    ASSUME TypeOK, LifeCycle, [Next]_vars, NEW d \in Calls
    PROVE  Effects(d)
<1>1. CASE UNCHANGED vars
  BY <1>1 DEF vars, executorVars, localVars, Effects
<1>2. CASE Recycle
  BY <1>2 DEF Recycle, Effects, Awaits, TypeOK
<1> QED
  BY <1>1, <1>2, StartRoundEffects, StepEffects DEF Next

\* An approval in the executor's set was granted, and grants are not undone.
LEMMA NextApprovals ==
    ASSUME TypeOK, LifeCycle, [Next]_vars, NEW s \in Sessions
    PROVE  /\ grants'[s] >= grants[s]
           /\ s \in approvedSessions' => s \in approvedSessions \/ grants'[s] > 0
<1> USE DEF executorVars, historyVars, TypeOK
<1>1. CASE UNCHANGED vars
  BY <1>1 DEF vars
<1>2. CASE Recycle
  BY <1>2 DEF Recycle
<1>3. ASSUME NEW t \in Sessions, StartRound(t)
      PROVE UNCHANGED <<grants, approvedSessions>>
  BY <1>3 DEF StartRound
<1>4. ASSUME NEW c \in Calls, Step(c)
      PROVE \/ UNCHANGED grants /\ approvedSessions' \subseteq approvedSessions
            \/ ApproveHoldAnswered(c)
  BY <1>4 DEF Step, SearchAnswered, CallFailed, CheckPriceAnswered, GatewayDecides,
     HoldConfirmed, ConsumeApproval, HoldGated, HoldUnanswered, RecordHoldAnswered
<1>5. ASSUME NEW c \in Calls, ApproveHoldAnswered(c)
      PROVE  /\ grants'[s] >= grants[s]
             /\ s \in approvedSessions' => s \in approvedSessions \/ grants'[s] > 0
  BY <1>5 DEF ApproveHoldAnswered
<1> QED
  BY <1>1, <1>2, <1>3, <1>4, <1>5 DEF Next

-----------------------------------------------------------------------------
LEMMA InitIInv == Init => IInv
<1> SUFFICES ASSUME Init PROVE IInv
  OBVIOUS
<1>1. TypeOK /\ LifeCycle
  BY DEF Init, TypeOK, LifeCycle, InOrder, Results, Awaits
<1>2. DecidedByPolicy /\ ApprovalsWereGranted /\ PricesAreLive
  BY DEF Init, DecidedByPolicy, ApprovalsWereGranted, PricesAreLive
<1>3. CallerAskedOnlyWhenGated /\ NothingHeldOnPaper
  BY DEF Init, CallerAskedOnlyWhenGated, NothingHeldOnPaper
<1> QED
  BY <1>1, <1>2, <1>3 DEF IInv

LEMMA NextIInv ==
    ASSUME IInv, [Next]_vars, (TypeOK /\ LifeCycle)'
    PROVE  IInv'
<1> USE DEF IInv
<1>1. \A d \in Calls : InOrder(d) /\ Effects(d)
  BY NextEffects DEF LifeCycle
<1>2. DecidedByPolicy'
  <2> SUFFICES ASSUME NEW d \in Calls, wire'[d] \in {"placed", "denied"}
               PROVE  wire'[d] = "placed" <=> Permits(Asked(d))'
    BY DEF DecidedByPolicy
  <2>1. wire[d] # "none" /\ (wire'[d] = "placed" <=> Permits(Asked(d)))
    BY <1>1 DEF Effects, DecidedByPolicy
  <2>2. pc[d] \notin {"idle", "checkPrice"}
    BY <1>1, <2>1 DEF InOrder
  <2>3. UNCHANGED <<request[d], livePrice[d], wasApproved[d]>>
    BY <1>1, <2>2 DEF Effects
  <2> QED
    BY <2>1, <2>3 DEF Asked, Permits, HoldArguments, HoldThresholdPolicy, HoldApprovedPolicy
<1>3. ApprovalsWereGranted'
  <2>1. ASSUME NEW s \in approvedSessions' PROVE grants'[s] > 0
    BY <2>1, NextApprovals DEF ApprovalsWereGranted, TypeOK
  <2>2. ASSUME NEW d \in Calls, wasApproved'[d]
        PROVE  grants'[request'[d].session] > 0
    <3>1. CASE wasApproved[d]
      <4>1. request'[d] = request[d] /\ request[d].session \in Sessions
        BY <1>1, <3>1, RequestFields DEF Effects, InOrder
      <4> QED
        BY <3>1, <4>1, NextApprovals DEF ApprovalsWereGranted, TypeOK
    <3>2. CASE request'[d].session \in approvedSessions
      <4>1. request'[d].session \in Sessions
        BY <3>2 DEF TypeOK
      <4> QED
        BY <3>2, <4>1, NextApprovals DEF ApprovalsWereGranted, TypeOK
    <3> QED
      BY <1>1, <2>2, <3>1, <3>2 DEF Effects
  <2> QED
    BY <2>1, <2>2 DEF ApprovalsWereGranted
<1>4. PricesAreLive'
  <2> SUFFICES ASSUME NEW d \in Calls
               PROVE  /\ livePrice'[d] # NoPrice =>
                            livePrice'[d] = LivePrice[request'[d].candidateId]
                      /\ pc'[d] = "recordHold" =>
                            wire'[d] = "placed" /\ livePrice'[d] # NoPrice
    BY DEF PricesAreLive
  <2>1. livePrice'[d] # NoPrice => livePrice'[d] = LivePrice[request'[d].candidateId]
    <3>1. livePrice'[d] # NoPrice => pc[d] # "idle"
      BY <1>1 DEF Effects, InOrder
    <3> QED
      BY <1>1, <3>1 DEF Effects, PricesAreLive
  <2>2. ASSUME pc'[d] = "recordHold"
        PROVE  wire'[d] = "placed" /\ livePrice'[d] # NoPrice
    <3>1. wire[d] = "placed" /\ livePrice[d] # NoPrice
      BY <1>1, <2>2 DEF Effects, PricesAreLive
    <3> QED
      BY <1>1, <3>1 DEF Effects, InOrder
  <2> QED
    BY <2>1, <2>2
<1>5. CallerAskedOnlyWhenGated'
  <2> SUFFICES ASSUME NEW d \in Calls, result'[d] \in {"askCaller", "searchAgain"}
               PROVE  Gated(livePrice[d])' /\ ~wasApproved'[d]
    BY DEF CallerAskedOnlyWhenGated
  <2>1. /\ Gated(livePrice[d]) /\ ~wasApproved[d]
        /\ pc[d] \notin {"idle", "checkPrice"}
    <3>1. CASE result'[d] = result[d]
      BY <1>1, <3>1 DEF CallerAskedOnlyWhenGated, InOrder
    <3>2. CASE pc[d] = "holdRequest" /\ wire[d] = "denied"
      BY <3>2, PermitsUngatedOrApproved DEF DecidedByPolicy, Asked, TypeOK
    <3> QED
      BY <1>1, <3>1, <3>2 DEF Effects
  <2>2. livePrice'[d] = livePrice[d] /\ wasApproved'[d] = wasApproved[d]
    BY <1>1, <2>1 DEF Effects
  <2> QED
    BY <2>1, <2>2 DEF Gated
<1>6. NothingHeldOnPaper'
  <2>1. ASSUME NEW d \in Calls, result'[d] = "held" PROVE wire'[d] = "placed"
    BY <1>1, <2>1 DEF Effects, NothingHeldOnPaper, Placed, PricesAreLive
  <2>2. ASSUME NEW d \in Calls, d \in recorded'
        PROVE  wire'[d] = "placed" /\ livePrice'[d] = LivePrice[request'[d].candidateId]
    <3>1. wire[d] = "placed" /\ livePrice[d] = LivePrice[request[d].candidateId]
      BY <1>1, <2>2 DEF Effects, NothingHeldOnPaper, Placed, PricesAreLive
    <3> QED
      BY <1>1, <3>1 DEF Effects, InOrder
  <2> QED
    BY <2>1, <2>2 DEF NothingHeldOnPaper, Placed, TypeOK
<1> QED
  BY <1>2, <1>3, <1>4, <1>5, <1>6

LEMMA ExecutorInvariant == Spec => []IInv
<1>1. IInv /\ (TypeOK /\ LifeCycle)' /\ [Next]_vars => IInv'
  BY NextIInv
<1> QED
  BY <1>1, InitIInv, LifeCycleInvariant, PTL DEF Spec

\* No hold above the threshold, and none without a price, exists at the Gateway
\* in a session that was never granted an approval.
THEOREM GatedHoldsWereApprovedHolds == Spec => []GatedHoldsWereApproved
<1>1. IInv => GatedHoldsWereApproved
  <2> SUFFICES ASSUME IInv, NEW c \in Calls, wire[c] = "placed", Gated(livePrice[c])
               PROVE  grants[request[c].session] > 0
    BY DEF GatedHoldsWereApproved, Placed
  <2>1. wasApproved[c]
    BY PermitsUngatedOrApproved DEF IInv, DecidedByPolicy, Asked, TypeOK
  <2> QED
    BY <2>1 DEF IInv, ApprovalsWereGranted
<1> QED
  BY <1>1, ExecutorInvariant, PTL

\* The Caller is asked to approve exactly what needs asking: a price above the
\* threshold, and no approval carried.
THEOREM CallerAskedOnlyWhenGatedHolds == Spec => []CallerAskedOnlyWhenGated
  BY ExecutorInvariant, PTL DEF IInv

\* What is reported held, or recorded against the budget, was placed at the
\* Gateway, and recorded at the live price.
THEOREM NothingHeldOnPaperHolds == Spec => []NothingHeldOnPaper
  BY ExecutorInvariant, PTL DEF IInv

-----------------------------------------------------------------------------
(* What an approval is spent on. *)

\* A hold of session s, sent with an approval, that the executor saw confirmed.
Spent(c, s) ==
    /\ request[c].tool = "hold"
    /\ request[c].session = s
    /\ wasApproved[c]
    /\ result[c] = "held" \/ pc[c] = "recordHold"

\* Rounds in which s spent an approval, and the one it has left, were granted.
Accounted(s) ==
    /\ IsFiniteSet(ApprovedRounds(s))
    /\ IF s \in approvedSessions
       THEN Cardinality(ApprovedRounds(s)) + 1 <= grants[s]
       ELSE Cardinality(ApprovedRounds(s)) <= grants[s]

\* The running calls of a session are those of its latest round.
ActiveAreLatest ==
    \A c \in Calls : pc[c] \in Awaits => round[c] = rounds[request[c].session]

\* A running call whose approval is gone shares its round with the call that
\* spent it.
GoneWasSpentThisRound ==
    \A c \in Calls, s \in Sessions \ approvedSessions :
        pc[c] \in Awaits /\ wasApproved[c] /\ request[c].session = s
        => round[c] \in ApprovedRounds(s)

Accounting ==
    /\ \A s \in Sessions : Accounted(s)
    /\ ActiveAreLatest
    /\ GoneWasSpentThisRound

-----------------------------------------------------------------------------
LEMMA ApprovedRoundsSpent ==
    ASSUME NEW s PROVE ApprovedRounds(s) = {round[c] : c \in {d \in Calls : Spent(d, s)}}
  BY DEF ApprovedRounds, Spent

\* Accounts stay in order when rounds leave, and none is granted or restored.
LEMMA AccountedShrinks ==
    ASSUME TypeOK, NEW s \in Sessions, Accounted(s),
           ApprovedRounds(s)' \subseteq ApprovedRounds(s),
           s \in approvedSessions' => s \in approvedSessions,
           grants'[s] = grants[s]
    PROVE  Accounted(s)'
<1>1. IsFiniteSet(ApprovedRounds(s))
  BY DEF Accounted
<1>2. /\ IsFiniteSet(ApprovedRounds(s)')
      /\ Cardinality(ApprovedRounds(s)') <= Cardinality(ApprovedRounds(s))
  BY <1>1, FS_Subset
<1>3. Cardinality(ApprovedRounds(s)) \in Nat /\ Cardinality(ApprovedRounds(s)') \in Nat
  BY <1>1, <1>2, FS_CardinalityType
<1> QED
  BY <1>2, <1>3 DEF Accounted, TypeOK

\* A step that leaves the calls' standing alone leaves the spent rounds alone.
LEMMA SameRounds ==
    ASSUME NEW s,
           \A d \in Calls : Spent(d, s)' <=> Spent(d, s),
           \A d \in Calls : Spent(d, s) => round'[d] = round[d]
    PROVE  ApprovedRounds(s)' = ApprovedRounds(s)
  BY ApprovedRoundsSpent DEF ApprovedRounds, Spent

LEMMA StartRoundAccounting ==
    ASSUME TypeOK, LifeCycle, Accounting, NEW s \in Sessions, StartRound(s)
    PROVE  Accounting'
<1>1. PICK started \in SUBSET {c \in Calls : pc[c] = "idle"} :
         \E asked \in [started -> {r \in Request : r.session = s}] :
            ExecuteAll(s, started, asked)
  BY DEF StartRound
<1>2. PICK asked \in [started -> {r \in Request : r.session = s}] :
         ExecuteAll(s, started, asked)
  BY <1>1
<1>3. /\ UNCHANGED <<approvedSessions, result, grants>>
      /\ rounds'[s] = rounds[s] + 1
      /\ \A t \in Sessions \ {s} : rounds'[t] = rounds[t]
  BY DEF StartRound, executorVars, TypeOK
<1>4. ASSUME NEW c \in started
      PROVE  /\ pc[c] = "idle" /\ result[c] = "none"
             /\ pc'[c] # "recordHold" /\ request'[c].session = s
             /\ round'[c] = rounds'[s]
             /\ wasApproved'[c] => s \in approvedSessions
  <2>1. asked[c] \in Request /\ asked[c].session = s
    BY <1>4
  <2>2. FirstAwait(asked[c]) # "recordHold"
    BY <2>1, FirstAwaitIsAwait
  <2>3. pc[c] = "idle" /\ ~wasApproved[c] /\ result[c] = "none"
    BY <1>4 DEF LifeCycle, InOrder
  <2> QED
    BY <1>2, <1>3, <1>4, <2>1, <2>2, <2>3 DEF ExecuteAll, ReadApproval
<1>5. ASSUME NEW c \in Calls \ started
      PROVE  UNCHANGED <<pc[c], request[c], wasApproved[c], round[c]>>
  BY <1>2, <1>5 DEF ExecuteAll
<1>6. \A t \in Sessions : ApprovedRounds(t)' = ApprovedRounds(t)
  <2> SUFFICES ASSUME NEW t \in Sessions PROVE ApprovedRounds(t)' = ApprovedRounds(t)
    OBVIOUS
  <2>1. ASSUME NEW d \in Calls
        PROVE  /\ Spent(d, t)' <=> Spent(d, t)
               /\ Spent(d, t) => round'[d] = round[d]
    <3>1. CASE d \in started
      BY <1>3, <1>4, <3>1 DEF Spent
    <3>2. CASE d \notin started
      BY <1>3, <1>5, <3>2 DEF Spent
    <3> QED
      BY <3>1, <3>2
  <2> QED
    BY <2>1, SameRounds
<1>7. \A t \in Sessions : Accounted(t)'
  BY <1>3, <1>6, AccountedShrinks DEF Accounting
<1>8. ActiveAreLatest'
  <2> SUFFICES ASSUME NEW c \in Calls, pc'[c] \in Awaits
               PROVE  round'[c] = rounds'[request'[c].session]
    BY DEF ActiveAreLatest, Awaits
  <2>1. CASE c \in started
    BY <1>4, <2>1
  <2>2. CASE c \notin started
    <3>1. pc[c] \in Awaits /\ request[c].session # s
      BY <1>5, <2>2 DEF StartRound, Active
    <3>2. request[c].session \in Sessions
      BY <3>1, RequestFields DEF LifeCycle, InOrder, Awaits
    <3> QED
      BY <1>3, <1>5, <2>2, <3>1, <3>2 DEF Accounting, ActiveAreLatest
  <2> QED
    BY <2>1, <2>2
<1>9. GoneWasSpentThisRound'
  <2> SUFFICES ASSUME NEW c \in Calls, NEW t \in Sessions, t \notin approvedSessions',
                      pc'[c] \in Awaits, wasApproved'[c], request'[c].session = t
               PROVE  round'[c] \in ApprovedRounds(t)'
    BY DEF GoneWasSpentThisRound, Awaits
  <2>1. c \notin started
    BY <1>3, <1>4
  <2>2. round[c] \in ApprovedRounds(t)
    BY <1>3, <1>5, <2>1 DEF Accounting, GoneWasSpentThisRound
  <2> QED
    BY <1>5, <1>6, <2>1, <2>2
<1> QED
  BY <1>7, <1>8, <1>9 DEF Accounting

\* The step that confirms a hold sent with an approval spends it, unless a
\* sibling of its round has.
LEMMA ConfirmedApprovedAccounting ==
    ASSUME TypeOK, LifeCycle, Accounting, NEW c \in Calls, HoldConfirmed(c), wasApproved[c]
    PROVE  Accounting'
<1>0. PICK s \in Sessions : /\ request[c].session = s
                            /\ pc[c] = "holdRequest" /\ request[c].tool = "hold"
  BY RequestFields DEF HoldConfirmed, LifeCycle, InOrder
<1>1. /\ approvedSessions' = approvedSessions \ {s}
      /\ UNCHANGED <<request, wasApproved, round, rounds, grants>>
      /\ \A d \in Calls \ {c} : UNCHANGED <<pc[d], result[d]>>
      /\ (pc'[c] = "done" /\ result'[c] = "held") \/ pc'[c] = "recordHold"
  BY <1>0 DEF HoldConfirmed, ConsumeApproval, Finish, historyVars, TypeOK
<1>2. \A t \in Sessions, d \in Calls :
         /\ Spent(d, t) => Spent(d, t)'
         /\ Spent(d, t)' => Spent(d, t) \/ (d = c /\ t = s)
  BY <1>0, <1>1 DEF Spent, LifeCycle, InOrder
<1>3. Spent(c, s)'
  BY <1>0, <1>1 DEF Spent
<1>4. \A t \in Sessions \ {s} : ApprovedRounds(t)' = ApprovedRounds(t)
  BY <1>1, <1>2, SameRounds
<1>5. ApprovedRounds(s)' = ApprovedRounds(s) \cup {round[c]}
  <2>1. {d \in Calls : Spent(d, s)'} = {d \in Calls : Spent(d, s)} \cup {c}
    BY <1>0, <1>2, <1>3
  <2>2. ApprovedRounds(s)' = {round[d] : d \in {e \in Calls : Spent(e, s)'}}
    BY <1>1, ApprovedRoundsSpent DEF ApprovedRounds, Spent
  <2> QED
    BY <2>1, <2>2, ApprovedRoundsSpent
<1>6. Accounted(s)'
  <2>1. Accounted(s) /\ IsFiniteSet(ApprovedRounds(s))
    BY <1>0 DEF Accounting, Accounted
  <2>2. Cardinality(ApprovedRounds(s)) \in Nat /\ grants[s] \in Nat
    BY <1>0, <2>1, FS_CardinalityType DEF TypeOK
  <2>3. CASE s \in approvedSessions
    <3>1. /\ IsFiniteSet(ApprovedRounds(s)')
          /\ Cardinality(ApprovedRounds(s)') <= Cardinality(ApprovedRounds(s)) + 1
      <4>1. \A S, x : IsFiniteSet(S) =>
                /\ IsFiniteSet(S \cup {x})
                /\ Cardinality(S \cup {x}) \in {Cardinality(S), Cardinality(S) + 1}
        BY FS_AddElement
      <4>2. /\ IsFiniteSet(ApprovedRounds(s)')
            /\ Cardinality(ApprovedRounds(s)') \in
                  {Cardinality(ApprovedRounds(s)), Cardinality(ApprovedRounds(s)) + 1}
        BY <1>5, <2>1, <4>1, Zenon
      <4> QED
        BY <2>2, <4>2
    <3>2. Cardinality(ApprovedRounds(s)') \in Nat
      BY <3>1, FS_CardinalityType
    <3> QED
      BY <1>1, <2>1, <2>2, <2>3, <3>1, <3>2 DEF Accounted
  <2>4. CASE s \notin approvedSessions
    <3>1. round[c] \in ApprovedRounds(s)
      BY <1>0, <2>4 DEF Accounting, GoneWasSpentThisRound, Awaits
    <3>2. ApprovedRounds(s)' = ApprovedRounds(s)
      BY <1>5, <3>1
    <3> QED
      BY <1>1, <2>1, <2>4, <3>2 DEF Accounted
  <2> QED
    BY <2>3, <2>4
<1>7. \A t \in Sessions \ {s} : Accounted(t)'
  BY <1>1, <1>4, AccountedShrinks DEF Accounting
<1>8. ActiveAreLatest'
  BY <1>0, <1>1 DEF Accounting, ActiveAreLatest, Awaits
<1>9. GoneWasSpentThisRound'
  <2> SUFFICES ASSUME NEW d \in Calls, NEW t \in Sessions, t \notin approvedSessions',
                      pc'[d] \in Awaits, wasApproved'[d], request'[d].session = t
               PROVE  round'[d] \in ApprovedRounds(t)'
    BY DEF GoneWasSpentThisRound, Awaits
  <2>1. pc[d] \in Awaits /\ wasApproved[d] /\ request[d].session = t
    BY <1>0, <1>1 DEF Awaits
  <2>2. CASE t = s
    BY <1>0, <1>1, <1>5, <2>1, <2>2 DEF Accounting, ActiveAreLatest, Awaits
  <2>3. CASE t # s
    BY <1>1, <1>4, <2>1, <2>3 DEF Accounting, GoneWasSpentThisRound
  <2> QED
    BY <2>2, <2>3
<1> QED
  BY <1>0, <1>6, <1>7, <1>8, <1>9 DEF Accounting

\* A step of one call that confirms no hold sent with an approval and grants
\* none: the accounts stand.
LEMMA NeutralAccounting ==
    ASSUME TypeOK, LifeCycle, Accounting,
           UNCHANGED <<approvedSessions, request, wasApproved, round, rounds, grants>>,
           \A d \in Calls : pc'[d] \in Awaits => pc[d] \in Awaits,
           \A d \in Calls, t \in Sessions : Spent(d, t)' <=> Spent(d, t)
    PROVE  Accounting'
<1>1. \A t \in Sessions : ApprovedRounds(t)' = ApprovedRounds(t)
  BY SameRounds
<1>2. \A t \in Sessions : Accounted(t)'
  BY <1>1, AccountedShrinks DEF Accounting
<1> QED
  BY <1>1, <1>2 DEF Accounting, ActiveAreLatest, GoneWasSpentThisRound, Awaits

LEMMA GrantAccounting ==
    ASSUME TypeOK, LifeCycle, Accounting, NEW c \in Calls, ApproveHoldAnswered(c)
    PROVE  Accounting'
<1>0. PICK s \in Sessions : request[c].session = s /\ pc[c] = "approveHold"
  BY RequestFields DEF ApproveHoldAnswered, LifeCycle, InOrder
<1>1. /\ approvedSessions' = approvedSessions \cup {s}
      /\ UNCHANGED <<request, wasApproved, round, rounds>>
      /\ grants'[s] = grants[s] + 1
      /\ \A t \in Sessions \ {s} : grants'[t] = grants[t]
      /\ \A d \in Calls \ {c} : UNCHANGED <<pc[d], result[d]>>
      /\ pc'[c] = "done" /\ result'[c] = "approved"
  BY <1>0 DEF ApproveHoldAnswered, Finish, TypeOK
<1>2. \A t \in Sessions, d \in Calls : Spent(d, t)' <=> Spent(d, t)
  BY <1>0, <1>1 DEF Spent, LifeCycle, InOrder
<1>3. \A t \in Sessions : ApprovedRounds(t)' = ApprovedRounds(t)
  BY <1>1, <1>2, SameRounds
<1>4. Accounted(s)'
  <2>1. Accounted(s) /\ IsFiniteSet(ApprovedRounds(s))
    BY <1>0 DEF Accounting, Accounted
  <2>2. Cardinality(ApprovedRounds(s)) \in Nat /\ grants[s] \in Nat
    BY <1>0, <2>1, FS_CardinalityType DEF TypeOK
  <2> QED
    BY <1>0, <1>1, <1>3, <2>1, <2>2 DEF Accounted
<1>5. \A t \in Sessions \ {s} : Accounted(t)'
  BY <1>1, <1>3, AccountedShrinks DEF Accounting
<1>6. ActiveAreLatest' /\ GoneWasSpentThisRound'
  BY <1>0, <1>1, <1>3 DEF Accounting, ActiveAreLatest, GoneWasSpentThisRound, Awaits
<1> QED
  BY <1>0, <1>4, <1>5, <1>6 DEF Accounting

LEMMA RecycleAccounting ==
    ASSUME TypeOK, LifeCycle, Accounting, Recycle
    PROVE  Accounting'
<1>1. /\ approvedSessions' = {}
      /\ UNCHANGED <<request, wasApproved, result, round, rounds, grants>>
      /\ \A d \in Calls : pc'[d] \notin Awaits
  BY DEF Recycle, historyVars, Awaits
<1>2. \A t \in Sessions : ApprovedRounds(t)' \subseteq ApprovedRounds(t)
  <2>1. \A t \in Sessions, d \in Calls : Spent(d, t)' => Spent(d, t)
    BY <1>1 DEF Spent, Awaits
  <2> QED
    BY <1>1, <2>1 DEF ApprovedRounds, Spent
<1>3. \A t \in Sessions : Accounted(t)'
  BY <1>1, <1>2, AccountedShrinks DEF Accounting
<1> QED
  BY <1>1, <1>3 DEF Accounting, ActiveAreLatest, GoneWasSpentThisRound

\* Every other step of a call leaves the accounts alone.
LEMMA StepAccounting ==
    ASSUME TypeOK, LifeCycle, Accounting, NEW c \in Calls, Step(c)
    PROVE  Accounting'
<1> USE DEF Finish, executorVars, localVars, historyVars
<1>1. CASE HoldConfirmed(c) /\ wasApproved[c]
  BY <1>1, ConfirmedApprovedAccounting
<1>2. CASE ApproveHoldAnswered(c)
  BY <1>2, GrantAccounting
<1>3. CASE ~ApproveHoldAnswered(c) /\ ~(HoldConfirmed(c) /\ wasApproved[c])
  <2>1. UNCHANGED <<approvedSessions, request, wasApproved, round, rounds, grants>>
    BY <1>3 DEF Step, SearchAnswered, CallFailed, CheckPriceAnswered, GatewayDecides,
       HoldConfirmed, ConsumeApproval, HoldGated, HoldUnanswered, RecordHoldAnswered
  <2>2. \A d \in Calls : pc'[d] \in Awaits => pc[d] \in Awaits
    BY <1>3 DEF Step, SearchAnswered, CallFailed, CheckPriceAnswered, GatewayDecides,
       HoldConfirmed, HoldGated, HoldUnanswered, RecordHoldAnswered, TypeOK, Awaits
  <2>3. ASSUME NEW d \in Calls, NEW t \in Sessions
        PROVE  Spent(d, t)' <=> Spent(d, t)
    <3>1. ~wasApproved[d] \/ (result'[d] = "held" \/ pc'[d] = "recordHold"
                              <=> result[d] = "held" \/ pc[d] = "recordHold")
      <4>1. InOrder(d)
        BY DEF LifeCycle
      <4> QED
        BY <1>3, <4>1 DEF Step, SearchAnswered, CallFailed, CheckPriceAnswered,
           GatewayDecides, HoldConfirmed, HoldGated, HoldUnanswered, RecordHoldAnswered,
           TypeOK, InOrder
    <3> QED
      BY <2>1, <3>1 DEF Spent
  <2> QED
    BY <2>1, <2>2, <2>3, NeutralAccounting
<1> QED
  BY <1>1, <1>2, <1>3

LEMMA InitAccounting == Init => Accounting
<1> SUFFICES ASSUME Init PROVE Accounting
  OBVIOUS
<1>1. \A s \in Sessions : ApprovedRounds(s) = {}
  BY DEF Init, ApprovedRounds
<1>2. \A s \in Sessions : Accounted(s)
  BY <1>1, FS_EmptySet DEF Init, Accounted
<1> QED
  BY <1>2 DEF Init, Accounting, ActiveAreLatest, GoneWasSpentThisRound, Awaits

LEMMA AccountingInvariant == Spec => []Accounting
<1>1. TypeOK /\ LifeCycle /\ Accounting /\ [Next]_vars => Accounting'
  <2> SUFFICES ASSUME TypeOK, LifeCycle, Accounting, [Next]_vars PROVE Accounting'
    OBVIOUS
  <2>1. CASE UNCHANGED vars
    <3>1. UNCHANGED <<approvedSessions, request, wasApproved, round, rounds, grants,
                      pc, result>>
      BY <2>1 DEF vars, executorVars, localVars, historyVars
    <3> QED
      BY <3>1, NeutralAccounting DEF Spent
  <2> QED
    BY <2>1, StartRoundAccounting, StepAccounting, RecycleAccounting DEF Next
<1> QED
  BY <1>1, InitAccounting, LifeCycleInvariant, PTL DEF Spec

\* However rounds, failures, grants and restarts interleave, the number of
\* rounds that spent an approval of a session never exceeds its grants.
THEOREM OneRoundPerApprovalHolds == Spec => []OneRoundPerApproval
<1>1. TypeOK /\ Accounting => OneRoundPerApproval
  <2> SUFFICES ASSUME TypeOK, Accounting, NEW s \in Sessions
               PROVE  Cardinality(ApprovedRounds(s)) <= grants[s]
    BY DEF OneRoundPerApproval
  <2>1. Accounted(s) /\ Cardinality(ApprovedRounds(s)) \in Nat
    BY FS_CardinalityType DEF Accounting, Accounted
  <2> QED
    BY <2>1 DEF Accounted, TypeOK
<1> QED
  BY <1>1, AccountingInvariant, LifeCycleInvariant, PTL

-----------------------------------------------------------------------------
\* A running call has seen the session's last grant, or an approve-hold of its
\* own round has been granted since.
GrantsSeen ==
    \A c \in Calls : pc[c] \in Awaits => SentWithLatest(c) \/ GrantedInRoundOf(c)

\* An approve-hold that has been granted is over.
LEMMA GrantedIsOver ==
    ASSUME LifeCycle, NEW d \in Calls, result[d] = "approved"
    PROVE  pc[d] = "done"
  BY DEF LifeCycle, InOrder

\* What a granted approve-hold was for, and in which round, is settled.
LEMMA GrantsStay ==
    ASSUME NEW c \in Calls, GrantedInRoundOf(c),
           request'[c].session = request[c].session, round'[c] = round[c],
           \A d \in Calls : result[d] = "approved" =>
               result'[d] = "approved" /\ request'[d] = request[d] /\ round'[d] = round[d]
    PROVE  GrantedInRoundOf(c)'
  BY DEF GrantedInRoundOf

LEMMA StartRoundGrants ==
    ASSUME TypeOK, LifeCycle, GrantsSeen, NEW s \in Sessions, StartRound(s)
    PROVE  GrantsSeen'
<1>1. PICK started \in SUBSET {c \in Calls : pc[c] = "idle"} :
         \E asked \in [started -> {r \in Request : r.session = s}] :
            ExecuteAll(s, started, asked)
  BY DEF StartRound
<1>2. PICK asked \in [started -> {r \in Request : r.session = s}] :
         ExecuteAll(s, started, asked)
  BY <1>1
<1>3. UNCHANGED <<result, grants>>
  BY DEF StartRound
<1>4. ASSUME NEW c \in started
      PROVE  pc[c] = "idle" /\ grantsSeen'[c] = grants[s] /\ request'[c].session = s
  BY <1>2, <1>4 DEF ExecuteAll
<1>5. ASSUME NEW c \in Calls \ started
      PROVE  UNCHANGED <<pc[c], request[c], round[c], grantsSeen[c]>>
  BY <1>2, <1>5 DEF ExecuteAll
<1>6. \A d \in Calls : result[d] = "approved" =>
         result'[d] = "approved" /\ request'[d] = request[d] /\ round'[d] = round[d]
  BY <1>3, <1>4, <1>5, GrantedIsOver
<1>7. ASSUME NEW c \in Calls, pc'[c] \in Awaits'
      PROVE  SentWithLatest(c)' \/ GrantedInRoundOf(c)'
  <2>1. CASE c \in started
    BY <1>3, <1>4, <2>1 DEF SentWithLatest
  <2>2. CASE c \notin started
    <3>1. UNCHANGED <<pc[c], request[c], round[c], grantsSeen[c]>> /\ pc[c] \in Awaits
      BY <1>5, <1>7, <2>2 DEF Awaits
    <3>2. CASE SentWithLatest(c)
      BY <1>3, <3>1, <3>2 DEF SentWithLatest
    <3>3. CASE GrantedInRoundOf(c)
      BY <1>6, <3>1, <3>3, GrantsStay
    <3> QED
      BY <3>1, <3>2, <3>3 DEF GrantsSeen
  <2> QED
    BY <2>1, <2>2
<1> QED
  BY <1>7 DEF GrantsSeen

\* A grant is one of the round of all that run in its session.
LEMMA GrantGrants ==
    ASSUME TypeOK, LifeCycle, ActiveAreLatest, GrantsSeen, NEW e \in Calls,
           ApproveHoldAnswered(e)
    PROVE  GrantsSeen'
<1>1. PICK s \in Sessions : request[e].session = s /\ pc[e] = "approveHold"
  BY RequestFields DEF ApproveHoldAnswered, LifeCycle, InOrder
<1>2. /\ UNCHANGED <<request, round, grantsSeen>>
      /\ \A t \in Sessions \ {s} : grants'[t] = grants[t]
      /\ pc'[e] = "done" /\ result'[e] = "approved"
      /\ \A d \in Calls \ {e} : pc'[d] = pc[d] /\ result'[d] = result[d]
  BY <1>1 DEF ApproveHoldAnswered, Finish, TypeOK
<1>3. ASSUME NEW c \in Calls, pc'[c] \in Awaits'
      PROVE  SentWithLatest(c)' \/ GrantedInRoundOf(c)'
  <2>1. c # e /\ pc[c] \in Awaits
    BY <1>2, <1>3 DEF Awaits
  <2>2. CASE request[c].session = s
    <3>1. round[c] = rounds[s] /\ round[e] = rounds[s]
      BY <1>1, <2>1, <2>2 DEF ActiveAreLatest, Awaits
    <3> QED
      BY <1>1, <1>2, <2>2, <3>1 DEF GrantedInRoundOf
  <2>3. CASE request[c].session # s
    <3>1. request[c].session \in Sessions
      BY <2>1, RequestFields DEF LifeCycle, InOrder, Awaits
    <3>2. CASE SentWithLatest(c)
      BY <1>2, <2>3, <3>1, <3>2 DEF SentWithLatest
    <3>3. CASE GrantedInRoundOf(c)
      BY <1>2, <3>3, GrantsStay
    <3> QED
      BY <2>1, <3>2, <3>3 DEF GrantsSeen
  <2> QED
    BY <2>2, <2>3
<1> QED
  BY <1>3 DEF GrantsSeen

\* A step that grants nothing and starts nothing.
LEMMA NeutralGrants ==
    ASSUME GrantsSeen, UNCHANGED <<request, round, grants, grantsSeen>>,
           \A d \in Calls : pc'[d] \in Awaits => pc[d] \in Awaits,
           \A d \in Calls : result[d] = "approved" => result'[d] = "approved"
    PROVE  GrantsSeen'
<1>1. ASSUME NEW c \in Calls, pc'[c] \in Awaits'
      PROVE  SentWithLatest(c)' \/ GrantedInRoundOf(c)'
  <2>1. pc[c] \in Awaits
    BY <1>1 DEF Awaits
  <2>2. CASE SentWithLatest(c)
    BY <2>2 DEF SentWithLatest
  <2>3. CASE GrantedInRoundOf(c)
    BY <2>3, GrantsStay
  <2> QED
    BY <2>1, <2>2, <2>3 DEF GrantsSeen
<1> QED
  BY <1>1 DEF GrantsSeen

LEMMA StepGrants ==
    ASSUME TypeOK, LifeCycle, ActiveAreLatest, GrantsSeen, NEW e \in Calls, Step(e)
    PROVE  GrantsSeen'
<1>1. CASE ApproveHoldAnswered(e)
  BY <1>1, GrantGrants
<1>2. CASE ~ApproveHoldAnswered(e)
  <2> USE DEF Finish, executorVars, localVars, historyVars
  <2>1. UNCHANGED <<request, round, grants, grantsSeen>>
    BY <1>2 DEF Step, SearchAnswered, CallFailed, CheckPriceAnswered, GatewayDecides,
       HoldConfirmed, HoldGated, HoldUnanswered, RecordHoldAnswered
  <2>2. \A d \in Calls : pc'[d] \in Awaits => pc[d] \in Awaits
    BY <1>2 DEF Step, SearchAnswered, CallFailed, CheckPriceAnswered, GatewayDecides,
       HoldConfirmed, HoldGated, HoldUnanswered, RecordHoldAnswered, TypeOK, Awaits
  <2>3. ASSUME NEW d \in Calls, result[d] = "approved"
        PROVE  result'[d] = "approved"
    <3>1. pc[d] = "done"
      BY <2>3, GrantedIsOver
    <3> QED
      BY <1>2, <2>3, <3>1 DEF Step, SearchAnswered, CallFailed, CheckPriceAnswered,
         GatewayDecides, HoldConfirmed, HoldGated, HoldUnanswered, RecordHoldAnswered, TypeOK
  <2> QED
    BY <2>1, <2>2, <2>3, NeutralGrants
<1> QED
  BY <1>1, <1>2

LEMMA NextGrants ==
    ASSUME TypeOK, LifeCycle, Accounting, GrantsSeen, [Next]_vars
    PROVE  GrantsSeen'
<1>1. CASE UNCHANGED vars
  <2>1. UNCHANGED <<request, round, grants, grantsSeen, pc, result>>
    BY <1>1 DEF vars, localVars, historyVars
  <2> QED
    BY <2>1, NeutralGrants
<1>2. CASE Recycle
  BY <1>2 DEF Recycle, GrantsSeen, Awaits, TypeOK
<1> QED
  BY <1>1, <1>2, StartRoundGrants, StepGrants DEF Next, Accounting

\* Only the confirmation of a hold that was sent with it, the end of the process,
\* or, if it was granted while siblings of its own round were under way, the
\* confirmation of one of these takes a session's approval away
\* (booking-tool-executor.ts, consumeApproval).
THEOREM ApprovalSurvivesFailureHolds == Spec => ApprovalSurvivesFailure
<1>1. TypeOK /\ GrantsSeen /\ [Next]_vars => [LosesApprovalBySpending]_vars
  <2> SUFFICES ASSUME TypeOK, GrantsSeen, [Next]_vars, ~Recycle,
                      NEW s \in approvedSessions, s \notin approvedSessions'
               PROVE  \E c \in Calls : /\ HoldConfirmed(c)
                                       /\ request[c].session = s
                                       /\ wasApproved[c]
                                       /\ SentWithLatest(c) \/ GrantedInRoundOf(c)
    BY DEF LosesApprovalBySpending
  <2>1. PICK c \in Calls : Step(c)
    BY DEF Next, StartRound, vars, executorVars
  <2>2. HoldConfirmed(c)
    BY <2>1 DEF Step, SearchAnswered, CallFailed, CheckPriceAnswered, GatewayDecides,
       HoldGated, HoldUnanswered, RecordHoldAnswered, ApproveHoldAnswered, executorVars
  <2>3. pc[c] \in Awaits
    BY <2>2 DEF HoldConfirmed, Awaits
  <2>4. request[c].session = s /\ wasApproved[c]
    BY <2>2 DEF HoldConfirmed, ConsumeApproval
  <2> QED
    BY <2>2, <2>3, <2>4 DEF GrantsSeen
<1>2. Init => GrantsSeen
  BY DEF Init, GrantsSeen, Awaits
<1>3. TypeOK /\ LifeCycle /\ Accounting /\ GrantsSeen /\ [Next]_vars => GrantsSeen'
  BY NextGrants
<1> QED
  BY <1>1, <1>2, <1>3, AccountingInvariant, LifeCycleInvariant, PTL
     DEF Spec, ApprovalSurvivesFailure
=============================================================================
