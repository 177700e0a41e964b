------------------------- MODULE SessionLockProofs -------------------------
(***************************************************************************)
(* The promise chain keeps the turns of a session apart and serves them in *)
(* arrival order, for any number of calls and sessions.                    *)
(*                                                                         *)
(* MutualExclusion is not inductive by itself: that no two calls run       *)
(* together follows from where each captured promise sits in the chain.    *)
(* IInv says that tickets number the chain of a session without gaps, that *)
(* each call waits on the call one ticket ahead, and that the settled      *)
(* calls are exactly those with a ticket up to completed.                  *)
(***************************************************************************)
EXTENDS SessionLock, TLAPS

Arrived(c) == promise[c] # "none"

\* Tickets are given to the calls that have arrived, no ticket to two calls.
TicketsNumberArrivals ==
    /\ \A c \in Calls :
         IF Arrived(c) THEN ticket[c] \in 1..issued[SessionOf[c]] ELSE ticket[c] = 0
    /\ \A c, d \in Calls :
         Arrived(c) /\ SessionOf[c] = SessionOf[d] /\ ticket[c] = ticket[d] => c = d

\* The end of a session's chain is the call that arrived last.
ChainEndsAtLastArrival ==
    \A s \in Sessions :
        IF queueBySessionId[s] = NoCall
        THEN issued[s] = 0
        ELSE /\ Arrived(queueBySessionId[s])
             /\ SessionOf[queueBySessionId[s]] = s
             /\ ticket[queueBySessionId[s]] = issued[s]

\* Each call hangs on the promise of the call one ticket ahead of it.
ChainHasNoGaps ==
    \A c \in Calls :
        Arrived(c) =>
            IF previous[c] = NoCall
            THEN ticket[c] = 1
            ELSE /\ Arrived(previous[c])
                 /\ SessionOf[previous[c]] = SessionOf[c]
                 /\ ticket[c] = ticket[previous[c]] + 1

\* The calls over are those with the first tickets, and the one running is next.
ServedInOrder ==
    /\ \A s \in Sessions : completed[s] <= issued[s]
    /\ \A c \in Calls :
         Arrived(c) => (Settled(c) <=> ticket[c] <= completed[SessionOf[c]])
    /\ \A c \in Running : ticket[c] = completed[SessionOf[c]] + 1

IInv ==
    /\ TypeOK
    /\ TicketsNumberArrivals
    /\ ChainEndsAtLastArrival
    /\ ChainHasNoGaps
    /\ ServedInOrder

-----------------------------------------------------------------------------
\* The variables keep their types.
THEOREM TypeCorrect == Spec => []TypeOK
<1>1. Init => TypeOK
  BY DEF Init, TypeOK
<1>2. TypeOK /\ [Next]_vars => TypeOK'
  <2> SUFFICES ASSUME TypeOK, [Next]_vars PROVE TypeOK'
    OBVIOUS
  <2>1. ASSUME NEW c \in Calls, RunExclusive(c) PROVE TypeOK'
    <3>1. SessionOf[c] \in Sessions
      BY SessionOfAssumption
    <3>2. /\ queueBySessionId' \in [Sessions -> Calls \cup {NoCall}]
          /\ previous' \in [Calls -> Calls \cup {NoCall}]
      BY <2>1, <3>1 DEF TypeOK, RunExclusive, ExtendChain
    <3>3. promise' \in [Calls -> {"none"} \cup Unsettled \cup Outcomes]
      BY <2>1 DEF TypeOK, RunExclusive, Unsettled
    <3>4. /\ ticket' \in [Calls -> Nat]
          /\ issued' \in [Sessions -> Nat]
          /\ completed' \in [Sessions -> Nat]
      BY <2>1, <3>1 DEF TypeOK, RunExclusive
    <3> QED
      BY <3>2, <3>3, <3>4 DEF TypeOK
  <2>2. ASSUME NEW c \in Calls, StartFn(c) PROVE TypeOK'
    BY <2>2 DEF TypeOK, StartFn, historyVars, Unsettled
  <2>3. ASSUME NEW c \in Calls, NEW outcome \in Outcomes, SettleFn(c, outcome)
        PROVE TypeOK'
    <3>1. completed' \in [Sessions -> Nat]
      <4>1. SessionOf[c] \in Sessions
        BY SessionOfAssumption
      <4> QED
        BY <2>3, <4>1 DEF TypeOK, SettleFn
    <3>2. promise' \in [Calls -> {"none"} \cup Unsettled \cup Outcomes]
      BY <2>3 DEF TypeOK, SettleFn
    <3> QED
      BY <2>3, <3>1, <3>2 DEF TypeOK, SettleFn
  <2>4. CASE UNCHANGED vars
    BY <2>4 DEF TypeOK, vars
  <2> QED
    BY <2>1, <2>2, <2>3, <2>4 DEF Next, AllOver
<1> QED
  BY <1>1, <1>2, PTL DEF Spec

LEMMA InitIInv == Init => IInv
<1> SUFFICES ASSUME Init PROVE IInv
  OBVIOUS
<1>1. TypeOK
  BY DEF Init, TypeOK
<1>2. TicketsNumberArrivals /\ ChainEndsAtLastArrival /\ ChainHasNoGaps
  BY DEF Init, TicketsNumberArrivals, ChainEndsAtLastArrival, ChainHasNoGaps, Arrived
<1>3. ServedInOrder
  BY SessionOfAssumption DEF Init, ServedInOrder, Arrived, Running
<1> QED
  BY <1>1, <1>2, <1>3 DEF IInv

\* A call that arrives becomes the end of its session's chain.
LEMMA RunExclusiveIInv ==
    ASSUME IInv, NEW c \in Calls, RunExclusive(c), TypeOK'
    PROVE  IInv'
<1> DEFINE s == SessionOf[c]
<1>a. s \in Sessions
  BY SessionOfAssumption
<1> USE SessionOfAssumption DEF TypeOK, IInv, RunExclusive, ExtendChain, Arrived
<1>1. /\ ticket'[c] = issued[s] + 1 /\ issued'[s] = issued[s] + 1
      /\ promise[c] = "none" /\ promise'[c] = "waiting"
      /\ \A d \in Calls \ {c} : ticket'[d] = ticket[d] /\ promise'[d] = promise[d]
                                /\ previous'[d] = previous[d]
      /\ \A t \in Sessions \ {s} : issued'[t] = issued[t]
                                   /\ queueBySessionId'[t] = queueBySessionId[t]
      /\ previous'[c] = queueBySessionId[s] /\ queueBySessionId'[s] = c
      /\ completed' = completed
  BY <1>a
<1>2. \A d \in Calls : Arrived(d) => ticket[d] \in 1..issued[SessionOf[d]]
  BY DEF TicketsNumberArrivals
<1>3. TicketsNumberArrivals'
  BY <1>a, <1>1, <1>2 DEF TicketsNumberArrivals
<1>4. ChainEndsAtLastArrival'
  BY <1>a, <1>1, NoCallAssumption DEF ChainEndsAtLastArrival
<1>5. ChainHasNoGaps'
  <2> SUFFICES ASSUME NEW d \in Calls, Arrived(d)'
               PROVE  IF previous'[d] = NoCall
                      THEN ticket'[d] = 1
                      ELSE /\ Arrived(previous[d])'
                           /\ SessionOf[previous'[d]] = SessionOf[d]
                           /\ ticket'[d] = ticket'[previous'[d]] + 1
    BY DEF ChainHasNoGaps
  <2>1. CASE d = c
    BY <2>1, <1>a, <1>1 DEF ChainEndsAtLastArrival
  <2>2. CASE d # c
    BY <2>2, <1>a, <1>1 DEF ChainHasNoGaps
  <2> QED
    BY <2>1, <2>2
<1>6. ServedInOrder'
  <2>1. \A t \in Sessions : completed'[t] <= issued'[t]
    BY <1>a, <1>1 DEF ServedInOrder
  <2>2. \A d \in Calls :
          Arrived(d)' => (Settled(d)' <=> ticket'[d] <= completed'[SessionOf[d]])
    BY <1>a, <1>1 DEF ServedInOrder, Settled, Outcomes
  <2>3. \A d \in Running' : ticket'[d] = completed'[SessionOf[d]] + 1
    BY <1>1 DEF ServedInOrder, Running
  <2> QED
    BY <2>1, <2>2, <2>3 DEF ServedInOrder
<1> QED
  BY <1>3, <1>4, <1>5, <1>6

\* A call whose predecessor is over holds the next ticket to be served.
LEMMA StarterIsNext ==
    ASSUME IInv, NEW c \in Calls, StartFn(c)
    PROVE  ticket[c] = completed[SessionOf[c]] + 1
<1>1. promise[c] = "waiting" /\ PredecessorOver(c)
  BY DEF StartFn
<1>2. Arrived(c) /\ ~Settled(c)
  BY <1>1 DEF Arrived, Settled, Outcomes
<1>3. SessionOf[c] \in Sessions
  BY SessionOfAssumption
<1>4. /\ ticket[c] \in Nat /\ completed[SessionOf[c]] \in Nat
      /\ previous[c] \in Calls \cup {NoCall}
  BY <1>3 DEF IInv, TypeOK
<1>5. ticket[c] > completed[SessionOf[c]]
  BY <1>2, <1>4 DEF IInv, ServedInOrder
<1>6. CASE previous[c] = NoCall
  <2>1. ticket[c] = 1
    BY <1>2, <1>6 DEF IInv, ChainHasNoGaps
  <2> QED
    BY <1>4, <1>5, <2>1
<1>7. CASE previous[c] # NoCall
  <2>1. previous[c] \in Calls /\ Settled(previous[c])
    BY <1>1, <1>4, <1>7 DEF PredecessorOver
  <2>2. /\ Arrived(previous[c])
        /\ SessionOf[previous[c]] = SessionOf[c]
        /\ ticket[c] = ticket[previous[c]] + 1
    BY <1>2, <1>7 DEF IInv, ChainHasNoGaps
  <2>3. ticket[previous[c]] \in Nat /\ ticket[previous[c]] <= completed[SessionOf[c]]
    BY <2>1, <2>2 DEF IInv, TypeOK, ServedInOrder
  <2> QED
    BY <1>4, <1>5, <2>2, <2>3
<1> QED
  BY <1>6, <1>7

LEMMA StartFnIInv ==
    ASSUME IInv, NEW c \in Calls, StartFn(c), TypeOK'
    PROVE  IInv'
<1>1. /\ promise[c] = "waiting" /\ promise'[c] = "running"
      /\ \A d \in Calls \ {c} : promise'[d] = promise[d]
      /\ UNCHANGED <<queueBySessionId, previous, ticket, issued, completed>>
  BY DEF IInv, TypeOK, StartFn, historyVars
<1>2. \A d \in Calls : /\ Arrived(d)' <=> Arrived(d)
                       /\ Settled(d)' <=> Settled(d)
  BY <1>1 DEF Arrived, Settled, Outcomes
<1>3. TicketsNumberArrivals' /\ ChainEndsAtLastArrival' /\ ChainHasNoGaps'
  BY <1>1, <1>2
     DEF IInv, TypeOK, TicketsNumberArrivals, ChainEndsAtLastArrival, ChainHasNoGaps
<1>4. ServedInOrder'
  BY <1>1, <1>2, StarterIsNext DEF IInv, ServedInOrder, Running
<1> QED
  BY <1>3, <1>4 DEF IInv

LEMMA SettleFnIInv ==
    ASSUME IInv, NEW c \in Calls, NEW outcome \in Outcomes, SettleFn(c, outcome), TypeOK'
    PROVE  IInv'
<1> DEFINE s == SessionOf[c]
<1>a. s \in Sessions
  BY SessionOfAssumption
<1>1. /\ promise[c] = "running" /\ promise'[c] = outcome
      /\ \A d \in Calls \ {c} : promise'[d] = promise[d]
      /\ completed'[s] = completed[s] + 1
      /\ \A t \in Sessions \ {s} : completed'[t] = completed[t]
      /\ UNCHANGED <<queueBySessionId, previous, ticket, issued>>
  BY <1>a DEF IInv, TypeOK, SettleFn
<1>2. Settled(c)' /\ ~Settled(c) /\ Arrived(c)
  BY <1>1 DEF Settled, Outcomes, Arrived
<1>3. \A d \in Calls : Arrived(d)' <=> Arrived(d)
  BY <1>1 DEF Arrived, Outcomes
<1>4. TicketsNumberArrivals' /\ ChainEndsAtLastArrival' /\ ChainHasNoGaps'
  BY <1>1, <1>3
     DEF IInv, TypeOK, TicketsNumberArrivals, ChainEndsAtLastArrival, ChainHasNoGaps
<1>5. ticket[c] = completed[s] + 1
  BY <1>1 DEF IInv, ServedInOrder, Running
<1>6. ServedInOrder'
  <2> USE SessionOfAssumption DEF IInv, TypeOK
  <2>1. \A t \in Sessions : completed'[t] <= issued'[t]
    BY <1>a, <1>1, <1>2, <1>5 DEF ServedInOrder, TicketsNumberArrivals
  <2>2. ASSUME NEW d \in Calls, Arrived(d)
        PROVE  Settled(d)' <=> ticket'[d] <= completed'[SessionOf[d]]
    <3>1. CASE d = c
      BY <3>1, <1>a, <1>1, <1>2, <1>5
    <3>2. CASE d # c /\ SessionOf[d] = s
      BY <3>2, <2>2, <1>a, <1>1, <1>2, <1>5
         DEF ServedInOrder, TicketsNumberArrivals, Settled
    <3>3. CASE SessionOf[d] # s
      BY <3>3, <2>2, <1>1 DEF ServedInOrder, Settled
    <3> QED
      BY <3>1, <3>2, <3>3
  <2>3. ASSUME NEW d \in Running'
        PROVE  ticket'[d] = completed'[SessionOf[d]] + 1
    <3>1. d \in Running /\ d # c
      BY <2>3, <1>1 DEF Running, Outcomes
    <3>2. SessionOf[d] # s
      BY <3>1, <1>2, <1>5 DEF ServedInOrder, TicketsNumberArrivals, Running
    <3> QED
      BY <3>1, <3>2, <1>1 DEF ServedInOrder, Running
  <2> QED
    BY <2>1, <2>2, <2>3, <1>3 DEF ServedInOrder
<1> QED
  BY <1>4, <1>6 DEF IInv

\* Tickets follow the chain without gaps and are served in order.
THEOREM ChainInvariant == Spec => []IInv
<1>1. IInv /\ TypeOK' /\ [Next]_vars => IInv'
  <2> SUFFICES ASSUME IInv, TypeOK', [Next]_vars PROVE IInv'
    OBVIOUS
  <2>1. ASSUME NEW c \in Calls, RunExclusive(c) PROVE IInv'
    BY <2>1, RunExclusiveIInv
  <2>2. ASSUME NEW c \in Calls, StartFn(c) PROVE IInv'
    BY <2>2, StartFnIInv
  <2>3. ASSUME NEW c \in Calls, NEW outcome \in Outcomes, SettleFn(c, outcome)
        PROVE IInv'
    BY <2>3, SettleFnIInv
  <2>4. CASE UNCHANGED vars
    BY <2>4 DEF vars, IInv, TypeOK, TicketsNumberArrivals, ChainEndsAtLastArrival,
       ChainHasNoGaps, ServedInOrder, Arrived, Settled, Running
  <2> QED
    BY <2>1, <2>2, <2>3, <2>4 DEF Next, AllOver
<1> QED
  BY <1>1, InitIInv, TypeCorrect, PTL DEF Spec

\* No two turns of one session run at the same time, however many calls wait.
THEOREM MutualExclusionHolds == Spec => []MutualExclusion
<1>1. IInv => MutualExclusion
  BY DEF IInv, ServedInOrder, TicketsNumberArrivals, MutualExclusion, Running, Arrived
<1> QED
  BY <1>1, ChainInvariant, PTL

\* The chain implements the ticket lock: calls of a session get their turns in
\* the order they arrived, one at a time, also behind a turn that threw.
THEOREM RefinesFifoMutex == Spec => ImplementsFifoMutex
<1>1. Init => Fifo!Init
  BY DEF Init, Fifo!Init, Running
<1>2. IInv /\ [Next]_vars => [Fifo!Next]_Fifo!vars
  <2> SUFFICES ASSUME IInv, [Next]_vars PROVE [Fifo!Next]_Fifo!vars
    OBVIOUS
  <2>1. ASSUME NEW c \in Calls, RunExclusive(c) PROVE Fifo!Arrive(c)
    <3>1. Running' = Running
      BY <2>1 DEF IInv, TypeOK, RunExclusive, Running
    <3>2. ticket[c] = 0
      BY <2>1 DEF IInv, TicketsNumberArrivals, RunExclusive, Arrived
    <3> QED
      BY <2>1, <3>1, <3>2 DEF RunExclusive, Fifo!Arrive
  <2>2. ASSUME NEW c \in Calls, StartFn(c) PROVE Fifo!Enter(c)
    <3>1. c \notin Running /\ Running' = Running \cup {c}
      BY <2>2 DEF IInv, TypeOK, StartFn, Running
    <3>2. ticket[c] = completed[SessionOf[c]] + 1
      BY <2>2, StarterIsNext
    <3> QED
      BY <2>2, <3>1, <3>2 DEF StartFn, historyVars, Fifo!Enter
  <2>3. ASSUME NEW c \in Calls, NEW outcome \in Outcomes, SettleFn(c, outcome)
        PROVE  Fifo!Leave(c)
    <3>1. c \in Running /\ Running' = Running \ {c}
      BY <2>3 DEF IInv, TypeOK, SettleFn, Running, Outcomes
    <3> QED
      BY <2>3, <3>1 DEF SettleFn, Fifo!Leave
  <2>4. CASE UNCHANGED vars
    BY <2>4 DEF vars, Fifo!vars, Running
  <2> QED
    BY <2>1, <2>2, <2>3, <2>4 DEF Next, AllOver, Fifo!Next
<1> QED
  BY <1>1, <1>2, ChainInvariant, PTL DEF Spec, ImplementsFifoMutex, Fifo!Spec
=============================================================================
