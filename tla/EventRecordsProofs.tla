------------------------- MODULE EventRecordsProofs -------------------------
(***************************************************************************)
(* What EventRecords promises, for any number of spans, groups and         *)
(* processes.  The invariant says what an emission knows at each await:    *)
(* past the lookup its group is the one its process found, past the        *)
(* creation the stream is there.                                           *)
(***************************************************************************)
EXTENDS EventRecords, TLAPS

\* The memo is never a rejected promise, and once fulfilled it is what was
\* newest then.
Memo ==
    /\ logGroupNamePromise # "rejected"
    /\ logGroupNamePromise = "fulfilled" =>
           logGroupName \in Group /\ logGroupName = newestAt[process]
    /\ ensuredLogStreams \subseteq streams

\* Where an emission is, and what it has by then.
Emission ==
    \A s \in Spans :
        /\ emission[s] \in UnderWay =>
              s \in ContentSpans /\ span[s] = "ended"
        /\ emission[s] \in {"create", "put"} =>
              /\ logGroupNamePromise = "fulfilled"
              /\ target[s] \in Group
              /\ target[s] = newestAt[process]
        /\ emission[s] = "put" => target[s] \in streams

\* What has arrived.
Arrived ==
    \A r \in records :
        /\ span[r.span] = "ended"
        /\ r.group = newestAt[r.process]
        /\ r.process <= process
        /\ logGroupNamePromise # "fulfilled" => r.process # process

IInv == TypeOK /\ Memo /\ Emission /\ Arrived /\ RecordsLostForAReason

-----------------------------------------------------------------------------
LEMMA InitEstablishes == Init => IInv
  BY ContentAssumption, BoundsAssumption
     DEF Init, IInv, TypeOK, Memo, Emission, Arrived, RecordsLostForAReason,
         Process, Group, UnderWay, Record, Recorded

\* A span that starts has no emission yet.
LEMMA StartSpanKeeps ==
  ASSUME IInv, NEW s \in Spans, StartSpan(s)
  PROVE  IInv'
<1> USE DEF StartSpan, memoVars, logsVars, IInv
<1>1. TypeOK'
  BY BoundsAssumption DEF TypeOK, Process, Group, UnderWay
<1>2. Memo'
  BY DEF TypeOK, Memo
<1>3. Emission'
  BY DEF TypeOK, Memo, Emission, UnderWay
<1>4. Arrived'
  BY DEF TypeOK, Arrived
<1>5. RecordsLostForAReason'
  BY DEF TypeOK, RecordsLostForAReason, Recorded, UnderWay
<1> QED
  BY <1>1, <1>2, <1>3, <1>4, <1>5

\* An emission ends, or begins where the memo lets it begin.
LEMMA EndSpanKeeps ==
  ASSUME IInv, NEW s \in Spans, EndSpan(s)
  PROVE  IInv'
<1> USE DEF IInv
<1>0. /\ span[s] = "running"
      /\ span' = [span EXCEPT ![s] = "ended"]
      /\ UNCHANGED <<process, groups, streams, records, newestAt, excused>>
  BY DEF EndSpan, logsVars
<1>1. CASE s \in ContentSpans
  <2>1. EmitEventRecord(s)
    BY <1>1 DEF EndSpan, Emits
  <2>2. CASE logGroupNamePromise = "fulfilled"
    <3>1. /\ emission' = [emission EXCEPT ![s] =
                              IF logGroupName \in ensuredLogStreams THEN "put" ELSE "create"]
          /\ target' = [target EXCEPT ![s] = logGroupName]
          /\ UNCHANGED <<logGroupNamePromise, logGroupName, ensuredLogStreams>>
      BY <2>1, <2>2 DEF EmitEventRecord, AwaitsStream, RememberAtSend
    <3>2. logGroupName \in Group /\ logGroupName = newestAt[process]
      BY <2>2 DEF Memo
    <3>3. TypeOK'
      BY <1>0, <2>1, <3>1, <3>2 DEF TypeOK, UnderWay, Group
    <3>4. Memo'
      BY <1>0, <3>1 DEF Memo
    <3>5. Emission'
      BY <1>0, <1>1, <2>1, <2>2, <3>1, <3>2 DEF TypeOK, Memo, Emission, UnderWay
    <3>6. Arrived'
      BY <1>0, <3>1 DEF TypeOK, Arrived, Record
    <3>7. RecordsLostForAReason'
      BY <1>0, <3>1 DEF TypeOK, RecordsLostForAReason, Recorded, UnderWay
    <3> QED
      BY <3>3, <3>4, <3>5, <3>6, <3>7
  <2>3. CASE logGroupNamePromise # "fulfilled"
    <3>1. /\ logGroupNamePromise' = "pending"
          /\ emission' = [emission EXCEPT ![s] = "discover"]
          /\ UNCHANGED <<logGroupName, ensuredLogStreams, target>>
      BY <2>1, <2>3 DEF EmitEventRecord, Memo
    <3>3. TypeOK'
      BY <1>0, <2>1, <3>1 DEF TypeOK, UnderWay
    <3>4. Memo'
      BY <1>0, <3>1 DEF Memo
    <3>5. Emission'
      BY <1>0, <1>1, <2>1, <2>3, <3>1 DEF TypeOK, Memo, Emission, UnderWay
    <3>6. Arrived'
      BY <1>0, <2>3, <3>1 DEF TypeOK, Arrived, Record
    <3>7. RecordsLostForAReason'
      BY <1>0, <3>1 DEF TypeOK, RecordsLostForAReason, Recorded, UnderWay
    <3> QED
      BY <3>3, <3>4, <3>5, <3>6, <3>7
  <2> QED
    BY <2>2, <2>3
<1>2. CASE s \notin ContentSpans
  <2>1. UNCHANGED <<memoVars, emission, target>>
    BY <1>2 DEF EndSpan, Emits
  <2> USE <1>0, <2>1 DEF memoVars
  <2>2. TypeOK' /\ Memo'
    BY DEF TypeOK, Memo
  <2>3. Emission'
    BY DEF TypeOK, Emission
  <2>4. Arrived'
    BY DEF TypeOK, Arrived, Record
  <2>5. RecordsLostForAReason'
    BY <1>2 DEF TypeOK, RecordsLostForAReason, Recorded
  <2> QED
    BY <2>2, <2>3, <2>4, <2>5
<1> QED
  BY <1>1, <1>2

\* The lookup answers: no record of this process is anywhere yet.
LEMMA DiscoveryAnsweredKeeps ==
  ASSUME IInv, DiscoveryAnswered
  PROVE  IInv'
<1> USE DEF IInv
<1>1. PICK g \in Group :
        /\ g = groups
        /\ logGroupNamePromise' = "fulfilled" /\ logGroupName' = g
        /\ emission' = [s \in Spans |-> IF s \in Waiting
                          THEN (IF g \in ensuredLogStreams THEN "put" ELSE "create")
                          ELSE emission[s]]
        /\ target' = [s \in Spans |-> IF s \in Waiting THEN g ELSE target[s]]
        /\ ensuredLogStreams' = ensuredLogStreams
  BY DEF DiscoveryAnswered, Newest, Found, Memoise, Resume, AwaitsStream, RememberAtSend, Group
<1>2. /\ logGroupNamePromise = "pending"
      /\ newestAt' = [newestAt EXCEPT ![process] = groups]
      /\ UNCHANGED <<process, span, groups, streams, records, excused>>
  BY DEF DiscoveryAnswered, logsVars
<1>3. newestAt'[process] = g /\ \A r \in records : newestAt'[r.process] = newestAt[r.process]
  BY <1>1, <1>2 DEF TypeOK, Arrived, Record
<1>4. TypeOK'
  BY <1>1, <1>2 DEF TypeOK, UnderWay, Waiting, Group
<1>5. Memo'
  BY <1>1, <1>2, <1>3 DEF Memo
<1>6. Emission'
  BY <1>1, <1>2, <1>3 DEF TypeOK, Memo, Emission, UnderWay, Waiting
<1>7. Arrived'
  BY <1>1, <1>2, <1>3 DEF Arrived
<1>8. RecordsLostForAReason'
  BY <1>1, <1>2, ContentAssumption
     DEF TypeOK, RecordsLostForAReason, Recorded, UnderWay, Waiting
<1> QED
  BY <1>4, <1>5, <1>6, <1>7, <1>8

\* The lookup fails: the spans that waited are excused, the memo is empty again.
LEMMA DiscoveryFailsKeeps ==
  ASSUME IInv, DiscoveryFails
  PROVE  IInv'
<1> USE DEF IInv
<1>1. /\ logGroupNamePromise = "pending"
      /\ logGroupNamePromise' = "none"
      /\ emission' = [s \in Spans |-> IF s \in Waiting THEN "over" ELSE emission[s]]
      /\ excused' = excused \cup Waiting
      /\ UNCHANGED <<logGroupName, process, ensuredLogStreams, span, target,
                     groups, streams, records, newestAt>>
  BY DEF DiscoveryFails, Forget, Resume, logsVars
<1>2. TypeOK'
  BY <1>1 DEF TypeOK, Waiting
<1>3. Memo'
  BY <1>1 DEF Memo
<1>4. Emission'
  BY <1>1 DEF TypeOK, Emission, UnderWay, Waiting
<1>5. Arrived'
  BY <1>1 DEF Arrived
<1>6. RecordsLostForAReason'
  BY <1>1, ContentAssumption DEF TypeOK, RecordsLostForAReason, Recorded, UnderWay, Waiting
<1> QED
  BY <1>2, <1>3, <1>4, <1>5, <1>6

\* Whoever goes on to put has the stream, whoever created it.
LEMMA CreateAnsweredKeeps ==
  ASSUME IInv, NEW s \in Spans, CreateAnswered(s)
  PROVE  IInv'
<1> USE DEF CreateAnswered, memoVars, logsVars, IInv
<1>1. TypeOK'
  BY DEF TypeOK, Emission, UnderWay
<1>2. Memo'
  BY DEF TypeOK, Memo
<1>3. Emission'
  BY DEF TypeOK, Memo, Emission, UnderWay
<1>4. Arrived'
  BY DEF TypeOK, Arrived
<1>5. RecordsLostForAReason'
  BY DEF TypeOK, RecordsLostForAReason, Recorded, UnderWay
<1> QED
  BY <1>1, <1>2, <1>3, <1>4, <1>5

\* A creation that fails excuses its span.
LEMMA CreateFailsKeeps ==
  ASSUME IInv, NEW s \in Spans, CreateFails(s)
  PROVE  IInv'
<1> USE DEF CreateFails, memoVars, logsVars, IInv
<1>1. TypeOK'
  BY DEF TypeOK, Emission, UnderWay
<1>2. Memo'
  BY DEF TypeOK, Memo
<1>3. Emission'
  BY DEF TypeOK, Memo, Emission, UnderWay
<1>4. Arrived'
  BY DEF TypeOK, Arrived
<1>5. RecordsLostForAReason'
  BY DEF TypeOK, RecordsLostForAReason, Recorded, UnderWay
<1> QED
  BY <1>1, <1>2, <1>3, <1>4, <1>5

\* What arrives is what the span had when it ended.
LEMMA DeliveredIsRecord ==
  ASSUME IInv, NEW s \in Spans, emission[s] = "put"
  PROVE  /\ Delivered(s) \in Record
         /\ Delivered(s).span = s
         /\ Delivered(s).group = newestAt[process]
         /\ Delivered(s).process = process
         /\ span[s] = "ended"
         /\ logGroupNamePromise = "fulfilled"
  BY DEF IInv, TypeOK, Emission, UnderWay, Delivered, Record

LEMMA PutAnsweredKeeps ==
  ASSUME IInv, NEW s \in Spans, PutAnswered(s)
  PROVE  IInv'
<1> DEFINE d == Delivered(s)
<1>1. /\ emission[s] = "put"
      /\ records' = records \cup {d}
      /\ emission' = [emission EXCEPT ![s] = "over"]
      /\ UNCHANGED <<process, logGroupNamePromise, logGroupName, ensuredLogStreams, span,
                     target, groups, streams, newestAt, excused>>
  BY DEF PutAnswered, memoVars
<1>2. /\ d \in Record /\ d.span = s /\ d.group = newestAt[process] /\ d.process = process
      /\ span[s] = "ended" /\ logGroupNamePromise = "fulfilled"
  BY <1>1, DeliveredIsRecord
<1> HIDE DEF d
<1> USE DEF IInv
<1>3. TypeOK'
  BY <1>1, <1>2 DEF TypeOK
<1>4. Memo'
  BY <1>1 DEF Memo
<1>5. Emission'
  BY <1>1 DEF TypeOK, Emission, UnderWay
<1>6. Arrived'
  BY <1>1, <1>2 DEF TypeOK, Arrived, Process
<1>7. RecordsLostForAReason'
  BY <1>1, <1>2 DEF TypeOK, RecordsLostForAReason, Recorded, UnderWay
<1> QED
  BY <1>3, <1>4, <1>5, <1>6, <1>7

\* A put that fails has a stream to fail on, so its span is excused.
LEMMA PutFailsKeeps ==
  ASSUME IInv, NEW s \in Spans, PutFails(s)
  PROVE  IInv'
<1> USE DEF IInv
<1>1. /\ emission' = [emission EXCEPT ![s] = "over"]
      /\ excused' = excused \cup {s}
      /\ UNCHANGED <<process, logGroupNamePromise, logGroupName, ensuredLogStreams, span,
                     target, groups, streams, records, newestAt>>
  BY DEF PutFails, Emission, memoVars, logsVars
<1>2. TypeOK' /\ Memo'
  BY <1>1 DEF TypeOK, Memo
<1>3. Emission'
  BY <1>1 DEF TypeOK, Emission, UnderWay
<1>4. Arrived'
  BY <1>1 DEF Arrived
<1>5. RecordsLostForAReason'
  BY <1>1 DEF TypeOK, RecordsLostForAReason, Recorded, UnderWay
<1> QED
  BY <1>2, <1>3, <1>4, <1>5

\* A newer group changes nothing for a process that has found its own.
LEMMA GroupAppearsKeeps ==
  ASSUME IInv, GroupAppears
  PROVE  IInv'
<1> USE DEF GroupAppears, memoVars, logsVars, IInv
<1>1. TypeOK'
  BY BoundsAssumption DEF TypeOK, Process, Group, UnderWay
<1>2. Memo'
  BY DEF TypeOK, Memo
<1>3. Emission'
  BY DEF TypeOK, Memo, Emission, UnderWay
<1>4. Arrived'
  BY DEF TypeOK, Arrived
<1>5. RecordsLostForAReason'
  BY DEF TypeOK, RecordsLostForAReason, Recorded, UnderWay
<1> QED
  BY <1>1, <1>2, <1>3, <1>4, <1>5

\* The next process begins with nothing under way and no record of its own.
LEMMA RecycleKeeps ==
  ASSUME IInv, Recycle
  PROVE  IInv'
<1> DEFINE open == {s \in Spans : emission[s] \in UnderWay}
<1> USE DEF IInv
<1>1. PICK landed \in SUBSET {s \in Spans : emission[s] = "put" /\ target[s] \in streams} :
        records' = records \cup {Delivered(s) : s \in landed}
  BY DEF Recycle
<1>2. /\ process < MaxProcesses /\ process' = process + 1
      /\ logGroupNamePromise' = "none" /\ logGroupName' = 0 /\ ensuredLogStreams' = {}
      /\ span' = [s \in Spans |-> IF span[s] = "running" THEN "lost" ELSE span[s]]
      /\ emission' = [s \in Spans |-> IF s \in open THEN "lost" ELSE emission[s]]
      /\ excused' = excused \cup open
      /\ UNCHANGED <<target, groups, streams, newestAt>>
  BY DEF Recycle
<1>3. \A r \in records' \ records :
        /\ r \in Record
        /\ span[r.span] = "ended"
        /\ r.group = newestAt[r.process]
        /\ r.process = process
  <2> SUFFICES ASSUME NEW s \in landed
               PROVE  LET r == Delivered(s) IN
                      /\ r \in Record
                      /\ span[r.span] = "ended"
                      /\ r.group = newestAt[r.process]
                      /\ r.process = process
    BY <1>1
  <2> QED
    BY DeliveredIsRecord
<1>4. records \subseteq records' /\ records' \subseteq Record
  BY <1>1, <1>3 DEF TypeOK
<1>5. process \in Nat /\ process' \in Process
  BY <1>2, BoundsAssumption DEF TypeOK, Process
<1>6. TypeOK'
  BY <1>2, <1>4, <1>5, BoundsAssumption DEF TypeOK, UnderWay
<1>7. Memo'
  BY <1>2 DEF Memo
<1>8. Emission'
  BY <1>2 DEF TypeOK, Emission, UnderWay
<1>9. Arrived'
  <2> SUFFICES ASSUME NEW r \in records'
               PROVE  /\ span'[r.span] = "ended"
                      /\ r.group = newestAt[r.process]
                      /\ r.process <= process'
                      /\ r.process # process'
    BY <1>2 DEF Arrived
  <2>1. r \in Record /\ r.span \in Spans /\ r.process \in Nat
    BY <1>4, ContentAssumption DEF Record, Process
  <2>2. /\ span[r.span] = "ended"
        /\ r.group = newestAt[r.process] /\ r.process <= process
    BY <1>3, <1>5 DEF Arrived
  <2> QED
    BY <1>2, <1>5, <2>1, <2>2
<1>10. RecordsLostForAReason'
  BY <1>2, <1>4, ContentAssumption DEF TypeOK, RecordsLostForAReason, Recorded, UnderWay
<1> QED
  BY <1>6, <1>7, <1>8, <1>9, <1>10

LEMMA StutterKeeps ==
  ASSUME IInv, UNCHANGED vars
  PROVE  IInv'
  BY DEF vars, memoVars, logsVars, IInv, TypeOK, Memo, Emission, Arrived,
         RecordsLostForAReason, Recorded

\* What an emission knows at each await.
THEOREM EmissionInvariant == Spec => []IInv
<1>1. IInv /\ [Next]_vars => IInv'
  BY StartSpanKeeps, EndSpanKeeps, DiscoveryAnsweredKeeps,
     DiscoveryFailsKeeps, CreateAnsweredKeeps, CreateFailsKeeps, PutAnsweredKeeps,
     PutFailsKeeps, GroupAppearsKeeps, RecycleKeeps, StutterKeeps DEF Next
<1> QED
  BY InitEstablishes, <1>1, PTL DEF Spec

-----------------------------------------------------------------------------
\* The memos, the emissions and the records have their types.
THEOREM TypeCorrect == Spec => []TypeOK
  BY EmissionInvariant, PTL DEF IInv

\* An ended span with content has its record, or will, or a service failed it
\* (withSpan, emitEventRecord, discoverLogGroupName, ensureLogStream).
THEOREM RecordsLostForAReasonHolds == Spec => []RecordsLostForAReason
  BY EmissionInvariant, PTL DEF IInv

\* The records of a process are in the one group it found (discoverLogGroupName).
THEOREM RecordsKeptTogetherHolds == Spec => []RecordsKeptTogether
<1>1. IInv => RecordsKeptTogether
  BY DEF IInv, Arrived, RecordsKeptTogether
<1> QED
  BY EmissionInvariant, <1>1, PTL
=============================================================================
