---------------------------- MODULE EventRecords ----------------------------
(***************************************************************************)
(* The second half of split telemetry: for every span that carries content *)
(* withSpan sends an event record to the Runtime's log group, fire and     *)
(* forget.  Where that group is, and whether it has the stream, is looked  *)
(* up once per process and memoised; spans end while a lookup is pending   *)
(* and share it.  Reactions run in the step that settles their promise:    *)
(* the emissions waiting for a discovery resume together.                  *)
(*                                                                         *)
(* Log groups are numbered in the order of their creation; none is ever    *)
(* deleted.  What a record says is its span's attributes when it ended, and *)
(* no later step changes it: of the body, whether there is one is kept.    *)
(***************************************************************************)
EXTENDS Naturals

CONSTANTS
    Spans,
    ContentSpans,  \* the operations buildEventRecordBody has a body for
    MaxGroups,     \* bound: log groups matching the prefix
    MaxProcesses   \* bound: processes that follow one another

ASSUME ContentAssumption == ContentSpans \subseteq Spans
ASSUME BoundsAssumption == MaxGroups \in Nat /\ MaxProcesses \in Nat \ {0}

VARIABLES
    process,              \* which process it is
    \* its memory
    logGroupNamePromise,  \* where the memoised promise stands
    logGroupName,         \* what it yields, 0 before that
    ensuredLogStreams,
    \* spans and their emissions
    span,      \* span[s]: where withSpan is
    emission,  \* emission[s]: what emitEventRecord awaits for s
    target,    \* target[s]: the group it awaits it from
    \* CloudWatch Logs
    groups,    \* the number of groups created so far
    streams,   \* groups with an otel-rt-logs stream
    records,
    \* history
    newestAt,  \* newestAt[p]: the newest group when process p found its group
    excused    \* spans a service failed, or that died with their process

memoVars == <<logGroupNamePromise, logGroupName, ensuredLogStreams>>
logsVars == <<groups, streams, records>>
vars == <<process, memoVars, span, emission, target, logsVars, newestAt, excused>>

Group == 1..MaxGroups
Process == 1..MaxProcesses
UnderWay == {"discover", "create", "put"}
Record == [span : ContentSpans, group : Group, process : Process]

TypeOK ==
    /\ process \in Process
    /\ logGroupNamePromise \in {"none", "pending", "rejected", "fulfilled"}
    /\ logGroupName \in 0..MaxGroups
    /\ ensuredLogStreams \subseteq Group
    /\ span \in [Spans -> {"idle", "running", "ended", "lost"}]
    /\ emission \in [Spans -> {"none", "over", "lost"} \cup UnderWay]
    /\ target \in [Spans -> 0..MaxGroups]
    /\ groups \in 0..MaxGroups
    /\ streams \subseteq Group
    /\ records \subseteq Record
    /\ newestAt \in [Process -> 0..MaxGroups]
    /\ excused \subseteq Spans

\* The Runtime may be the first, or replace others whose groups are still there.
Init ==
    /\ process = 1
    /\ logGroupNamePromise = "none"
    /\ logGroupName = 0
    /\ ensuredLogStreams = {}
    /\ span = [s \in Spans |-> "idle"]
    /\ emission = [s \in Spans |-> "none"]
    /\ target = [s \in Spans |-> 0]
    /\ groups \in 0..MaxGroups
    /\ streams \in SUBSET (1..groups)
    /\ records = {}
    /\ newestAt = [p \in Process |-> 0]
    /\ excused = {}

-----------------------------------------------------------------------------
(* Plausible slips, used to show that the properties depend on the code.   *)

\* the rejected promise stays memoised
KeepRejected == UNCHANGED logGroupName /\ logGroupNamePromise' = "rejected"

\* the first group of the answer is taken, in whatever order they come
FirstListed(g) == g \in 1..groups

\* an empty answer is not told from one that names a group
AnyAnswer(g) == TRUE

-----------------------------------------------------------------------------
\* sort by creationTime: the group discoverLogGroupName settles on
Newest(g) == g = groups

\* an answer with no group in it is a failure
Found(g) == g # 0

\* the memo once the discovery has answered ...
Memoise(g) == logGroupNamePromise' = "fulfilled" /\ logGroupName' = g

\* ... and once it has failed: catch empties it before a waiter resumes
Forget == logGroupNamePromise' = "none" /\ UNCHANGED logGroupName

\* What is remembered of a stream while CreateLogStream is under way.
RememberAtSend(g) == UNCHANGED ensuredLogStreams

\* whether the finally block emits a record, fn having returned or thrown:
\* buildEventRecordBody has a body for the operation
Emits(s) == s \in ContentSpans

\* ensureLogStream: what an emission awaits once it knows the group
AwaitsStream(g) == IF g \in ensuredLogStreams THEN "put" ELSE "create"

\* emitEventRecord up to its first await that is not settled
EmitEventRecord(s) ==
    CASE logGroupNamePromise = "fulfilled" ->
            /\ emission' = [emission EXCEPT ![s] = AwaitsStream(logGroupName)]
            /\ target' = [target EXCEPT ![s] = logGroupName]
            /\ RememberAtSend(logGroupName)
            /\ UNCHANGED <<logGroupNamePromise, logGroupName>>
      [] logGroupNamePromise = "rejected" ->
            /\ emission' = [emission EXCEPT ![s] = "over"]
            /\ UNCHANGED <<memoVars, target>>
      [] OTHER ->
            /\ logGroupNamePromise' = "pending"
            /\ emission' = [emission EXCEPT ![s] = "discover"]
            /\ UNCHANGED <<logGroupName, ensuredLogStreams, target>>

StartSpan(s) ==
    /\ span[s] = "idle"
    /\ span' = [span EXCEPT ![s] = "running"]
    /\ UNCHANGED <<process, memoVars, emission, target, logsVars, newestAt, excused>>

\* fn returns or throws; the finally block.
EndSpan(s) ==
    /\ span[s] = "running"
    /\ span' = [span EXCEPT ![s] = "ended"]
    /\ \/ Emits(s) /\ EmitEventRecord(s)
       \/ ~Emits(s) /\ UNCHANGED <<memoVars, emission, target>>
    /\ UNCHANGED <<process, logsVars, newestAt, excused>>

Waiting == {s \in Spans : emission[s] = "discover"}

Resume(where) == [s \in Spans |-> IF s \in Waiting THEN where ELSE emission[s]]

\* DescribeLogGroups answers: the waiters go on to the stream.
DiscoveryAnswered ==
    /\ logGroupNamePromise = "pending"
    /\ \E g \in 0..MaxGroups :
         /\ Newest(g)
         /\ Found(g)
         /\ Memoise(g)
         /\ emission' = Resume(AwaitsStream(g))
         /\ target' = [s \in Spans |-> IF s \in Waiting THEN g ELSE target[s]]
         /\ RememberAtSend(g)
    /\ newestAt' = [newestAt EXCEPT ![process] = groups]
    /\ UNCHANGED <<process, span, logsVars, excused>>

\* It throws, or finds no group yet: the waiters give up.
DiscoveryFails ==
    /\ logGroupNamePromise = "pending"
    /\ Forget
    /\ emission' = Resume("over")
    /\ excused' = excused \cup Waiting
    /\ UNCHANGED <<process, ensuredLogStreams, span, target, logsVars, newestAt>>

\* CreateLogStream has created the stream or found it there.
CreateAnswered(s) ==
    /\ emission[s] = "create"
    /\ streams' = streams \cup {target[s]}
    /\ ensuredLogStreams' = ensuredLogStreams \cup {target[s]}
    /\ emission' = [emission EXCEPT ![s] = "put"]
    /\ UNCHANGED <<process, logGroupNamePromise, logGroupName, span, target,
                   groups, records, newestAt, excused>>

\* Any other error ends the emission, whether or not it came after the creation.
CreateFails(s) ==
    /\ emission[s] = "create"
    /\ streams' \in {streams, streams \cup {target[s]}}
    /\ emission' = [emission EXCEPT ![s] = "over"]
    /\ excused' = excused \cup {s}
    /\ UNCHANGED <<process, memoVars, span, target, groups, records, newestAt>>

\* PutLogEvents takes the record; its answer does not matter.
Delivered(s) == [span |-> s, group |-> target[s], process |-> process]

PutAnswered(s) ==
    /\ emission[s] = "put"
    /\ target[s] \in streams
    /\ records' = records \cup {Delivered(s)}
    /\ emission' = [emission EXCEPT ![s] = "over"]
    /\ UNCHANGED <<process, memoVars, span, target, groups, streams,
                   newestAt, excused>>

\* It fails.  For a stream that is not there no service is to blame.
PutFails(s) ==
    /\ emission[s] = "put"
    /\ emission' = [emission EXCEPT ![s] = "over"]
    /\ excused' = IF target[s] \in streams THEN excused \cup {s} ELSE excused
    /\ UNCHANGED <<process, memoVars, span, target, logsVars, newestAt>>

\* A replaced Runtime, or a Runtime's first log line, brings a group.
GroupAppears ==
    /\ groups < MaxGroups
    /\ groups' = groups + 1
    /\ UNCHANGED <<process, memoVars, span, emission, target, streams, records,
                   newestAt, excused>>

\* The microVM is recycled: what was under way is lost, a record on the wire
\* may still arrive, and the next process starts with empty memos.
Recycle ==
    LET open == {s \in Spans : emission[s] \in UnderWay}
        wired == {s \in Spans : emission[s] = "put" /\ target[s] \in streams}
    IN  /\ process < MaxProcesses
        /\ process' = process + 1
        /\ logGroupNamePromise' = "none"
        /\ logGroupName' = 0
        /\ ensuredLogStreams' = {}
        /\ span' = [s \in Spans |-> IF span[s] = "running" THEN "lost" ELSE span[s]]
        /\ emission' = [s \in Spans |-> IF s \in open THEN "lost" ELSE emission[s]]
        /\ excused' = excused \cup open
        /\ \E landed \in SUBSET wired : records' = records \cup {Delivered(s) : s \in landed}
        /\ UNCHANGED <<target, groups, streams, newestAt>>

Next ==
    \/ \E s \in Spans :
          \/ StartSpan(s) \/ EndSpan(s)
          \/ CreateAnswered(s) \/ CreateFails(s) \/ PutAnswered(s) \/ PutFails(s)
    \/ DiscoveryAnswered \/ DiscoveryFails
    \/ GroupAppears \/ Recycle

Spec == Init /\ [][Next]_vars

-----------------------------------------------------------------------------
Recorded == {r.span : r \in records}

\* A span that carries content and has ended has its record, or is about to
\* have it, or a service failed that very span, or its process died: a failed
\* lookup costs the spans that waited for it and no later one, a stream others
\* are creating is never written to too early, and creating it twice is harmless.
RecordsLostForAReason ==
    \A s \in ContentSpans :
        span[s] = "ended" /\ emission[s] \notin UnderWay => s \in Recorded \cup excused

\* The records of one process are all in one group, the newest one there was
\* when the process found it, whatever groups appear or lookups fail meanwhile:
\* the judge finds the session in one place.
RecordsKeptTogether ==
    \A r \in records :
        /\ r.group = newestAt[r.process]
        /\ \A q \in records : q.process = r.process => q.group = r.group
=============================================================================
