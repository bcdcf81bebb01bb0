--------------------------- MODULE AutoUpdateProofs ---------------------------
(* Proofs about AutoUpdate, for every value of its constants. *)
EXTENDS AutoUpdate, SequenceTheorems, TLAPS

\* A call that will enqueue has a tag to enqueue; only a user has a rollout changed.
CallInv ==
    /\ \A p \in Callers : call[p].at \in {"create", "metrics"} => call[p].want \in Tags
    /\ call["user"].at = "rollout" => Admits("rollout")

\* The part of the types that is about calls, with CallInv.
CallsTyped ==
    /\ call \in [Callers -> Calls]
    /\ call["user"].at \in {"idle", "resolve", "create", "rollout"}
    /\ \A p \in Callers : call[p].at \notin {"idle", "next"} => call[p].app \in Apps
    /\ CallInv

\* The rest of them.
AppsTyped ==
    /\ repo \in [Apps -> Tags] /\ image \in [Apps -> Tags]
    /\ latest \in [Apps -> Deployments] /\ superseded \in [Apps -> Deployments]
    /\ previous \in [Apps -> Tags \cup {NoTag}]
    /\ claimed \in BOOLEAN
    /\ elapsed \in [Apps -> BOOLEAN]
    /\ listed \in [Apps -> Tags]
    /\ todo \in SUBSET Apps
    /\ crashed \in {"no", "idle", "working"}
    /\ admitted \in Scenarios

TypeInv == AppsTyped /\ CallsTyped

\* An operation has been tried only where an attempt may fail and be made again.
Queued == {op \in Operations : op.tried # "no" => Admits("retry")}

QueueInv == queue \in Seq(Queued) /\ Len(queue) <= MaxQueue

LEMMA TypeParts == TypeInv /\ QueueInv => TypeOK
<1>1. Queued \subseteq Operations
  BY DEF Queued
<1>2. QueueInv => queue \in Seq(Operations)
  BY <1>1, SeqMonotonic DEF QueueInv
<1> QED
  BY <1>2 DEF TypeInv, QueueInv, TypeOK, AppsTyped, CallsTyped

\* What a caller that is at c may be like.
FitsCaller(p, c) ==
    /\ c \in Calls
    /\ p = "user" => c.at \in {"idle", "resolve", "create", "rollout"}
    /\ c.at \notin {"idle", "next"} => c.app \in Apps
    /\ c.at \in {"create", "metrics"} => c.want \in Tags
    /\ p = "user" /\ c.at = "rollout" => Admits("rollout")

\* One caller goes on, the other stays.
LEMMA OneCallGoesOn ==
    ASSUME CallsTyped, admitted' = admitted,
           NEW p \in Callers, NEW c, FitsCaller(p, c), call' = [call EXCEPT ![p] = c]
    PROVE  CallsTyped'
BY DEF CallsTyped, CallInv, FitsCaller, Admits, Callers

LEMMA IdleFits == \A p \in Callers : FitsCaller(p, Idle)
BY DEF FitsCaller, Idle, Calls

\* The ways in which a call goes on.
LEMMA StepTyped ==
    ASSUME CallsTyped, admitted' = admitted, NEW at \in {"idle", "next", "mark", "note"},
           Step("poller", at),
           at \in {"mark", "note"} => call["poller"].at \notin {"idle", "next"}
    PROVE  CallsTyped'
<1> DEFINE c == [call["poller"] EXCEPT !.at = at]
<1>1. call["poller"] \in Calls /\ "poller" \in Callers
  BY DEF CallsTyped, Callers
<1>2. call' = [call EXCEPT !["poller"] = c]
  BY DEF Step
<1>3. FitsCaller("poller", c)
  BY <1>1 DEF FitsCaller, Calls, CallsTyped
<1> QED
  BY <1>1, <1>2, <1>3, OneCallGoesOn

LEMMA GoOnTyped ==
    ASSUME CallsTyped, admitted' = admitted, NEW at \in {"rollback", "mark"},
           GoOn("poller", at), call["poller"].at \notin {"idle", "next"}
    PROVE  CallsTyped'
<1> DEFINE c == [call["poller"] EXCEPT !.at = at, !.seen = NoTag, !.want = NoTag]
<1>1. call["poller"] \in Calls /\ "poller" \in Callers /\ call["poller"].app \in Apps
  BY DEF CallsTyped, Callers
<1>2. call' = [call EXCEPT !["poller"] = c]
  BY DEF GoOn
<1>3. FitsCaller("poller", c)
  BY <1>1 DEF FitsCaller, Calls
<1> QED
  BY <1>1, <1>2, <1>3, OneCallGoesOn

LEMMA FinishTyped ==
    ASSUME CallsTyped, admitted' = admitted, NEW p \in Callers, Finish(p)
    PROVE  CallsTyped'
<1> DEFINE c == IF p = "poller" THEN [Idle EXCEPT !.at = "next"] ELSE Idle
<1>1. call' = [call EXCEPT ![p] = c]
  BY DEF Finish
<1>2. FitsCaller(p, c)
  BY DEF FitsCaller, Idle, Calls
<1> QED
  BY <1>1, <1>2, OneCallGoesOn

LEMMA EndSyncTyped ==
    ASSUME CallsTyped, admitted' = admitted, NEW p \in Callers, EndSync(p),
           call[p].at \notin {"idle", "next"}
    PROVE  CallsTyped'
<1>1. CASE p = "poller"
  BY <1>1, GoOnTyped DEF EndSync
<1>2. CASE p # "poller"
  BY <1>2, FinishTyped DEF EndSync
<1> QED
  BY <1>1, <1>2

-----------------------------------------------------------------------------

\* The queue without one of its operations.
LEMMA RemoveAtTyped ==
    ASSUME NEW S, NEW s \in Seq(S), NEW i \in DOMAIN s
    PROVE  RemoveAt(s, i) \in Seq(S) /\ Len(RemoveAt(s, i)) = Len(s) - 1
<1> DEFINE u == SubSeq(s, 1, i - 1)
           v == SubSeq(s, i + 1, Len(s))
<1>1. Len(s) \in Nat /\ i \in 1 .. Len(s)
  BY LenProperties
<1>2. \A j \in 1 .. Len(s) : s[j] \in S
  BY ElementOfSeq
<1>3. u \in Seq(S) /\ Len(u) = i - 1
  <2>1. \A j \in 1 .. i - 1 : s[j] \in S
    BY <1>1, <1>2
  <2> QED
    BY <1>1, <2>1, SubSeqProperties
<1>4. v \in Seq(S) /\ Len(v) = Len(s) - i
  <2>1. \A j \in i + 1 .. Len(s) : s[j] \in S
    BY <1>1, <1>2
  <2>2. i + 1 \in Int /\ Len(s) \in Int
    BY <1>1
  <2>3. /\ v \in Seq(S)
        /\ Len(v) = IF i + 1 <= Len(s) THEN Len(s) - (i + 1) + 1 ELSE 0
    BY <2>1, <2>2, SubSeqProperties
  <2> QED
    BY <1>1, <2>3
<1>5. u \o v \in Seq(S) /\ Len(u \o v) = Len(u) + Len(v)
  BY <1>3, <1>4, ConcatProperties
<1>6. RemoveAt(s, i) = u \o v
  BY DEF RemoveAt
<1> HIDE DEF u, v
<1> QED
  BY <1>1, <1>3, <1>4, <1>5, <1>6

\* An operation of the queue has its type.
LEMMA QueuedTyped ==
    ASSUME QueueInv, NEW i \in DOMAIN queue
    PROVE  queue[i] \in Queued /\ queue[i] \in Operations
<1>1. queue[i] \in Queued
  BY LenProperties, ElementOfSeq DEF QueueInv
<1> QED
  BY <1>1 DEF Queued

\* The queue when another deployment has become the newest.
LEMMA AgedTyped ==
    ASSUME QueueInv, NEW op
    PROVE  /\ Aged(op) \in Seq(Queued)
           /\ DOMAIN Aged(op) = DOMAIN queue /\ Len(Aged(op)) = Len(queue)
<1>1. Len(queue) \in Nat /\ DOMAIN queue = 1 .. Len(queue)
  BY LenProperties DEF QueueInv
<1>2. ASSUME NEW j \in DOMAIN queue
      PROVE  Aged(op)[j] \in Queued
  <2>1. queue[j] \in Queued
    BY QueuedTyped
  <2>2. queue[j].tried = "newest" => [queue[j] EXCEPT !.tried = "superseded"] \in Queued
    BY <2>1 DEF Queued, Operations
  <2> QED
    BY <2>1, <2>2 DEF Aged
<1>3. DOMAIN Aged(op) = DOMAIN queue
  BY DEF Aged
<1>4. Aged(op) = [j \in DOMAIN queue |-> Aged(op)[j]]
  BY DEF Aged
<1>5. Aged(op) \in [1 .. Len(queue) -> Queued]
  BY <1>1, <1>2, <1>4
<1>6. Aged(op) \in Seq(Queued)
  BY <1>1, <1>5, SeqDef
<1>7. Len(Aged(op)) \in Nat /\ DOMAIN Aged(op) = 1 .. Len(Aged(op))
  BY <1>6, LenProperties
<1>8. Len(Aged(op)) = Len(queue)
  BY <1>1, <1>3, <1>7
<1> QED
  BY <1>3, <1>6, <1>8

\* An operation is added to the queue only while there is room.
LEMMA EnqueueTyped ==
    ASSUME QueueInv, admitted' = admitted, NEW a \in Apps, NEW t \in Tags, Enqueue(a, t)
    PROVE  QueueInv'
<1> DEFINE op == [app |-> a, tag |-> t, tried |-> "no"]
<1>1. op \in Queued
  BY DEF Queued, Operations
<1>2. queue \in Seq(Queued) /\ Len(queue) \in Nat /\ Len(queue) < MaxQueue
  BY LenProperties DEF QueueInv, Enqueue
<1>3. queue' = Append(queue, op)
  BY DEF Enqueue
<1>4. queue' \in Seq(Queued) /\ Len(queue') = Len(queue) + 1
  BY <1>1, <1>2, <1>3, AppendProperties
<1>5. Queued' = Queued
  BY DEF Queued, Admits
<1> QED
  BY <1>2, <1>4, <1>5, PollerAssumption DEF QueueInv

\* The worker's steps leave operations in the queue.
LEMMA WorkTyped ==
    ASSUME QueueInv, admitted' = admitted, NEW i,
           \/ executeDeploymentOperation(i) \/ AnswerIsLost(i) \/ AttemptFails(i)
           \/ Claimable(i) /\ Abandon(i)
    PROVE  QueueInv'
<1>1. Queued' = Queued
  BY DEF Queued, Admits
<1>2. i \in DOMAIN queue
  BY DEF executeDeploymentOperation, AnswerIsLost, AttemptFails, Claimable
<1>3. queue[i] \in Queued /\ Len(queue) \in Nat /\ DOMAIN queue = 1 .. Len(queue)
  BY <1>2, QueuedTyped, LenProperties DEF QueueInv
<1>4. CASE executeDeploymentOperation(i)
  <2> DEFINE s == Aged(queue[i])
  <2>1. s \in Seq(Queued) /\ i \in DOMAIN s /\ Len(s) = Len(queue)
    BY <1>2, AgedTyped
  <2>2. queue' = RemoveAt(s, i)
    BY <1>4 DEF executeDeploymentOperation
  <2> HIDE DEF s
  <2>3. queue' \in Seq(Queued) /\ Len(queue') = Len(queue) - 1
    BY <2>1, <2>2, RemoveAtTyped
  <2> QED
    BY <1>1, <1>3, <2>3, PollerAssumption DEF QueueInv
<1>5. CASE Abandon(i)
  <2>1. queue' \in Seq(Queued) /\ Len(queue') = Len(queue) - 1
    BY <1>2, <1>5, RemoveAtTyped DEF Abandon, QueueInv
  <2> QED
    BY <1>1, <1>3, <2>1, PollerAssumption DEF QueueInv
<1>6. ASSUME NEW result \in {"failed", "newest"}, Admits("retry"),
             queue' = [queue EXCEPT ![i].tried = result]
      PROVE  QueueInv'
  <2> DEFINE op == [queue[i] EXCEPT !.tried = result]
  <2>1. op \in Queued
    BY <1>3, <1>6 DEF Queued, Operations
  <2>2. queue' = [queue EXCEPT ![i] = op]
    BY <1>6
  <2> HIDE DEF op
  <2>3. queue' \in Seq(Queued) /\ Len(queue') = Len(queue)
    BY <1>2, <1>3, <2>1, <2>2, ExceptSeq DEF QueueInv
  <2> QED
    BY <1>1, <2>3 DEF QueueInv
<1> QED
  BY <1>4, <1>5, <1>6 DEF AnswerIsLost, AttemptFails

\* The part of a call that the worker changes.
LEMMA AboutTyped ==
    ASSUME CallsTyped, admitted' = admitted,
           NEW after \in [Callers -> {"newest", "superseded", "older"}],
           call' = [p \in Callers |-> [call[p] EXCEPT !.about = after[p]]]
    PROVE  /\ CallsTyped'
           /\ \A p \in Callers : /\ call'[p].at = call[p].at /\ call'[p].app = call[p].app
                                  /\ call'[p].want = call[p].want /\ call'[p].about = after[p]
<1> DEFINE New(p) == [call[p] EXCEPT !.about = after[p]]
<1>1. ASSUME NEW p \in Callers
      PROVE  /\ New(p) \in Calls
             /\ New(p).at = call[p].at /\ New(p).app = call[p].app
             /\ New(p).want = call[p].want /\ New(p).about = after[p]
  <2>1. call[p] \in Calls /\ after[p] \in {"newest", "superseded", "older"}
    BY DEF CallsTyped
  <2> QED
    BY <2>1 DEF Calls
<1>2. call' = [p \in Callers |-> New(p)]
  OBVIOUS
<1> HIDE DEF New
<1>3. /\ call' \in [Callers -> Calls]
      /\ \A p \in Callers : /\ call'[p].at = call[p].at /\ call'[p].app = call[p].app
                             /\ call'[p].want = call[p].want /\ call'[p].about = after[p]
  BY <1>1, <1>2
<1>4. CallsTyped'
  BY <1>3 DEF CallsTyped, CallInv, Admits, Callers
<1> QED
  BY <1>3, <1>4

\* What an operation, and one that is given up, make of the calls and the records.
LEMMA ExecuteTyped ==
    ASSUME TypeInv, NEW op \in Operations, Execute(op), admitted' = admitted
    PROVE  /\ image' \in [Apps -> Tags] /\ previous' \in [Apps -> Tags \cup {NoTag}]
           /\ latest' \in [Apps -> Deployments] /\ superseded' \in [Apps -> Deployments]
           /\ CallsTyped'
           /\ \A p \in Callers : /\ call'[p].at = call[p].at /\ call'[p].app = call[p].app
                                  /\ call'[p].about = AboutAfter(call[p], op)
<1>1. op.app \in Apps /\ op.tag \in Tags
  BY DEF Operations
<1>2. /\ NewDeployment \in Deployments
      /\ \A a \in Apps : /\ latest[a] \in Deployments /\ superseded[a] \in Deployments
                          /\ WrittenAgain(latest[a]) \in Deployments
                          /\ WrittenAgain(superseded[a]) \in Deployments
  <2>1. NewDeployment \in Deployments
    BY DEF NewDeployment, Deployments, Statuses
  <2>2. ASSUME NEW d \in Deployments
        PROVE  WrittenAgain(d) \in Deployments
    BY DEF WrittenAgain, Deployments, Statuses
  <2>3. \A a \in Apps : latest[a] \in Deployments /\ superseded[a] \in Deployments
    BY DEF TypeInv, AppsTyped
  <2> QED
    BY <2>1, <2>2, <2>3
<1>3. image' \in [Apps -> Tags] /\ previous' \in [Apps -> Tags \cup {NoTag}]
  BY <1>1 DEF Execute, UpdateApplicationImage, TypeInv, AppsTyped
<1>4. latest' \in [Apps -> Deployments]
  <2>1. \E d \in Deployments : latest' = [latest EXCEPT ![op.app] = d]
    BY <1>1, <1>2 DEF Execute, UpdateApplicationImage
  <2> QED
    BY <2>1 DEF TypeInv, AppsTyped
<1>5. superseded' \in [Apps -> Deployments]
  <2>1. \E d \in Deployments : superseded' = [superseded EXCEPT ![op.app] = d]
    BY <1>1, <1>2 DEF Execute
  <2> QED
    BY <2>1 DEF TypeInv, AppsTyped
<1>6. /\ CallsTyped'
      /\ \A p \in Callers : /\ call'[p].at = call[p].at /\ call'[p].app = call[p].app
                             /\ call'[p].about = AboutAfter(call[p], op)
  <2> DEFINE after == [p \in Callers |-> AboutAfter(call[p], op)]
  <2>1. CallsTyped /\ \A p \in Callers : call[p] \in Calls
    BY DEF TypeInv, CallsTyped
  <2>2. after \in [Callers -> {"newest", "superseded", "older"}]
    BY <2>1 DEF AboutAfter, Calls
  <2>3. call' = [p \in Callers |-> [call[p] EXCEPT !.about = after[p]]]
    BY DEF Execute
  <2>4. \A p \in Callers : after[p] = AboutAfter(call[p], op)
    OBVIOUS
  <2> HIDE DEF after
  <2> QED
    BY <2>1, <2>2, <2>3, <2>4, AboutTyped
<1> QED
  BY <1>3, <1>4, <1>5, <1>6

LEMMA RefusedTyped ==
    ASSUME TypeInv, QueueInv, NEW i, OperationRefused(i)
    PROVE  /\ superseded' \in [Apps -> Deployments] /\ CallsTyped'
           /\ \A p \in Callers : /\ call'[p].at = call[p].at /\ call'[p].app = call[p].app
                                  /\ call'[p].about = AboutAfterAbandon(call[p], queue[i])
<1>1. i \in DOMAIN queue /\ queue[i] \in Operations /\ admitted' = admitted
  BY QueuedTyped DEF OperationRefused, Claimable, conditions
<1>2. NewDeployment \in Deployments /\ queue[i].app \in Apps
  BY <1>1 DEF NewDeployment, Deployments, Statuses, Operations
<1>3. superseded' \in [Apps -> Deployments]
  BY <1>2 DEF OperationRefused, Abandon, TypeInv, AppsTyped
<1> DEFINE after == [p \in Callers |-> AboutAfterAbandon(call[p], queue[i])]
<1>4. CallsTyped /\ \A p \in Callers : call[p] \in Calls
  BY DEF TypeInv, CallsTyped
<1>5. after \in [Callers -> {"newest", "superseded", "older"}]
  BY <1>4 DEF AboutAfterAbandon, Calls
<1>6. call' = [p \in Callers |-> [call[p] EXCEPT !.about = after[p]]]
  BY DEF OperationRefused
<1>7. \A p \in Callers : after[p] = AboutAfterAbandon(call[p], queue[i])
  OBVIOUS
<1> HIDE DEF after
<1> QED
  BY <1>1, <1>3, <1>4, <1>5, <1>6, <1>7, AboutTyped

\* The environment, and the server's end.
LEMMA EnvironmentTyped ==
    ASSUME TypeInv, QueueInv,
           \/ \E a \in Apps, t \in Tags : Push(a, t)
           \/ \E a \in Apps : IntervalEnds(a) \/ rollbackEvaluationDelay(a)
           \/ SecondPasses \/ Crash
    PROVE  TypeInv'
<1> USE PollerAssumption
<1>1. ASSUME NEW a \in Apps, NEW t \in Tags, Push(a, t) PROVE TypeInv'
  BY <1>1
     DEF Push, TypeInv, AppsTyped, CallsTyped, CallInv, Admits, appVars, records, cycleVars,
     conditions
<1>2. CASE SecondPasses
  BY <1>2 DEF SecondPasses, TypeInv, AppsTyped, CallsTyped, CallInv, Admits, appVars, records,
     cycleVars, conditions
<1>3. ASSUME NEW a \in Apps, IntervalEnds(a) PROVE TypeInv'
  BY <1>3 DEF IntervalEnds, TypeInv, AppsTyped, CallsTyped, CallInv, Admits, appVars, records,
     cycleVars, conditions
<1>4. ASSUME NEW a \in Apps, rollbackEvaluationDelay(a) PROVE TypeInv'
  <2>1. latest' \in [Apps -> Deployments]
    <3>1. latest[a] \in Deployments /\ latest \in [Apps -> Deployments]
      BY DEF TypeInv, AppsTyped
    <3>2. [latest[a] EXCEPT !.ripe = TRUE] \in Deployments
      BY <3>1 DEF Deployments
    <3>3. latest' = [latest EXCEPT ![a] = [latest[a] EXCEPT !.ripe = TRUE]]
      BY <1>4 DEF rollbackEvaluationDelay
    <3> QED
      BY <3>1, <3>2, <3>3
  <2>2. UNCHANGED <<repo, image, superseded, previous, claimed, elapsed, listed, todo, call,
                    crashed, admitted>>
    BY <1>4 DEF rollbackEvaluationDelay, cycleVars, conditions
  <2>3. AppsTyped'
    BY <2>1, <2>2 DEF TypeInv, AppsTyped
  <2>4. CallsTyped'
    BY <2>2 DEF TypeInv, CallsTyped, CallInv, Admits
  <2> QED
    BY <2>3, <2>4 DEF TypeInv
<1>5. CASE Crash
  <2>1. CallsTyped'
    BY <1>5 DEF Crash, CallsTyped, CallInv, Idle, Calls, Callers
  <2>2. superseded' \in [Apps -> Deployments]
    <3>1. \A i : i \in DOMAIN queue => queue[i].app \in Apps
      BY QueuedTyped DEF Operations
    <3>2. NewDeployment \in Deployments /\ superseded \in [Apps -> Deployments]
      BY DEF NewDeployment, Deployments, Statuses, TypeInv, AppsTyped
    <3> QED
      BY <1>5, <3>1, <3>2 DEF Crash, Abandon
  <2> QED
    BY <1>5, <2>1, <2>2 DEF Crash, TypeInv, AppsTyped
<1> QED
  BY <1>1, <1>2, <1>3, <1>4, <1>5

\* The worker.
LEMMA WorkerTyped ==
    ASSUME TypeInv, QueueInv, NEW i,
           \/ executeDeploymentOperation(i) \/ AnswerIsLost(i) \/ AttemptFails(i)
           \/ OperationRefused(i)
    PROVE  TypeInv'
<1>1. CASE executeDeploymentOperation(i) \/ AnswerIsLost(i)
  <2>1. /\ i \in DOMAIN queue /\ Execute(queue[i])
        /\ UNCHANGED <<repo, claimed, elapsed, listed, todo, crashed, admitted>>
    BY <1>1 DEF executeDeploymentOperation, AnswerIsLost, Claimable, cycleVars, conditions
  <2>2. queue[i] \in Operations
    BY <2>1, QueuedTyped
  <2>3. /\ image' \in [Apps -> Tags] /\ previous' \in [Apps -> Tags \cup {NoTag}]
        /\ latest' \in [Apps -> Deployments] /\ superseded' \in [Apps -> Deployments]
        /\ CallsTyped'
    BY <2>1, <2>2, ExecuteTyped
  <2> QED
    BY <2>1, <2>3 DEF TypeInv, AppsTyped
<1>2. CASE AttemptFails(i)
  BY <1>2 DEF AttemptFails, TypeInv, AppsTyped, CallsTyped, CallInv, Admits, appVars, records,
     cycleVars, conditions
<1>3. CASE OperationRefused(i)
  <2>1. superseded' \in [Apps -> Deployments] /\ CallsTyped'
    BY <1>3, RefusedTyped
  <2> QED
    BY <1>3, <2>1 DEF OperationRefused, TypeInv, AppsTyped, cycleVars, conditions
<1> QED
  BY <1>1, <1>2, <1>3

\* A cycle of the poller, and the calls of a user.
LEMMA BeginningsTyped ==
    ASSUME TypeInv,
           \/ BeginCycle \/ EndCycle
           \/ \E a \in Apps : pollAll(a) \/ UserSync(a) \/ BeginRollout(a)
    PROVE  TypeInv'
<1> USE PollerAssumption
<1>1. CASE BeginCycle
  <2>1. Linked \cup Watched[admitted] \in SUBSET Apps
    BY DEF Linked, TypeInv, AppsTyped
  <2>2. Step("poller", "next") /\ admitted' = admitted
    BY <1>1 DEF BeginCycle, conditions
  <2>3. CallsTyped'
    BY <2>2, StepTyped DEF TypeInv
  <2> QED
    BY <1>1, <2>1, <2>3 DEF BeginCycle, TypeInv, AppsTyped, appVars, records, conditions
<1>2. CASE EndCycle
  <2>1. Step("poller", "idle") /\ admitted' = admitted
    BY <1>2 DEF EndCycle, conditions
  <2>2. CallsTyped'
    BY <2>1, StepTyped DEF TypeInv
  <2> QED
    BY <1>2, <2>2 DEF EndCycle, TypeInv, AppsTyped, appVars, records, conditions
<1>3. ASSUME NEW a \in Apps, pollAll(a) PROVE TypeInv'
  <2>1. listed[a] \in Tags /\ "poller" \in Callers
    BY DEF TypeInv, AppsTyped, Callers
  <2>2. elapsed' \in [Apps -> BOOLEAN]
    BY <1>3 DEF pollAll, MarkAttempt, TypeInv, AppsTyped
  <2>3. admitted' = admitted /\ CallsTyped
    BY <1>3 DEF pollAll, conditions, TypeInv
  <2>4. CASE call' = [call EXCEPT !["poller"] =
                   [Idle EXCEPT !.at = "resolve", !.app = a, !.seen = listed[a]]]
    <3>1. FitsCaller("poller", [Idle EXCEPT !.at = "resolve", !.app = a, !.seen = listed[a]])
      BY <2>1 DEF FitsCaller, Idle, Calls
    <3>2. CallsTyped'
      BY <2>1, <2>3, <2>4, <3>1, OneCallGoesOn
    <3> QED
      BY <1>3, <2>2, <3>2 DEF pollAll, TypeInv, AppsTyped, appVars, records, conditions
  <2>5. CASE call' = [call EXCEPT !["poller"] = [Idle EXCEPT !.at = "rollback", !.app = a]]
    <3>1. FitsCaller("poller", [Idle EXCEPT !.at = "rollback", !.app = a])
      BY <2>1 DEF FitsCaller, Idle, Calls
    <3>2. CallsTyped'
      BY <2>1, <2>3, <2>5, <3>1, OneCallGoesOn
    <3> QED
      BY <1>3, <2>2, <3>2 DEF pollAll, TypeInv, AppsTyped, appVars, records, conditions
  <2> QED
    BY <1>3, <2>4, <2>5 DEF pollAll
<1>4. ASSUME NEW a \in Apps, UserSync(a) PROVE TypeInv'
  <2>1. image[a] \in Tags /\ "user" \in Callers
    BY DEF TypeInv, AppsTyped, Callers
  <2>2. FitsCaller("user", [Idle EXCEPT !.at = "resolve", !.app = a, !.seen = image[a]])
    BY <2>1 DEF FitsCaller, Idle, Calls
  <2>3. CallsTyped'
    <3>1. /\ call' = [call EXCEPT !["user"] =
                [Idle EXCEPT !.at = "resolve", !.app = a, !.seen = image[a]]]
          /\ admitted' = admitted /\ CallsTyped
      BY <1>4 DEF UserSync, TypeInv, conditions
    <3> QED
      BY <2>1, <2>2, <3>1, OneCallGoesOn
  <2>4. elapsed' \in [Apps -> BOOLEAN]
    BY <1>4 DEF UserSync, MarkAttempt, TypeInv, AppsTyped
  <2> QED
    BY <1>4, <2>3, <2>4
       DEF UserSync, TypeInv, AppsTyped, appVars, records, cycleVars, conditions
<1>5. ASSUME NEW a \in Apps, BeginRollout(a) PROVE TypeInv'
  <2>1. FitsCaller("user", [Idle EXCEPT !.at = "rollout", !.app = a, !.about = "newest"])
    BY <1>5 DEF BeginRollout, FitsCaller, Idle, Calls
  <2>2. "user" \in Callers
    BY DEF Callers
  <2>3. CallsTyped'
    <3>1. /\ call' = [call EXCEPT !["user"] =
                [Idle EXCEPT !.at = "rollout", !.app = a, !.about = "newest"]]
          /\ admitted' = admitted /\ CallsTyped
      BY <1>5 DEF BeginRollout, TypeInv, conditions
    <3> QED
      BY <2>1, <2>2, <3>1, OneCallGoesOn
  <2> QED
    BY <1>5, <2>3
       DEF BeginRollout, TypeInv, AppsTyped, appVars, records, cycleVars, conditions
<1> QED
  BY <1>1, <1>2, <1>3, <1>4, <1>5

\* A synchronisation, of the poller's or the user's.
LEMMA SyncTyped ==
    ASSUME TypeInv, NEW p \in Callers, SyncRepositoryNow(p)
    PROVE  TypeInv'
<1> USE PollerAssumption
<1>1. CASE resolveDesiredState(p)
  <2> DEFINE c == [call[p] EXCEPT !.at = "create", !.want = fetchRemoteFile(call[p].app)]
  <2>1. call[p] \in Calls /\ call[p].app \in Apps /\ call[p].at = "resolve"
    BY <1>1 DEF resolveDesiredState, TypeInv, CallsTyped
  <2>2. fetchRemoteFile(call[p].app) \in Tags
    BY <2>1 DEF fetchRemoteFile, TypeInv, AppsTyped
  <2>3. FitsCaller(p, c)
    BY <2>1, <2>2 DEF FitsCaller, Calls
  <2>4. call' = [call EXCEPT ![p] = c] /\ admitted' = admitted
    BY <1>1 DEF resolveDesiredState, conditions
  <2>5. CallsTyped'
    BY <2>3, <2>4, OneCallGoesOn DEF TypeInv
  <2> QED
    BY <1>1, <2>5
       DEF resolveDesiredState, TypeInv, AppsTyped, appVars, records, cycleVars, conditions
<1>2. CASE SyncFails(p)
  <2>1. CallsTyped'
    BY <1>2, EndSyncTyped DEF SyncFails, TypeInv, conditions
  <2> QED
    BY <1>2, <2>1 DEF SyncFails, TypeInv, AppsTyped, appVars, records, cycleVars, conditions
<1>3. CASE CreateDeployment(p)
  <2>1. CallsTyped'
    BY <1>3, EndSyncTyped DEF CreateDeployment, TypeInv, conditions
  <2>2. claimed' \in BOOLEAN
    BY <1>3 DEF CreateDeployment, TypeInv, AppsTyped
  <2> QED
    BY <1>3, <2>1, <2>2
       DEF CreateDeployment, TypeInv, AppsTyped, appVars, records, cycleVars, conditions
<1> QED
  BY <1>1, <1>2, <1>3 DEF SyncRepositoryNow

\* The deployment that a call is about, and what is written of it.
LEMMA DeploymentTyped ==
    ASSUME TypeInv, NEW p \in Callers, call[p].app \in Apps
    PROVE  Deployment(p) \in Deployments
BY DEF TypeInv, AppsTyped, Deployment

LEMMA WriteTyped ==
    ASSUME TypeInv, NEW p \in Callers, call[p].app \in Apps, NEW d \in Deployments, Write(p, d)
    PROVE  latest' \in [Apps -> Deployments] /\ superseded' \in [Apps -> Deployments]
BY DEF TypeInv, AppsTyped, Write

LEMMA UpdateTyped ==
    ASSUME TypeInv, NEW p \in Callers, call[p].app \in Apps, NEW status \in Statuses,
           UpdateDeployment(p, status)
    PROVE  latest' \in [Apps -> Deployments] /\ superseded' \in [Apps -> Deployments]
<1>1. [Deployment(p) EXCEPT !.status = status] \in Deployments
  BY DeploymentTyped DEF Deployments
<1> QED
  BY <1>1, WriteTyped DEF UpdateDeployment

\* The poller looks at a deployment and takes it back.
LEMMA RollbackTyped ==
    ASSUME TypeInv,
           ReadDeployments \/ pollAutoRollback \/ NoRollback \/ MarkDeployment \/ appendEvent
    PROVE  TypeInv'
<1> USE PollerAssumption
<1> DEFINE a == call["poller"].app
<1>1. "poller" \in Callers /\ call["poller"] \in Calls
  BY DEF Callers, TypeInv, CallsTyped
<1>2. call["poller"].at \notin {"idle", "next"} => a \in Apps
  BY <1>1 DEF TypeInv, CallsTyped
<1>3. CASE ReadDeployments
  <2>1. admitted' = admitted /\ CallsTyped /\ a \in Apps
    BY <1>2, <1>3 DEF ReadDeployments, conditions, TypeInv
  <2>2. CASE Finish("poller")
    <3>1. CallsTyped'
      BY <1>1, <2>1, <2>2, FinishTyped
    <3> QED
      BY <1>3, <3>1
         DEF ReadDeployments, TypeInv, AppsTyped, appVars, records, cycleVars, conditions
  <2>3. CASE ~Finish("poller")
    <3> DEFINE c == [call["poller"] EXCEPT !.at = "metrics", !.want = rollbackTarget(a),
                                           !.about = "newest"]
    <3>1. selectAutoRollbackTarget(a) /\ call' = [call EXCEPT !["poller"] = c]
      BY <1>3, <2>3 DEF ReadDeployments
    <3>2. rollbackTarget(a) \in Tags
      BY <2>1, <3>1 DEF selectAutoRollbackTarget, rollbackTarget, TypeInv, AppsTyped
    <3>3. FitsCaller("poller", c)
      BY <1>1, <2>1, <3>2 DEF FitsCaller, Calls
    <3>4. CallsTyped'
      BY <1>1, <2>1, <3>1, <3>3, OneCallGoesOn
    <3> QED
      BY <1>3, <3>4
         DEF ReadDeployments, TypeInv, AppsTyped, appVars, records, cycleVars, conditions
  <2> QED
    BY <2>2, <2>3
<1>4. CASE pollAutoRollback
  <2>1. /\ admitted' = admitted /\ CallsTyped /\ a \in Apps
        /\ GoOn("poller", "mark") /\ call["poller"].at = "metrics"
    BY <1>1, <1>2, <1>4 DEF pollAutoRollback, conditions, TypeInv
  <2>2. CallsTyped'
    BY <2>1, GoOnTyped
  <2>3. latest' \in [Apps -> Deployments] /\ superseded' \in [Apps -> Deployments]
    <3>1. Deployment("poller") \in Deployments
      BY <1>1, <2>1, DeploymentTyped
    <3>2. [Deployment("poller") EXCEPT !.taken = IF @ = 2 THEN 2 ELSE @ + 1] \in Deployments
      BY <3>1 DEF Deployments
    <3> QED
      BY <1>1, <1>4, <2>1, <3>2, WriteTyped DEF pollAutoRollback
  <2> QED
    BY <1>4, <2>2, <2>3 DEF pollAutoRollback, TypeInv, AppsTyped, cycleVars, conditions
<1>5. CASE NoRollback
  <2>1. admitted' = admitted /\ Finish("poller")
    BY <1>5 DEF NoRollback, conditions
  <2>2. CallsTyped'
    BY <1>1, <2>1, FinishTyped DEF TypeInv
  <2> QED
    BY <1>5, <2>2 DEF NoRollback, TypeInv, AppsTyped, appVars, records, cycleVars, conditions
<1>6. CASE MarkDeployment
  <2>1. admitted' = admitted /\ Step("poller", "note") /\ call["poller"].at = "mark"
    BY <1>6 DEF MarkDeployment, conditions
  <2>2. CallsTyped'
    BY <2>1, StepTyped DEF TypeInv
  <2>3. latest' \in [Apps -> Deployments] /\ superseded' \in [Apps -> Deployments]
    <3>1. CASE UpdateDeployment("poller", "AutoRollbackTriggered")
      BY <1>1, <1>2, <2>1, <3>1, UpdateTyped DEF Statuses
    <3>2. CASE UNCHANGED records
      BY <3>2 DEF TypeInv, AppsTyped, records
    <3> QED
      BY <1>6, <3>1, <3>2 DEF MarkDeployment
  <2> QED
    BY <1>6, <2>2, <2>3 DEF MarkDeployment, TypeInv, AppsTyped, cycleVars, conditions
<1>7. CASE appendEvent
  <2>1. /\ admitted' = admitted /\ Finish("poller") /\ call["poller"].at = "note"
        /\ a \in Apps
    BY <1>2, <1>7 DEF appendEvent, conditions
  <2>2. CallsTyped'
    BY <1>1, <2>1, FinishTyped DEF TypeInv
  <2>3. latest' \in [Apps -> Deployments] /\ superseded' \in [Apps -> Deployments]
    <3>1. Deployment("poller") \in Deployments
      BY <1>1, <2>1, DeploymentTyped
    <3>2. [Deployment("poller") EXCEPT !.noted = TRUE] \in Deployments
      BY <3>1 DEF Deployments
    <3>3. CASE Write("poller", [Deployment("poller") EXCEPT !.noted = TRUE])
      BY <1>1, <2>1, <3>2, <3>3, WriteTyped
    <3>4. CASE UNCHANGED records
      BY <3>4 DEF TypeInv, AppsTyped, records
    <3> QED
      BY <1>7, <3>3, <3>4 DEF appendEvent
  <2> QED
    BY <1>7, <2>2, <2>3 DEF appendEvent, TypeInv, AppsTyped, cycleVars, conditions
<1> QED
  BY <1>3, <1>4, <1>5, <1>6, <1>7

\* A user's rollout ends.
LEMMA RolloutTyped ==
    ASSUME TypeInv, PromoteDeployment \/ AbortDeployment \/ RolloutFails
    PROVE  TypeInv'
<1>1. "user" \in Callers /\ (call["user"].at = "rollout" => call["user"].app \in Apps)
  BY DEF Callers, TypeInv, CallsTyped
<1>2. ASSUME NEW status \in Statuses, EndRollout(status)
      PROVE  TypeInv'
  <2>1. /\ admitted' = admitted /\ Finish("user") /\ call["user"].at = "rollout"
        /\ UpdateDeployment("user", status)
    BY <1>2 DEF EndRollout, conditions
  <2>2. CallsTyped'
    BY <1>1, <2>1, FinishTyped DEF TypeInv
  <2>3. latest' \in [Apps -> Deployments] /\ superseded' \in [Apps -> Deployments]
    BY <1>1, <2>1, UpdateTyped
  <2> QED
    BY <1>2, <2>2, <2>3 DEF EndRollout, TypeInv, AppsTyped, cycleVars, conditions
<1>3. CASE RolloutFails
  <2>1. admitted' = admitted /\ Finish("user")
    BY <1>3 DEF RolloutFails, conditions
  <2>2. CallsTyped'
    BY <1>1, <2>1, FinishTyped DEF TypeInv
  <2> QED
    BY <1>3, <2>2
       DEF RolloutFails, TypeInv, AppsTyped, appVars, records, cycleVars, conditions
<1> QED
  BY <1>2, <1>3 DEF PromoteDeployment, AbortDeployment, Statuses

LEMMA TypeStep ==
    ASSUME TypeInv, QueueInv, [Next]_vars
    PROVE  TypeInv'
<1>1. CASE UNCHANGED vars
  BY <1>1 DEF vars, TypeInv, AppsTyped, CallsTyped, CallInv, Admits
<1>2. CASE \/ \E a \in Apps, t \in Tags : Push(a, t)
           \/ \E a \in Apps : IntervalEnds(a) \/ rollbackEvaluationDelay(a)
           \/ SecondPasses \/ Crash
  BY <1>2, EnvironmentTyped
<1>3. CASE \/ BeginCycle \/ EndCycle
           \/ \E a \in Apps : pollAll(a) \/ UserSync(a) \/ BeginRollout(a)
  BY <1>3, BeginningsTyped
<1>4. CASE SyncRepositoryNow("poller") \/ SyncRepositoryNow("user")
  BY <1>4, SyncTyped DEF Callers
<1>5. CASE ReadDeployments \/ pollAutoRollback \/ NoRollback \/ MarkDeployment \/ appendEvent
  BY <1>5, RollbackTyped
<1>6. CASE PromoteDeployment \/ AbortDeployment \/ RolloutFails
  BY <1>6, RolloutTyped
<1>7. CASE \E i \in 1 .. MaxQueue :
             \/ executeDeploymentOperation(i) \/ AnswerIsLost(i) \/ AttemptFails(i)
             \/ OperationRefused(i)
  BY <1>7, WorkerTyped
<1> QED
  BY <1>1, <1>2, <1>3, <1>4, <1>5, <1>6, <1>7 DEF Next, Poll

\* Steps that have nothing to do with the queue.
LEMMA QueueStays ==
    ASSUME QueueInv, UNCHANGED <<queue, admitted>>
    PROVE  QueueInv'
<1>1. Queued' = Queued
  BY DEF Queued, Admits
<1> QED
  BY <1>1 DEF QueueInv

LEMMA QueueStep ==
    ASSUME TypeInv, QueueInv, [Next]_vars
    PROVE  QueueInv'
<1>1. CASE UNCHANGED vars
  BY <1>1, QueueStays DEF vars
<1>2. CASE \E a \in Apps, t \in Tags : Push(a, t)
  BY <1>2, QueueStays DEF Push, conditions
<1>3. ASSUME NEW a \in Apps,
             \/ IntervalEnds(a) \/ rollbackEvaluationDelay(a)
             \/ pollAll(a) \/ UserSync(a) \/ BeginRollout(a)
      PROVE  QueueInv'
  BY <1>3, QueueStays
     DEF IntervalEnds, rollbackEvaluationDelay, pollAll, UserSync, BeginRollout, conditions
<1>4. CASE \/ SecondPasses \/ BeginCycle \/ EndCycle \/ ReadDeployments \/ NoRollback
           \/ MarkDeployment \/ appendEvent
  BY <1>4, QueueStays
     DEF SecondPasses, BeginCycle, EndCycle, ReadDeployments, NoRollback, MarkDeployment,
         appendEvent, conditions
<1>5. CASE PromoteDeployment \/ AbortDeployment \/ RolloutFails
  BY <1>5, QueueStays
     DEF PromoteDeployment, AbortDeployment, EndRollout, RolloutFails, conditions
<1>6. ASSUME NEW p \in Callers, SyncRepositoryNow(p) PROVE QueueInv'
  <2>1. CASE resolveDesiredState(p) \/ SyncFails(p)
    BY <2>1, QueueStays DEF resolveDesiredState, SyncFails, conditions
  <2>2. CASE CreateDeployment(p)
    <3>1. call[p].app \in Apps /\ call[p].want \in Tags /\ admitted' = admitted
      BY <2>2 DEF CreateDeployment, TypeInv, CallsTyped, CallInv, conditions
    <3>2. Enqueue(call[p].app, call[p].want) \/ UNCHANGED queue
      BY <2>2 DEF CreateDeployment
    <3> QED
      BY <3>1, <3>2, EnqueueTyped, QueueStays
  <2> QED
    BY <1>6, <2>1, <2>2 DEF SyncRepositoryNow
<1>7. CASE pollAutoRollback
  <2>1. "poller" \in Callers /\ call["poller"].at = "metrics" /\ admitted' = admitted
    BY <1>7 DEF Callers, pollAutoRollback, conditions
  <2>2. call["poller"].app \in Apps /\ call["poller"].want \in Tags
    BY <2>1 DEF TypeInv, CallsTyped, CallInv
  <2>3. Enqueue(call["poller"].app, call["poller"].want)
    BY <1>7 DEF pollAutoRollback
  <2> QED
    BY <2>1, <2>2, <2>3, EnqueueTyped
<1>8. ASSUME NEW i \in 1 .. MaxQueue,
             \/ executeDeploymentOperation(i) \/ AnswerIsLost(i) \/ AttemptFails(i)
             \/ OperationRefused(i)
      PROVE  QueueInv'
  <2>1. admitted' = admitted
    BY <1>8
       DEF executeDeploymentOperation, AnswerIsLost, AttemptFails, OperationRefused, conditions
  <2>2. \/ executeDeploymentOperation(i) \/ AnswerIsLost(i) \/ AttemptFails(i)
        \/ Claimable(i) /\ Abandon(i)
    BY <1>8 DEF OperationRefused
  <2> QED
    BY <2>1, <2>2, WorkTyped
<1>9. CASE Crash
  <2>1. admitted' = admitted
    BY <1>9 DEF Crash
  <2>2. UNCHANGED queue \/ \E i \in DOMAIN queue : Claimable(i) /\ Abandon(i)
    BY <1>9 DEF Crash
  <2> QED
    BY <2>1, <2>2, QueueStays, WorkTyped
<1> QED
  BY <1>1, <1>2, <1>3, <1>4, <1>5, <1>6, <1>7, <1>8, <1>9 DEF Next, Poll, Callers

LEMMA TypeInit == Init => TypeInv /\ QueueInv
<1> SUFFICES ASSUME Init PROVE TypeInv /\ QueueInv
  OBVIOUS
<1> USE PollerAssumption
<1>1. NewDeployment \in Deployments
  BY DEF NewDeployment, Deployments, Statuses
<1>2. QueueInv
  BY DEF Init, QueueInv
<1>3. AppsTyped
  BY <1>1 DEF Init, AppsTyped
<1>4. CallsTyped
  BY DEF Init, CallsTyped, CallInv, Idle, Calls, Callers
<1> QED
  BY <1>2, <1>3, <1>4 DEF TypeInv

\* Every reachable state is well typed, and an operation in the queue has a tag
\* (pollAll, SyncRepositoryNow, pollAutoRollback).
THEOREM TypeCorrect == Spec => []TypeOK
<1>1. Init => TypeInv /\ QueueInv
  BY TypeInit
<1>2. TypeInv /\ QueueInv /\ [Next]_vars => (TypeInv /\ QueueInv)'
  BY TypeStep, QueueStep
<1>3. TypeInv /\ QueueInv => TypeOK
  BY TypeParts
<1> QED
  BY <1>1, <1>2, <1>3, PTL DEF Spec

-----------------------------------------------------------------------------

\* What can be relied on, in this behaviour, to keep a deployment from being taken back
\* again: the event, or the mark.
NoteIsKept == ~Admits("unnoted")
MarkIsKept == ~Admits("unmarked") /\ ~Admits("rollout") /\ ~Admits("retry")

\* The deployments of an application that can still be taken back, and the one of them that
\* a call can be about.
Kinds == {"newest", "superseded"}
DeploymentOf(a, about) == IF about = "superseded" THEN superseded[a] ELSE latest[a]

\* The poller is at one of these steps with that deployment of a.
Takes(a, about, steps) ==
    /\ call["poller"].at \in steps
    /\ call["poller"].app = a
    /\ call["poller"].about = about

\* A deployment that was taken back says so, or is about to; one that the poller looks at
\* has not been.
TakenOnce(a, about) ==
    /\ DeploymentOf(a, about).taken \in {0, 1}
    /\ DeploymentOf(a, about).taken = 1 /\ NoteIsKept =>
          DeploymentOf(a, about).noted \/ Takes(a, about, {"mark", "note"})
    /\ DeploymentOf(a, about).taken = 1 /\ MarkIsKept =>
          \/ DeploymentOf(a, about).status = "AutoRollbackTriggered"
          \/ Takes(a, about, {"mark"})
    /\ Takes(a, about, {"metrics"}) => DeploymentOf(a, about).taken = 0

RollbackInv ==
    ~Admits("crash") /\ (NoteIsKept \/ MarkIsKept) =>
        \A a \in Apps, about \in Kinds : TakenOnce(a, about)

\* A step that changes nothing of this, nor begins or ends a rollback.
QuietStep ==
    /\ admitted' = admitted
    /\ \A a \in Apps :
          /\ latest'[a].taken = latest[a].taken /\ superseded'[a] = superseded[a]
          /\ latest'[a].noted = latest[a].noted
          /\ latest'[a].status = latest[a].status
    /\ \/ call'["poller"] = call["poller"]
       \/ call["poller"].at \notin {"mark", "note"} /\ call'["poller"].at # "metrics"

\* What the conditions are does not change in a behaviour.
LEMMA RollbackStep ==
    ASSUME RollbackInv, admitted' = admitted,
           ASSUME NEW a \in Apps, NEW about \in Kinds, NoteIsKept \/ MarkIsKept,
                  \A kind \in Kinds : TakenOnce(a, kind)
           PROVE  TakenOnce(a, about)'
    PROVE  RollbackInv'
BY DEF RollbackInv, NoteIsKept, MarkIsKept, Admits

LEMMA QuietKeepsRollbackInv ==
    ASSUME RollbackInv, QuietStep
    PROVE  RollbackInv'
<1>1. admitted' = admitted
  BY DEF QuietStep
<1>2. ASSUME NEW a \in Apps, NEW about \in Kinds, TakenOnce(a, about)
      PROVE  TakenOnce(a, about)'
  <2>1. /\ DeploymentOf(a, about)'.taken = DeploymentOf(a, about).taken
        /\ DeploymentOf(a, about)'.noted = DeploymentOf(a, about).noted
        /\ DeploymentOf(a, about)'.status = DeploymentOf(a, about).status
    BY DEF QuietStep, DeploymentOf
  <2>2. CASE call'["poller"] = call["poller"]
    BY <1>1, <1>2, <2>1, <2>2 DEF TakenOnce, Takes, NoteIsKept, MarkIsKept, Admits
  <2>3. CASE call["poller"].at \notin {"mark", "note"} /\ call'["poller"].at # "metrics"
    BY <1>1, <1>2, <2>1, <2>3 DEF TakenOnce, Takes, NoteIsKept, MarkIsKept, Admits
  <2> QED
    BY <2>2, <2>3 DEF QuietStep
<1> QED
  BY <1>1, <1>2, RollbackStep

\* A deployment that nobody has taken back is no matter.
LEMMA UntakenIsKept ==
    ASSUME NEW a \in Apps, NEW about \in Kinds, DeploymentOf(a, about)'.taken = 0
    PROVE  TakenOnce(a, about)'
BY DEF TakenOnce

\* What the ends of the calls do to the caller, and to nobody else.
LEMMA PollerCalls ==
    ASSUME TypeInv
    PROVE  /\ \A at : Step("poller", at) =>
                 /\ call'["poller"].at = at
                 /\ call'["poller"].app = call["poller"].app
                 /\ call'["poller"].about = call["poller"].about
           /\ \A at : GoOn("poller", at) =>
                 /\ call'["poller"].at = at
                 /\ call'["poller"].app = call["poller"].app
                 /\ call'["poller"].about = call["poller"].about
           /\ Finish("poller") => call'["poller"].at = "next"
           /\ Finish("user") => call'["poller"] = call["poller"]
<1>1. call \in [Callers -> Calls] /\ "poller" \in Callers /\ "user" \in Callers
  BY DEF TypeInv, CallsTyped, Callers
<1>2. call["poller"] \in Calls
  BY <1>1
<1>3. ASSUME NEW at, Step("poller", at)
      PROVE  /\ call'["poller"].at = at
             /\ call'["poller"].app = call["poller"].app
             /\ call'["poller"].about = call["poller"].about
  BY <1>1, <1>2, <1>3 DEF Step, Calls
<1>4. ASSUME NEW at, GoOn("poller", at)
      PROVE  /\ call'["poller"].at = at
             /\ call'["poller"].app = call["poller"].app
             /\ call'["poller"].about = call["poller"].about
  BY <1>1, <1>2, <1>4 DEF GoOn, Calls
<1>5. Finish("poller") => call'["poller"].at = "next"
  BY <1>1 DEF Finish, Idle
<1>6. Finish("user") => call'["poller"] = call["poller"]
  BY <1>1 DEF Finish
<1> QED
  BY <1>3, <1>4, <1>5, <1>6

\* Most steps have nothing to do with a rollback.
LEMMA SurroundingsAreQuiet ==
    ASSUME \/ UNCHANGED vars \/ SecondPasses
           \/ \E a \in Apps, t \in Tags : Push(a, t)
           \/ \E a \in Apps : IntervalEnds(a)
           \/ \E i : AttemptFails(i)
    PROVE  QuietStep
BY DEF vars, SecondPasses, Push, IntervalEnds, AttemptFails, appVars, records, conditions,
       QuietStep

LEMMA DelayIsQuiet ==
    ASSUME TypeInv, NEW a \in Apps, rollbackEvaluationDelay(a)
    PROVE  QuietStep
<1>1. latest \in [Apps -> Deployments]
  BY DEF TypeInv, AppsTyped
<1>2. latest' = [latest EXCEPT ![a].ripe = TRUE] /\ UNCHANGED <<superseded, call, admitted>>
  BY DEF rollbackEvaluationDelay, conditions
<1> QED
  BY <1>1, <1>2 DEF Deployments, QuietStep

LEMMA BeginningsAreQuiet ==
    ASSUME TypeInv, NEW a \in Apps, pollAll(a) \/ UserSync(a) \/ BeginRollout(a)
    PROVE  QuietStep
<1>1. call \in [Callers -> Calls] /\ "poller" \in Callers /\ "user" \in Callers
  BY DEF TypeInv, CallsTyped, Callers
<1>2. CASE pollAll(a)
  <2>1. /\ UNCHANGED records /\ admitted' = admitted /\ call["poller"].at = "next"
        /\ \/ call' = [call EXCEPT !["poller"] =
                  [Idle EXCEPT !.at = "resolve", !.app = a, !.seen = listed[a]]]
           \/ call' = [call EXCEPT !["poller"] = [Idle EXCEPT !.at = "rollback", !.app = a]]
    BY <1>2 DEF pollAll, appVars, records, conditions
  <2>2. call'["poller"].at # "metrics"
    BY <1>1, <2>1 DEF Idle
  <2> QED
    BY <2>1, <2>2 DEF QuietStep, records
<1>3. CASE UserSync(a) \/ BeginRollout(a)
  BY <1>1, <1>3 DEF UserSync, BeginRollout, appVars, records, conditions, QuietStep, records
<1> QED
  BY <1>2, <1>3

LEMMA CyclesAreQuiet ==
    ASSUME TypeInv, BeginCycle \/ EndCycle
    PROVE  QuietStep
<1>1. /\ UNCHANGED records /\ admitted' = admitted /\ call["poller"].at \in {"idle", "next"}
      /\ Step("poller", "next") \/ Step("poller", "idle")
  BY DEF BeginCycle, EndCycle, appVars, records, conditions
<1> QED
  BY <1>1, PollerCalls DEF QuietStep, records

LEMMA SyncIsQuiet ==
    ASSUME TypeInv, NEW p \in Callers, SyncRepositoryNow(p)
    PROVE  QuietStep
<1>1. call \in [Callers -> Calls] /\ "poller" \in Callers /\ "user" \in Callers
  BY DEF TypeInv, CallsTyped, Callers
<1>2. UNCHANGED records /\ admitted' = admitted /\ call[p].at \in {"resolve", "create"}
  BY DEF SyncRepositoryNow, resolveDesiredState, SyncFails, CreateDeployment, appVars,
         records, conditions
<1>3. CASE resolveDesiredState(p)
  <2>1. call' = [call EXCEPT ![p].at = "create", ![p].want = fetchRemoteFile(call[p].app)]
    BY <1>3 DEF resolveDesiredState
  <2>2. p = "poller" => call'["poller"].at = "create"
    BY <1>1, <2>1 DEF Calls
  <2>3. p # "poller" => call'["poller"] = call["poller"]
    BY <1>1, <2>1
  <2> QED
    BY <1>2, <2>2, <2>3 DEF QuietStep, records
<1>4. CASE EndSync(p)
  <2>1. p = "poller" => GoOn("poller", "rollback")
    BY <1>4 DEF EndSync
  <2>2. p # "poller" => p = "user" /\ Finish("user")
    BY <1>4 DEF EndSync, Callers
  <2> QED
    BY <1>2, <2>1, <2>2, PollerCalls DEF QuietStep, records
<1> QED
  BY <1>3, <1>4 DEF SyncRepositoryNow, SyncFails, CreateDeployment

\* Nor has a look at a deployment that ends without one.
LEMMA EndingsAreQuiet ==
    ASSUME TypeInv, NoRollback \/ (ReadDeployments /\ Finish("poller")) \/ RolloutFails
    PROVE  QuietStep
<1>1. CASE NoRollback \/ (ReadDeployments /\ Finish("poller"))
  <2>1. /\ UNCHANGED records /\ admitted' = admitted /\ Finish("poller")
        /\ call["poller"].at \in {"rollback", "metrics"}
    BY <1>1 DEF NoRollback, ReadDeployments, appVars, records, conditions
  <2> QED
    BY <2>1, PollerCalls DEF QuietStep, records
<1>2. CASE RolloutFails
  <2>1. UNCHANGED records /\ admitted' = admitted /\ Finish("user")
    BY <1>2 DEF RolloutFails, appVars, records, conditions
  <2> QED
    BY <2>1, PollerCalls DEF QuietStep, records
<1> QED
  BY <1>1, <1>2

\* The worker gives an application a new deployment, which nobody has taken back, or writes
\* one again.
LEMMA ExecutionKeepsRollbackInv ==
    ASSUME TypeInv, RollbackInv, NEW op \in Operations, Execute(op), admitted' = admitted,
           op.tried # "no" => Admits("retry")
    PROVE  RollbackInv'
<1>1. /\ latest \in [Apps -> Deployments] /\ superseded \in [Apps -> Deployments]
      /\ op.app \in Apps /\ op.tried \in {"no", "failed", "newest", "superseded"}
  BY DEF TypeInv, AppsTyped, Operations
<1>2. ASSUME NEW a \in Apps, a # op.app, NEW about \in Kinds
      PROVE  DeploymentOf(a, about)' = DeploymentOf(a, about)
  BY <1>1, <1>2 DEF Execute, UpdateApplicationImage, DeploymentOf
<1>3. /\ call'["poller"].at = call["poller"].at /\ call'["poller"].app = call["poller"].app
      /\ call'["poller"].about = AboutAfter(call["poller"], op)
      /\ call["poller"].about \in {"newest", "superseded", "older"}
  <2>1. "poller" \in Callers /\ call["poller"] \in Calls
    BY DEF TypeInv, CallsTyped, Callers
  <2> QED
    BY <2>1, ExecuteTyped DEF Calls
<1>4. ASSUME NEW a \in Apps, a # op.app, NEW about \in Kinds, TakenOnce(a, about)
      PROVE  TakenOnce(a, about)'
  <2>1. \A steps : Takes(a, about, steps)' <=> Takes(a, about, steps)
    BY <1>3, <1>4 DEF Takes, AboutAfter
  <2>2. DeploymentOf(a, about)' = DeploymentOf(a, about)
    BY <1>2, <1>4
  <2> QED
    BY <1>4, <2>1, <2>2 DEF TakenOnce, NoteIsKept, MarkIsKept, Admits
<1> DEFINE b == op.app
           Stays(kind, after) ==
              /\ \A steps : Takes(b, after, steps)' <=> Takes(b, kind, steps)
              /\ DeploymentOf(b, after)'.taken = DeploymentOf(b, kind).taken
              /\ DeploymentOf(b, after)'.noted = DeploymentOf(b, kind).noted
              /\ MarkIsKept => DeploymentOf(b, after)'.status = DeploymentOf(b, kind).status
<1>5. ASSUME NEW kind \in Kinds, NEW after \in Kinds, Stays(kind, after), TakenOnce(b, kind)
      PROVE  TakenOnce(b, after)'
  BY <1>5 DEF TakenOnce, NoteIsKept, MarkIsKept, Admits
<1>6. /\ NewDeployment.taken = 0
      /\ \A d \in Deployments : /\ WrittenAgain(d).taken = d.taken
                                 /\ WrittenAgain(d).noted = d.noted
  BY DEF NewDeployment, WrittenAgain, Deployments
<1>7. CASE op.tried = "newest"
  <2>1. latest'[b] = WrittenAgain(latest[b]) /\ superseded'[b] = superseded[b]
    BY <1>1, <1>7 DEF Execute, UpdateApplicationImage, Supersedes
  <2>2. call'["poller"].about = call["poller"].about
    BY <1>3, <1>7 DEF AboutAfter
  <2>3. ~MarkIsKept /\ latest[b] \in Deployments
    BY <1>1, <1>7 DEF MarkIsKept
  <2>4. ASSUME NEW about \in Kinds PROVE Stays(about, about)
    BY <1>3, <1>6, <2>1, <2>2, <2>3 DEF DeploymentOf, Takes
  <2>5. ASSUME NEW about \in Kinds, TakenOnce(b, about) PROVE TakenOnce(b, about)'
    BY <1>5, <2>4, <2>5
  <2> QED
    BY <1>4, <2>5, RollbackStep
<1>8. CASE op.tried = "superseded"
  <2>1. /\ latest'[b] = WrittenAgain(superseded[b])
        /\ superseded'[b] = NewDeployment
    BY <1>1, <1>8 DEF Execute, UpdateApplicationImage, Supersedes
  <2>2. ~MarkIsKept /\ superseded[b] \in Deployments
    BY <1>1, <1>8 DEF MarkIsKept
  <2>3. call["poller"].app = b =>
            (call'["poller"].about = "newest" <=> call["poller"].about = "superseded")
    <3>1. ~Supersedes(op) /\ op.tried # "newest"
      BY <1>8 DEF Supersedes
    <3> QED
      BY <1>3, <1>8, <3>1 DEF AboutAfter
  <2>4. Stays("superseded", "newest")
    BY <1>3, <1>6, <2>1, <2>2, <2>3 DEF DeploymentOf, Takes
  <2>5. DeploymentOf(b, "superseded")'.taken = 0
    BY <1>6, <2>1 DEF DeploymentOf
  <2>6. ASSUME NEW about \in Kinds, \A kind \in Kinds : TakenOnce(b, kind)
        PROVE  TakenOnce(b, about)'
    BY <1>1, <1>5, <2>4, <2>5, <2>6, UntakenIsKept DEF Kinds
  <2> QED
    BY <1>4, <2>6, RollbackStep
<1>9. CASE op.tried \in {"no", "failed"} /\ Supersedes(op)
  <2>1. latest'[b] = NewDeployment /\ superseded'[b] = latest[b]
    BY <1>1, <1>9 DEF Execute, UpdateApplicationImage
  <2>2. call["poller"].app = b =>
            (call'["poller"].about = "superseded" <=> call["poller"].about = "newest")
    BY <1>3, <1>9 DEF AboutAfter
  <2>3. Stays("newest", "superseded")
    BY <1>3, <2>1, <2>2 DEF DeploymentOf, Takes
  <2>4. DeploymentOf(b, "newest")'.taken = 0
    BY <1>6, <2>1 DEF DeploymentOf
  <2>5. ASSUME NEW about \in Kinds, \A kind \in Kinds : TakenOnce(b, kind)
        PROVE  TakenOnce(b, about)'
    BY <1>1, <1>5, <2>3, <2>4, <2>5, UntakenIsKept DEF Kinds
  <2> QED
    BY <1>4, <2>5, RollbackStep
<1>10. CASE op.tried \in {"no", "failed"} /\ ~Supersedes(op)
  <2>1. latest'[b] = NewDeployment /\ superseded'[b] = superseded[b]
    BY <1>1, <1>10 DEF Execute, UpdateApplicationImage
  <2>2. call["poller"].app = b =>
            (call'["poller"].about = "superseded" <=> call["poller"].about = "superseded")
    BY <1>3, <1>10 DEF AboutAfter
  <2>3. Stays("superseded", "superseded")
    BY <1>3, <2>1, <2>2 DEF DeploymentOf, Takes
  <2>4. DeploymentOf(b, "newest")'.taken = 0
    BY <1>6, <2>1 DEF DeploymentOf
  <2>5. ASSUME NEW about \in Kinds, \A kind \in Kinds : TakenOnce(b, kind)
        PROVE  TakenOnce(b, about)'
    BY <1>1, <1>5, <2>3, <2>4, <2>5, UntakenIsKept DEF Kinds
  <2> QED
    BY <1>4, <2>5, RollbackStep
<1> QED
  BY <1>1, <1>7, <1>8, <1>9, <1>10

\* An operation that is given up takes a superseded deployment with it, and the calls that
\* are about it.
LEMMA RefusalKeepsRollbackInv ==
    ASSUME TypeInv, QueueInv, RollbackInv, NEW i, OperationRefused(i)
    PROVE  RollbackInv'
<1> DEFINE op == queue[i]
<1>1. /\ UNCHANGED latest /\ admitted' = admitted /\ superseded \in [Apps -> Deployments]
      /\ superseded' = IF op.tried = "superseded"
                       THEN [superseded EXCEPT ![op.app] = NewDeployment] ELSE superseded
  BY DEF OperationRefused, Abandon, conditions, TypeInv, AppsTyped
<1>2. /\ call'["poller"].at = call["poller"].at /\ call'["poller"].app = call["poller"].app
      /\ call'["poller"].about = AboutAfterAbandon(call["poller"], op)
  <2>1. "poller" \in Callers
    BY DEF Callers
  <2> QED
    BY <2>1, RefusedTyped
<1>3. ASSUME NEW a \in Apps, NEW about \in Kinds, TakenOnce(a, about)
      PROVE  TakenOnce(a, about)'
  <2>1. CASE a = op.app /\ about = "superseded" /\ op.tried = "superseded"
    <3>1. DeploymentOf(a, about)' = NewDeployment
      BY <1>1, <2>1 DEF DeploymentOf
    <3> QED
      BY <3>1, UntakenIsKept DEF NewDeployment
  <2>2. CASE ~(a = op.app /\ about = "superseded" /\ op.tried = "superseded")
    <3>1. DeploymentOf(a, about)' = DeploymentOf(a, about)
      BY <1>1, <2>2 DEF DeploymentOf, Kinds
    <3>2. \A steps : Takes(a, about, steps)' <=> Takes(a, about, steps)
      BY <1>2, <2>2 DEF Takes, AboutAfterAbandon, Kinds
    <3> QED
      BY <1>1, <1>3, <3>1, <3>2 DEF TakenOnce, NoteIsKept, MarkIsKept, Admits
  <2> QED
    BY <2>1, <2>2
<1> QED
  BY <1>1, <1>3, RollbackStep

\* The poller selects a deployment that no one has taken back.
LEMMA SelectionKeepsRollbackInv ==
    ASSUME TypeInv, RollbackInv, ReadDeployments
    PROVE  RollbackInv'
<1> DEFINE b == call["poller"].app
<1>1. CASE Finish("poller")
  BY <1>1, EndingsAreQuiet, QuietKeepsRollbackInv
<1>2. CASE ~Finish("poller")
  <2>1. /\ call["poller"].at = "rollback" /\ UNCHANGED records /\ admitted' = admitted
        /\ selectAutoRollbackTarget(b)
        /\ call' = [call EXCEPT !["poller"] =
               [@ EXCEPT !.at = "metrics", !.want = rollbackTarget(b), !.about = "newest"]]
    BY <1>2 DEF ReadDeployments, appVars, records, conditions
  <2>2. /\ call'["poller"].at = "metrics" /\ call'["poller"].app = b
        /\ call'["poller"].about = "newest"
    <3>1. call \in [Callers -> Calls] /\ "poller" \in Callers /\ call["poller"] \in Calls
      BY DEF TypeInv, CallsTyped, Callers
    <3> QED
      BY <2>1, <3>1 DEF Calls
  <2>3. ~latest[b].noted /\ latest[b].status # "AutoRollbackTriggered"
    BY <2>1 DEF selectAutoRollbackTarget, autoRollbackAlreadyTriggered
  <2>4. ASSUME NEW a \in Apps, NEW about \in Kinds, TakenOnce(a, about), NoteIsKept \/ MarkIsKept
        PROVE  TakenOnce(a, about)'
    <3>1. DeploymentOf(a, about)' = DeploymentOf(a, about)
      BY <2>1 DEF DeploymentOf, records
    <3>2. ~Takes(a, about, {"mark", "note"}) /\ ~Takes(a, about, {"mark"})
      BY <2>1 DEF Takes
    <3>3. a = b /\ about = "newest" => DeploymentOf(a, about).taken = 0
      BY <2>3, <2>4, <3>2 DEF TakenOnce, DeploymentOf
    <3>4. Takes(a, about, {"metrics"})' => a = b /\ about = "newest"
      BY <2>2 DEF Takes
    <3> QED
      BY <2>1, <2>4, <3>1, <3>2, <3>3, <3>4 DEF TakenOnce, NoteIsKept, MarkIsKept, Admits
  <2> QED
    BY <2>1, <2>4, RollbackStep
<1> QED
  BY <1>1, <1>2

\* What a call writes is of the deployment that it is about.
LEMMA WritesOne ==
    ASSUME TypeInv, NEW p \in Callers, call[p].app \in Apps, NEW d, Write(p, d),
           NEW a \in Apps, NEW about \in Kinds
    PROVE  DeploymentOf(a, about)' =
              IF a = call[p].app /\ about = call[p].about THEN d ELSE DeploymentOf(a, about)
BY DEF Write, DeploymentOf, Kinds, TypeInv, AppsTyped

LEMMA WritesItsOwn ==
    ASSUME TypeInv, NEW p \in Callers, call[p].app \in Apps
    PROVE  DeploymentOf(call[p].app, call[p].about) = Deployment(p)
BY DEF DeploymentOf, Deployment

\* It takes it back, which no one had done.
LEMMA RollbackKeepsRollbackInv ==
    ASSUME TypeInv, RollbackInv, pollAutoRollback
    PROVE  RollbackInv'
<1> DEFINE b == call["poller"].app
           d == [Deployment("poller") EXCEPT !.taken = IF @ = 2 THEN 2 ELSE @ + 1]
<1>1. /\ call["poller"].at = "metrics" /\ admitted' = admitted /\ GoOn("poller", "mark")
      /\ Write("poller", d) /\ "poller" \in Callers
  BY DEF pollAutoRollback, conditions, Callers
<1>2. /\ call'["poller"].at = "mark" /\ call'["poller"].app = b
      /\ call'["poller"].about = call["poller"].about /\ b \in Apps
  BY <1>1, PollerCalls DEF TypeInv, CallsTyped
<1>3. Deployment("poller") \in Deployments
  BY <1>1, <1>2, DeploymentTyped
<1>4. ASSUME NEW a \in Apps, NEW about \in Kinds, TakenOnce(a, about)
      PROVE  TakenOnce(a, about)'
  <2>1. CASE a = b /\ about = call["poller"].about
    <3>1. DeploymentOf(a, about) = Deployment("poller")
      BY <1>1, <1>2, <2>1, WritesItsOwn
    <3>2. Deployment("poller").taken = 0
      BY <1>1, <1>4, <2>1, <3>1 DEF TakenOnce, Takes
    <3>3. DeploymentOf(a, about)' = d
      BY <1>1, <1>2, <2>1, WritesOne
    <3>4. d.taken = 1
      BY <1>3, <3>2 DEF Deployments
    <3>5. /\ Takes(a, about, {"mark", "note"})' /\ Takes(a, about, {"mark"})'
          /\ ~Takes(a, about, {"metrics"})'
      BY <1>2, <2>1 DEF Takes
    <3> HIDE DEF d
    <3>6. DeploymentOf(a, about)'.taken = 1
      BY <3>3, <3>4
    <3> QED
      BY <3>5, <3>6 DEF TakenOnce
  <2>2. CASE a # b \/ about # call["poller"].about
    <3>1. DeploymentOf(a, about)' = DeploymentOf(a, about)
      BY <1>1, <1>2, <2>2, WritesOne
    <3>2. /\ ~Takes(a, about, {"mark", "note"}) /\ ~Takes(a, about, {"mark"})
          /\ ~Takes(a, about, {"metrics"})'
      BY <1>1, <1>2 DEF Takes
    <3> QED
      BY <1>1, <1>4, <3>1, <3>2 DEF TakenOnce, NoteIsKept, MarkIsKept, Admits
  <2> QED
    BY <2>1, <2>2
<1> QED
  BY <1>1, <1>4, RollbackStep

\* It marks the deployment, and records the event.
LEMMA MarkKeepsRollbackInv ==
    ASSUME TypeInv, RollbackInv, MarkDeployment
    PROVE  RollbackInv'
<1> DEFINE b == call["poller"].app
           d == [Deployment("poller") EXCEPT !.status = "AutoRollbackTriggered"]
<1>1. /\ call["poller"].at = "mark" /\ admitted' = admitted /\ Step("poller", "note")
      /\ Write("poller", d) \/ (Admits("unmarked") /\ UNCHANGED records)
      /\ "poller" \in Callers
  BY DEF MarkDeployment, UpdateDeployment, conditions, Callers
<1>2. /\ call'["poller"].at = "note" /\ call'["poller"].app = b
      /\ call'["poller"].about = call["poller"].about /\ b \in Apps
  BY <1>1, PollerCalls DEF TypeInv, CallsTyped
<1>3. Deployment("poller") \in Deployments
  BY <1>1, <1>2, DeploymentTyped
<1>4. /\ d.taken = Deployment("poller").taken /\ d.noted = Deployment("poller").noted
      /\ d.status = "AutoRollbackTriggered"
  BY <1>3 DEF Deployments
<1> HIDE DEF d
<1>5. ASSUME NEW a \in Apps, NEW about \in Kinds, TakenOnce(a, about)
      PROVE  TakenOnce(a, about)'
  <2>1. CASE Write("poller", d) /\ a = b /\ about = call["poller"].about
    <3>1. DeploymentOf(a, about) = Deployment("poller") /\ DeploymentOf(a, about)' = d
      BY <1>1, <1>2, <2>1, WritesOne, WritesItsOwn
    <3>2. /\ Takes(a, about, {"mark", "note"})' /\ Takes(a, about, {"mark", "note"})
          /\ ~Takes(a, about, {"metrics"})'
      BY <1>1, <1>2, <2>1 DEF Takes
    <3> QED
      BY <1>1, <1>4, <1>5, <3>1, <3>2 DEF TakenOnce, NoteIsKept, MarkIsKept, Admits
  <2>2. CASE ~(Write("poller", d) /\ a = b /\ about = call["poller"].about)
    <3>1. DeploymentOf(a, about)' = DeploymentOf(a, about)
      <4>1. CASE Write("poller", d)
        BY <1>1, <1>2, <2>2, <4>1, WritesOne
      <4>2. CASE UNCHANGED records
        BY <4>2 DEF DeploymentOf, records
      <4> QED
        BY <1>1, <4>1, <4>2
    <3>2. /\ Takes(a, about, {"mark", "note"})' <=> Takes(a, about, {"mark", "note"})
          /\ ~Takes(a, about, {"metrics"})'
      BY <1>1, <1>2 DEF Takes
    <3>3. ~Takes(a, about, {"mark"}) \/ ~MarkIsKept
      BY <1>1, <2>2 DEF Takes, MarkIsKept
    <3> QED
      BY <1>1, <1>5, <3>1, <3>2, <3>3 DEF TakenOnce, NoteIsKept, MarkIsKept, Admits
  <2> QED
    BY <2>1, <2>2
<1> QED
  BY <1>1, <1>5, RollbackStep

LEMMA EventKeepsRollbackInv ==
    ASSUME TypeInv, RollbackInv, appendEvent
    PROVE  RollbackInv'
<1> DEFINE b == call["poller"].app
           d == [Deployment("poller") EXCEPT !.noted = TRUE]
<1>1. /\ call["poller"].at = "note" /\ admitted' = admitted /\ Finish("poller")
      /\ Write("poller", d) \/ (Admits("unnoted") /\ UNCHANGED records)
      /\ "poller" \in Callers
  BY DEF appendEvent, conditions, Callers
<1>2. call'["poller"].at = "next" /\ b \in Apps
  BY <1>1, PollerCalls DEF TypeInv, CallsTyped
<1>3. Deployment("poller") \in Deployments
  BY <1>1, <1>2, DeploymentTyped
<1>4. /\ d.taken = Deployment("poller").taken /\ d.status = Deployment("poller").status
      /\ d.noted
  BY <1>3 DEF Deployments
<1> HIDE DEF d
<1>5. ASSUME NEW a \in Apps, NEW about \in Kinds, TakenOnce(a, about)
      PROVE  TakenOnce(a, about)'
  <2>1. ~Takes(a, about, {"mark"}) /\ ~Takes(a, about, {"metrics"})'
    BY <1>1, <1>2 DEF Takes
  <2>2. CASE Write("poller", d) /\ a = b /\ about = call["poller"].about
    <3>1. DeploymentOf(a, about) = Deployment("poller") /\ DeploymentOf(a, about)' = d
      BY <1>1, <1>2, <2>2, WritesOne, WritesItsOwn
    <3> QED
      BY <1>1, <1>4, <1>5, <2>1, <3>1 DEF TakenOnce, NoteIsKept, MarkIsKept, Admits
  <2>3. CASE ~(Write("poller", d) /\ a = b /\ about = call["poller"].about)
    <3>1. DeploymentOf(a, about)' = DeploymentOf(a, about)
      <4>1. CASE Write("poller", d)
        BY <1>1, <1>2, <2>3, <4>1, WritesOne
      <4>2. CASE UNCHANGED records
        BY <4>2 DEF DeploymentOf, records
      <4> QED
        BY <1>1, <4>1, <4>2
    <3>2. ~Takes(a, about, {"mark", "note"}) \/ ~NoteIsKept
      BY <1>1, <2>3 DEF Takes, NoteIsKept
    <3> QED
      BY <1>1, <1>5, <2>1, <3>1, <3>2 DEF TakenOnce, NoteIsKept, MarkIsKept, Admits
  <2> QED
    BY <2>2, <2>3
<1> QED
  BY <1>1, <1>5, RollbackStep

\* A user overwrites the mark only where rollouts are changed, which MarkIsKept excludes.
LEMMA RolloutKeepsRollbackInv ==
    ASSUME TypeInv, RollbackInv, NEW status \in Statuses, EndRollout(status)
    PROVE  RollbackInv'
<1> DEFINE b == call["user"].app
           d == [Deployment("user") EXCEPT !.status = status]
<1>1. /\ call["user"].at = "rollout" /\ admitted' = admitted /\ Finish("user")
      /\ Write("user", d) /\ "user" \in Callers
  BY DEF EndRollout, UpdateDeployment, conditions, Callers
<1>2. ~MarkIsKept /\ b \in Apps
  BY <1>1 DEF TypeInv, CallsTyped, CallInv, MarkIsKept
<1>3. call'["poller"] = call["poller"]
  BY <1>1, PollerCalls
<1>4. Deployment("user") \in Deployments
  BY <1>1, <1>2, DeploymentTyped
<1>5. d.taken = Deployment("user").taken /\ d.noted = Deployment("user").noted
  BY <1>4 DEF Deployments
<1> HIDE DEF d
<1>6. ASSUME NEW a \in Apps, NEW about \in Kinds, TakenOnce(a, about)
      PROVE  TakenOnce(a, about)'
  <2>1. /\ DeploymentOf(a, about)'.taken = DeploymentOf(a, about).taken
        /\ DeploymentOf(a, about)'.noted = DeploymentOf(a, about).noted
    BY <1>1, <1>2, <1>5, WritesOne, WritesItsOwn
  <2> QED
    BY <1>1, <1>2, <1>3, <1>6, <2>1 DEF TakenOnce, Takes, NoteIsKept, MarkIsKept, Admits
<1> QED
  BY <1>1, <1>6, RollbackStep

LEMMA RollbackInvStep ==
    ASSUME TypeInv, QueueInv, RollbackInv, [Next]_vars
    PROVE  RollbackInv'
<1>1. CASE UNCHANGED vars \/ SecondPasses
  BY <1>1, SurroundingsAreQuiet, QuietKeepsRollbackInv
<1>2. CASE \E a \in Apps, t \in Tags : Push(a, t)
  BY <1>2, SurroundingsAreQuiet, QuietKeepsRollbackInv
<1>3. ASSUME NEW a \in Apps,
             IntervalEnds(a) \/ rollbackEvaluationDelay(a)
             \/ pollAll(a) \/ UserSync(a) \/ BeginRollout(a)
      PROVE  RollbackInv'
  BY <1>3, SurroundingsAreQuiet, DelayIsQuiet, BeginningsAreQuiet, QuietKeepsRollbackInv
<1>4. CASE BeginCycle \/ EndCycle
  BY <1>4, CyclesAreQuiet, QuietKeepsRollbackInv
<1>5. CASE SyncRepositoryNow("poller") \/ SyncRepositoryNow("user")
  BY <1>5, SyncIsQuiet, QuietKeepsRollbackInv DEF Callers
<1>6. CASE NoRollback \/ RolloutFails
  BY <1>6, EndingsAreQuiet, QuietKeepsRollbackInv
<1>7. ASSUME NEW i \in 1 .. MaxQueue, executeDeploymentOperation(i) \/ AnswerIsLost(i)
      PROVE  RollbackInv'
  <2>1. i \in DOMAIN queue /\ Execute(queue[i]) /\ admitted' = admitted
    BY <1>7 DEF executeDeploymentOperation, AnswerIsLost, Claimable, conditions
  <2>2. queue[i] \in Operations /\ (queue[i].tried # "no" => Admits("retry"))
    BY <2>1, QueuedTyped DEF Queued
  <2> QED
    BY <2>1, <2>2, ExecutionKeepsRollbackInv
<1>8. ASSUME NEW i \in 1 .. MaxQueue, AttemptFails(i) PROVE RollbackInv'
  BY <1>8, SurroundingsAreQuiet, QuietKeepsRollbackInv
<1>9. ASSUME NEW i \in 1 .. MaxQueue, OperationRefused(i) PROVE RollbackInv'
  BY <1>9, RefusalKeepsRollbackInv
<1>10. CASE ReadDeployments
  BY <1>10, SelectionKeepsRollbackInv
<1>11. CASE pollAutoRollback
  BY <1>11, RollbackKeepsRollbackInv
<1>12. CASE MarkDeployment
  BY <1>12, MarkKeepsRollbackInv
<1>13. CASE appendEvent
  BY <1>13, EventKeepsRollbackInv
<1>14. CASE PromoteDeployment \/ AbortDeployment
  BY <1>14, RolloutKeepsRollbackInv DEF PromoteDeployment, AbortDeployment, Statuses
<1>15. CASE Crash
  BY <1>15 DEF Crash, RollbackInv, Admits
<1> QED
  BY <1>1, <1>2, <1>3, <1>4, <1>5, <1>6, <1>7, <1>8, <1>9, <1>10, <1>11, <1>12, <1>13,
     <1>14, <1>15 DEF Next, Poll

LEMMA RollbackInvInit == Init => RollbackInv
<1> SUFFICES ASSUME Init PROVE RollbackInv
  OBVIOUS
<1>1. \A a \in Apps : latest[a].taken = 0 /\ superseded[a].taken = 0
  BY DEF Init, NewDeployment
<1>2. call["poller"].at = "idle"
  BY DEF Init, Callers, Idle
<1>3. ASSUME NEW a \in Apps, NEW about \in Kinds PROVE TakenOnce(a, about)
  BY <1>1, <1>2 DEF TakenOnce, Takes, DeploymentOf
<1> QED
  BY <1>3 DEF RollbackInv

\* A deployment is taken back once, however often the poller comes round before the worker
\* carries the rollback out, as long as the event or the mark is kept: where operations are
\* tried again a deployment's record is written again without its mark, and the event is it
\* (selectAutoRollbackTarget, pollAutoRollback, UpdateDeployment, appendEvent).
THEOREM RolledBackOnce == Spec => []RollsBackOnce
<1>1. Init => TypeInv /\ QueueInv /\ RollbackInv
  BY TypeInit, RollbackInvInit
<1>2. TypeInv /\ QueueInv /\ RollbackInv /\ [Next]_vars => (TypeInv /\ QueueInv /\ RollbackInv)'
  BY TypeStep, QueueStep, RollbackInvStep
<1>3. TypeInv /\ RollbackInv => RollsBackOnce
  <2> SUFFICES ASSUME TypeInv, RollbackInv, ~Admits("crash"), NoteIsKept \/ MarkIsKept
               PROVE  \A a \in Apps : latest[a].taken <= 1 /\ superseded[a].taken <= 1
    BY DEF RollsBackOnce, NoteIsKept, MarkIsKept
  <2>1. ASSUME NEW a \in Apps
        PROVE  latest[a].taken <= 1 /\ superseded[a].taken <= 1
    <3>1. TakenOnce(a, "newest") /\ TakenOnce(a, "superseded")
      BY DEF RollbackInv, Kinds
    <3>2. latest[a].taken \in {0, 1} /\ superseded[a].taken \in {0, 1}
      BY <3>1 DEF TakenOnce, DeploymentOf
    <3> QED
      BY <3>2
  <2> QED
    BY <2>1
<1> QED
  BY <1>1, <1>2, <1>3, PTL DEF Spec

=============================================================================
