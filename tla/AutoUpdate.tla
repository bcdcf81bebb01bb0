------------------------------ MODULE AutoUpdate ------------------------------
(***************************************************************************)
(* The poller that keeps applications at the image tag their repositories  *)
(* ask for, and takes a deployment back whose metrics are bad.  Both put   *)
(* operations into the queue, from which the worker carries them out       *)
(* later: until it has, the poller sees the application as it was.         *)
(*                                                                         *)
(* A user may synchronise an application meanwhile, and promote or abort   *)
(* its deployment.  Of the history of an application the model keeps what  *)
(* the poller looks at: its newest deployment, and the newest tag before   *)
(* it that is another.  An operation that is tried again writes the record *)
(* of its own deployment again, as the newest: until it has been, the      *)
(* model keeps that record too.  Settings other than the tag are           *)
(* elsewhere.                                                              *)
(***************************************************************************)
EXTENDS Naturals, Sequences, SequencesExt

CONSTANTS
    Apps,
    Tags,
    Bad,            \* the tags that breach the thresholds of the rollback policy
    Initial,        \* the tag of an application at first
    NoTag, NoApp,
    MaxQueue,       \* bound: operations that wait at a time
    Asks,           \* for each scenario, the tags an application's repository may ask for
    Watched,        \* for each scenario, those with a rollback policy
    Scenarios       \* sets of disturbances: each behaviour admits one of them

\* With "sync" and "rollout" a user acts; with "crash" the server stops and starts once; with
\* "retry" an attempt fails, before or after its commit is on the remote, and is made again;
\* with "refused" the worker gives an operation up; with "unmarked" and "unnoted" the poller
\* fails to mark a deployment or to record the event; with "busy" its reads and requests fail.
Disturbances == {"sync", "rollout", "crash", "retry", "refused", "unmarked", "unnoted", "busy"}

ASSUME PollerAssumption ==
    /\ Bad \subseteq Tags /\ Initial \in Tags /\ NoTag \notin Tags
    /\ NoApp \notin Apps
    /\ MaxQueue \in Nat \ {0}
    /\ \A s \in Scenarios : Asks[s] \in [Apps -> SUBSET Tags] /\ Watched[s] \subseteq Apps
    /\ Scenarios \subseteq SUBSET Disturbances

VARIABLES
    repo,           \* the tag that each repository asks for
    image,          \* the tag in the application's manifests
    latest,         \* the application's newest deployment
    superseded,     \* an older one, whose operation will be tried again
    previous,       \* the tag of the newest deployment with another tag
    queue,          \* operations that wait for the worker
    claimed,        \* an automatic update has taken the request id of this second
    elapsed,        \* the interval of the application is over
    listed,         \* the tags that the poller's cycle began with
    todo,           \* the applications it has not come to
    call,           \* what the poller and the user do
    crashed,        \* has the server stopped, and was an operation under way?
    admitted

vars == <<repo, image, latest, superseded, previous, queue, claimed, elapsed, listed, todo, call,
          crashed, admitted>>
records == <<latest, superseded>>
appVars == <<image, records, previous>>
cycleVars == <<listed, todo>>
conditions == <<crashed, admitted>>

Admits(f) == f \in admitted

\* The applications that have a repository.
Linked == {a \in Apps : Asks[admitted][a] # {}}

Callers == {"poller", "user"}
Statuses == {"Syncing", "Promoted", "Aborted", "AutoRollbackTriggered"}

\* An operation of the queue: whether it has been tried, and if it has written a deployment
\* whether that is the newest.
Operations == [app : Apps, tag : Tags, tried : {"no", "failed", "newest", "superseded"}]

\* A new deployment; taken counts its rollbacks in the queue, up to two.
NewDeployment == [status |-> "Syncing", noted |-> FALSE, ripe |-> FALSE, taken |-> 0]

\* Nothing under way.  A call is about the newest deployment of its application, about the
\* one that is superseded, or about an older one.
Idle == [at |-> "idle", app |-> NoApp, seen |-> NoTag, want |-> NoTag, about |-> "older"]

Init ==
    /\ admitted \in Scenarios
    /\ repo \in {r \in [Apps -> Tags] :
           \A a \in Apps : r[a] \in IF a \in Linked THEN Asks[admitted][a] ELSE {Initial}}
    /\ image = [a \in Apps |-> Initial]
    /\ latest = [a \in Apps |-> NewDeployment]
    /\ superseded = [a \in Apps |-> NewDeployment]
    /\ previous = [a \in Apps |-> NoTag]
    /\ queue = <<>>
    /\ claimed = FALSE
    /\ elapsed = [a \in Apps |-> FALSE]
    /\ listed = [a \in Apps |-> Initial]
    /\ todo = {}
    /\ call = [p \in Callers |-> Idle]
    /\ crashed = "no"

Step(p, at) == call' = [call EXCEPT ![p].at = at]
GoOn(p, at) == call' = [call EXCEPT ![p] = [@ EXCEPT !.at = at, !.seen = NoTag, !.want = NoTag]]

\* The poller goes on to the next application; the user's call is over.
Finish(p) ==
    call' = [call EXCEPT ![p] = IF p = "poller" THEN [Idle EXCEPT !.at = "next"] ELSE Idle]

-----------------------------------------------------------------------------

\* Someone pushes a tag to the repository, a second passes, an interval or a delay ends.
Push(a, t) ==
    /\ t \in Asks[admitted][a] \ {repo[a]}
    /\ repo' = [repo EXCEPT ![a] = t]
    /\ UNCHANGED <<appVars, queue, claimed, elapsed, cycleVars, call, conditions>>

SecondPasses ==
    /\ claimed
    /\ claimed' = FALSE
    /\ UNCHANGED <<repo, appVars, queue, elapsed, cycleVars, call, conditions>>

IntervalEnds(a) ==
    /\ a \in Linked /\ ~elapsed[a]
    /\ elapsed' = [elapsed EXCEPT ![a] = TRUE]
    /\ UNCHANGED <<repo, appVars, queue, claimed, cycleVars, call, conditions>>

rollbackEvaluationDelay(a) ==
    /\ a \in Watched[admitted] /\ ~latest[a].ripe
    /\ latest' = [latest EXCEPT ![a].ripe = TRUE]
    /\ UNCHANGED <<repo, image, superseded, previous, queue, claimed, elapsed, cycleVars, call,
                   conditions>>

\* The worker takes an operation whose next attempt is due, or the oldest of the others.
Claimable(i) ==
    /\ i \in DOMAIN queue
    /\ queue[i].tried = "no" => \A j \in 1 .. i - 1 : queue[j].tried # "no"

\* Written again, a record has the status and the time of a new deployment; the events
\* that name it remain.
WrittenAgain(deployment) == [deployment EXCEPT !.status = "Syncing", !.ripe = FALSE]

\* The operation writes the image and the record of its deployment, which is the newest.
UpdateApplicationImage(op) ==
    /\ image' = [image EXCEPT ![op.app] = op.tag]
    /\ previous' = [previous EXCEPT ![op.app] = IF op.tag = image[op.app] THEN @ ELSE image[op.app]]
    /\ latest' = [latest EXCEPT ![op.app] =
           CASE op.tried = "newest"     -> WrittenAgain(@)
             [] op.tried = "superseded" -> WrittenAgain(superseded[op.app])
             [] OTHER                   -> NewDeployment]

\* An operation other than op will write the newest deployment of op's application again.
Supersedes(op) ==
    /\ op.tried \in {"no", "failed"}
    /\ \E j \in DOMAIN queue : queue[j].tried = "newest" /\ queue[j].app = op.app

\* What a call is about once op has been carried out.
AboutAfter(c, op) ==
    IF c.app # op.app \/ op.tried = "newest" THEN c.about
    ELSE CASE c.about = "newest" /\ Supersedes(op) -> "superseded"
           [] c.about = "superseded" /\ op.tried = "superseded" -> "newest"
           [] c.about = "superseded" /\ op.tried # "superseded" /\ ~Supersedes(op) -> "superseded"
           [] OTHER -> "older"

\* A deployment that will be written again is kept, and one that was need not be.
Execute(op) ==
    /\ UpdateApplicationImage(op)
    /\ superseded' = [superseded EXCEPT ![op.app] =
           IF Supersedes(op) THEN latest[op.app]
           ELSE IF op.tried = "superseded" THEN NewDeployment ELSE @]
    /\ call' = [p \in Callers |-> [call[p] EXCEPT !.about = AboutAfter(call[p], op)]]

\* The operations when op has been carried out: none other wrote the newest deployment.
Aged(op) ==
    [j \in DOMAIN queue |->
        IF Supersedes(op) /\ queue[j].tried = "newest" /\ queue[j].app = op.app
        THEN [queue[j] EXCEPT !.tried = "superseded"] ELSE queue[j]]

\* Bound: no copy of a superseded deployment's record is about to be written, with the time
\* it had before, when the record is written again.
NoOldCopy(op) ==
    op.tried = "superseded" =>
        \A p \in Callers :
            call[p].app = op.app /\ call[p].about = "superseded" => call[p].at = "note"

\* The worker carries an operation out.
executeDeploymentOperation(i) ==
    /\ Claimable(i) /\ NoOldCopy(queue[i])
    /\ Execute(queue[i])
    /\ queue' = RemoveAt(Aged(queue[i]), i)
    /\ UNCHANGED <<repo, claimed, elapsed, cycleVars, conditions>>

\* Bound: one operation of an application at a time waits for another attempt.
OnlyRetry(i) ==
    \A j \in DOMAIN queue : j # i /\ queue[j].app = queue[i].app => queue[j].tried = "no"

\* The commit is on the remote, but the attempt fails, and will be made again.
AnswerIsLost(i) ==
    /\ Admits("retry") /\ Claimable(i)
    /\ OnlyRetry(i) /\ NoOldCopy(queue[i])
    /\ Execute(queue[i])
    /\ queue' = [queue EXCEPT ![i].tried = "newest"]
    /\ UNCHANGED <<repo, claimed, elapsed, cycleVars, conditions>>

\* The attempt fails, nothing was written, and it will be made again.
AttemptFails(i) ==
    /\ Admits("retry") /\ Claimable(i)
    /\ OnlyRetry(i)
    /\ queue[i].tried = "no"
    /\ queue' = [queue EXCEPT ![i].tried = "failed"]
    /\ UNCHANGED <<repo, appVars, claimed, elapsed, cycleVars, call, conditions>>

\* An operation is not tried again, nor is its deployment written again.
Abandon(i) ==
    /\ queue' = RemoveAt(queue, i)
    /\ superseded' = IF queue[i].tried = "superseded"
                     THEN [superseded EXCEPT ![queue[i].app] = NewDeployment] ELSE superseded

\* Nobody needs to know it any more.
AboutAfterAbandon(c, op) ==
    IF c.app = op.app /\ op.tried = "superseded" /\ c.about = "superseded" THEN "older" ELSE c.about

\* The image is not there, the attempts are used up, or the attempt is not recorded and its
\* row stays Running.
OperationRefused(i) ==
    /\ Admits("refused") /\ Claimable(i)
    /\ Abandon(i)
    /\ call' = [p \in Callers |-> [call[p] EXCEPT !.about = AboutAfterAbandon(call[p], queue[i])]]
    /\ UNCHANGED <<repo, image, latest, previous, claimed, elapsed, cycleVars, conditions>>

\* The tracker and the calls are in memory; the queue is not, but the row of an operation
\* under way stays Running, and no worker takes it again.
Crash ==
    /\ Admits("crash") /\ crashed = "no"
    /\ \/ crashed' = "idle" /\ UNCHANGED <<queue, superseded>>
       \/ crashed' = "working" /\ \E i \in DOMAIN queue : Claimable(i) /\ Abandon(i)
    /\ elapsed' = [a \in Apps |-> FALSE]
    /\ todo' = {}
    /\ listed' = [a \in Apps |-> Initial]
    /\ call' = [p \in Callers |-> Idle]
    /\ UNCHANGED <<repo, image, latest, previous, claimed, admitted>>

-----------------------------------------------------------------------------

\* A cycle begins with the applications as they are.
BeginCycle ==
    /\ call["poller"].at = "idle"
    /\ todo' = Linked \cup Watched[admitted]
    /\ listed' = image
    /\ Step("poller", "next")
    /\ UNCHANGED <<repo, appVars, queue, claimed, elapsed, conditions>>

\* There is no application left, or no time.
EndCycle ==
    /\ call["poller"].at = "next"
    /\ todo = {} \/ Admits("busy")
    /\ todo' = {}
    /\ listed' = [a \in Apps |-> Initial]
    /\ Step("poller", "idle")
    /\ UNCHANGED <<repo, appVars, queue, claimed, elapsed, conditions>>

\* The interval runs from the last check, or from the start of the server.
Due(a) == elapsed[a]

\* A check counts from its beginning, however it ends.
MarkAttempt(a) == elapsed' = [elapsed EXCEPT ![a] = FALSE]

\* An application with a repository is synchronised if it is due; afterwards, and if it
\* is not, its deployment is looked at.
pollAll(a) ==
    /\ call["poller"].at = "next"
    /\ a \in todo
    /\ todo' = todo \ {a}
    /\ IF a \in Linked /\ Due(a)
       THEN /\ MarkAttempt(a)
            /\ call' = [call EXCEPT !["poller"] =
                   [Idle EXCEPT !.at = "resolve", !.app = a, !.seen = listed[a]]]
       ELSE /\ call' = [call EXCEPT !["poller"] = [Idle EXCEPT !.at = "rollback", !.app = a]]
            /\ UNCHANGED elapsed
    /\ UNCHANGED <<repo, appVars, queue, claimed, listed, conditions>>

\* A user synchronises an application.
UserSync(a) ==
    /\ Admits("sync")
    /\ call["user"].at = "idle"
    /\ a \in Linked
    /\ MarkAttempt(a)
    /\ call' = [call EXCEPT !["user"] =
           [Idle EXCEPT !.at = "resolve", !.app = a, !.seen = image[a]]]
    /\ UNCHANGED <<repo, appVars, queue, claimed, cycleVars, conditions>>

\* Mutant: a user's call goes on to the deployment.
SyncThenRollback(p) == GoOn(p, "rollback")

\* After a synchronisation the poller looks at the deployment.
EndSync(p) == IF p = "poller" THEN GoOn(p, "rollback") ELSE Finish(p)

\* The file at the head of the repository's branch.
fetchRemoteFile(a) == repo[a]

resolveDesiredState(p) ==
    /\ call[p].at = "resolve"
    /\ call' = [call EXCEPT ![p].at = "create", ![p].want = fetchRemoteFile(call[p].app)]
    /\ UNCHANGED <<repo, appVars, queue, claimed, elapsed, cycleVars, conditions>>

\* A secret, a file or the application cannot be read, or the request is not taken.
SyncFails(p) ==
    /\ Admits("busy")
    /\ call[p].at \in {"resolve", "create"}
    /\ EndSync(p)
    /\ UNCHANGED <<repo, appVars, queue, claimed, elapsed, cycleVars, conditions>>

Enqueue(a, t) ==
    /\ Len(queue) < MaxQueue
    /\ queue' = Append(queue, [app |-> a, tag |-> t, tried |-> "no"])

\* Mutant: a tag that was deployed before is taken for a rollback.
OtherThanBefore(p) == call[p].want \notin {call[p].seen, previous[call[p].app]}

\* The tag differs from the one the call began with.
Differs(p) == call[p].want # call[p].seen

\* A deployment is requested.  Its id is the second: if another has taken it, the queue
\* keeps the other operation and answers as if it had taken this one.
CreateDeployment(p) ==
    /\ call[p].at = "create"
    /\ EndSync(p)
    /\ IF Differs(p) /\ ~claimed
       THEN Enqueue(call[p].app, call[p].want) /\ claimed' = TRUE
       ELSE UNCHANGED <<queue, claimed>>
    /\ UNCHANGED <<repo, appVars, elapsed, cycleVars, conditions>>

-----------------------------------------------------------------------------

\* Mutant: the earlier deployment may have the same tag.
SameTag(a) == image[a]

rollbackTarget(a) == previous[a]

autoRollbackAlreadyTriggered(a) == latest[a].noted

\* The newest deployment can be taken back: it has run for a while, nobody has done so
\* yet, and there is an earlier tag.
selectAutoRollbackTarget(a) ==
    /\ a \in Watched[admitted]
    /\ previous[a] # NoTag
    /\ latest[a].status \notin {"Aborted", "AutoRollbackTriggered"}
    /\ latest[a].ripe
    /\ ~autoRollbackAlreadyTriggered(a)

\* The poller reads the application again, its history and its policy.
ReadDeployments ==
    /\ call["poller"].at = "rollback"
    /\ LET a == call["poller"].app IN
       IF selectAutoRollbackTarget(a)
       THEN \/ call' = [call EXCEPT !["poller"] =
                   [@ EXCEPT !.at = "metrics", !.want = rollbackTarget(a), !.about = "newest"]]
            \/ Admits("busy") /\ Finish("poller")
       ELSE Finish("poller")
    /\ UNCHANGED <<repo, appVars, queue, claimed, elapsed, cycleVars, conditions>>

\* The deployment that a call is about.
Deployment(p) ==
    IF call[p].about = "superseded" THEN superseded[call[p].app] ELSE latest[call[p].app]

\* What is written of a deployment that is older than these has no effect here.
Write(p, deployment) ==
    /\ latest' = IF call[p].about = "newest"
                 THEN [latest EXCEPT ![call[p].app] = deployment] ELSE latest
    /\ superseded' = IF call[p].about = "superseded"
                     THEN [superseded EXCEPT ![call[p].app] = deployment] ELSE superseded

\* The metrics are bad: the earlier tag is deployed.
pollAutoRollback ==
    /\ call["poller"].at = "metrics"
    /\ image[call["poller"].app] \in Bad
    /\ Enqueue(call["poller"].app, call["poller"].want)
    /\ Write("poller", [Deployment("poller") EXCEPT !.taken = IF @ = 2 THEN 2 ELSE @ + 1])
    /\ GoOn("poller", "mark")
    /\ UNCHANGED <<repo, image, previous, claimed, elapsed, cycleVars, conditions>>

\* They are not, or cannot be read, or the request is not taken.
NoRollback ==
    /\ call["poller"].at = "metrics"
    /\ image[call["poller"].app] \notin Bad \/ Admits("busy")
    /\ Finish("poller")
    /\ UNCHANGED <<repo, appVars, queue, claimed, elapsed, cycleVars, conditions>>

\* Mutant: the deployment is not marked.
Unmarked(p, status) == UNCHANGED records

UpdateDeployment(p, status) == Write(p, [Deployment(p) EXCEPT !.status = status])

MarkDeployment ==
    /\ call["poller"].at = "mark"
    /\ \/ UpdateDeployment("poller", "AutoRollbackTriggered")
       \/ Admits("unmarked") /\ UNCHANGED records
    /\ Step("poller", "note")
    /\ UNCHANGED <<repo, image, previous, queue, claimed, elapsed, cycleVars, conditions>>

appendEvent ==
    /\ call["poller"].at = "note"
    /\ \/ Write("poller", [Deployment("poller") EXCEPT !.noted = TRUE])
       \/ Admits("unnoted") /\ UNCHANGED records
    /\ Finish("poller")
    /\ UNCHANGED <<repo, image, previous, queue, claimed, elapsed, cycleVars, conditions>>

\* A user reads the deployment, has the rollout promoted or aborted, and writes what it
\* read, with the new status.
BeginRollout(a) ==
    /\ Admits("rollout")
    /\ call["user"].at = "idle"
    /\ a \in Watched[admitted]
    /\ call' = [call EXCEPT !["user"] = [Idle EXCEPT !.at = "rollout", !.app = a, !.about = "newest"]]
    /\ UNCHANGED <<repo, appVars, queue, claimed, elapsed, cycleVars, conditions>>

EndRollout(status) ==
    /\ call["user"].at = "rollout"
    /\ UpdateDeployment("user", status)
    /\ Finish("user")
    /\ UNCHANGED <<repo, image, previous, queue, claimed, elapsed, cycleVars, conditions>>

PromoteDeployment == EndRollout("Promoted")
AbortDeployment == EndRollout("Aborted")

\* The rollout cannot be promoted or aborted.
RolloutFails ==
    /\ call["user"].at = "rollout"
    /\ Finish("user")
    /\ UNCHANGED <<repo, appVars, queue, claimed, elapsed, cycleVars, conditions>>

-----------------------------------------------------------------------------

SyncRepositoryNow(p) == resolveDesiredState(p) \/ SyncFails(p) \/ CreateDeployment(p)

Poll ==
    \/ BeginCycle \/ EndCycle \/ SyncRepositoryNow("poller")
    \/ ReadDeployments \/ pollAutoRollback \/ NoRollback \/ MarkDeployment \/ appendEvent

Next ==
    \/ \E a \in Apps, t \in Tags : Push(a, t)
    \/ SecondPasses
    \/ \E a \in Apps : IntervalEnds(a) \/ rollbackEvaluationDelay(a) \/ pollAll(a)
    \/ \E a \in Apps : UserSync(a) \/ BeginRollout(a)
    \/ SyncRepositoryNow("user") \/ PromoteDeployment \/ AbortDeployment \/ RolloutFails
    \/ Poll
    \/ \E i \in 1 .. MaxQueue :
          executeDeploymentOperation(i) \/ AnswerIsLost(i) \/ AttemptFails(i) \/ OperationRefused(i)
    \/ Crash

Spec == Init /\ [][Next]_vars

\* Time passes, the poller goes round, and the worker carries operations out, those it tries
\* again too; reads, requests and attempts that fail do not fail for ever.
FairSpec ==
    /\ Spec
    /\ WF_vars(SecondPasses)
    /\ \A a \in Apps :
          /\ WF_vars(IntervalEnds(a))
          /\ WF_vars(rollbackEvaluationDelay(a))
          /\ SF_vars(pollAll(a))
          /\ SF_vars(call["poller"].app = a /\ resolveDesiredState("poller"))
          /\ SF_vars(call["poller"].app = a /\ CreateDeployment("poller"))
    /\ WF_vars(Poll)
    /\ SF_vars(\E i \in DOMAIN queue : queue[i].tried = "no" /\ executeDeploymentOperation(i))
    /\ SF_vars(\E i \in DOMAIN queue : queue[i].tried # "no" /\ executeDeploymentOperation(i))

-----------------------------------------------------------------------------

Deployments == [status : Statuses, noted : BOOLEAN, ripe : BOOLEAN, taken : 0..2]

Calls == [at : {"idle", "next", "resolve", "create", "rollback", "metrics", "mark", "note",
                "rollout"},
          app : Apps \cup {NoApp}, seen : Tags \cup {NoTag}, want : Tags \cup {NoTag},
          about : {"newest", "superseded", "older"}]

\* The variables keep their types; a user's call has the steps of a user, and a call
\* under way is about an application.
TypeOK ==
    /\ repo \in [Apps -> Tags] /\ image \in [Apps -> Tags]
    /\ latest \in [Apps -> Deployments] /\ superseded \in [Apps -> Deployments]
    /\ previous \in [Apps -> Tags \cup {NoTag}]
    /\ queue \in Seq(Operations) /\ Len(queue) <= MaxQueue
    /\ claimed \in BOOLEAN
    /\ elapsed \in [Apps -> BOOLEAN]
    /\ listed \in [Apps -> Tags]
    /\ todo \in SUBSET Apps
    /\ call \in [Callers -> Calls]
    /\ call["user"].at \in {"idle", "resolve", "create", "rollout"}
    /\ \A p \in Callers : call[p].at \notin {"idle", "next"} => call[p].app \in Apps
    /\ crashed \in {"no", "idle", "working"}
    /\ admitted \in Scenarios

\* A deployment is taken back once, although the poller comes round many times before
\* the worker carries the rollback out: it is marked and an event records it, and either
\* is enough, be the other lost, or the mark overwritten by a user who has the rollout
\* promoted with a copy from before, or by a second attempt at the deployment.
RollsBackOnce ==
    \/ \A a \in Apps : latest[a].taken <= 1 /\ superseded[a].taken <= 1
    \/ Admits("crash")
    \/ (Admits("unnoted") /\ \E f \in {"unmarked", "rollout", "retry"} : Admits(f))

\* Once nobody pushes any more, every application comes to run the tag its repository asks
\* for, and stays with it: whatever older operations still wait, ids collide, checks fail,
\* operations are refused or tried again, and the server starts again.
TagIsRun ==
    \A a \in Apps :
        <>[][FALSE]_repo =>
            <>[](image[a] = repo[a] \/ a \notin Linked \ Watched[admitted])

\* It was taken back, and deployed again by a second attempt at the same operation.
DeployedAgain(a) ==
    Admits("retry") /\ latest[a].noted /\ latest[a].status # "AutoRollbackTriggered"

\* A tag with bad metrics is taken back whenever there is an earlier one, although the
\* repository may ask for it again at once, unless a user aborts the rollout, reads go on
\* failing, or no one takes it back a second time: the worker gave the rollback up, the server
\* stopped within an operation, or the deployment was written again after its rollback.
BadTagLeaves ==
    \A a \in Apps, t \in Bad :
        image[a] = t /\ previous[a] # NoTag /\ a \in Watched[admitted] ~>
            \/ image[a] # t
            \/ latest[a].status = "Aborted"
            \/ Admits("busy") \/ Admits("refused")
            \/ crashed = "working" \/ DeployedAgain(a)

=============================================================================
