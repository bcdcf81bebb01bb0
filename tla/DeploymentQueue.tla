--------------------------- MODULE DeploymentQueue ---------------------------
(***************************************************************************)
(* The durable deployment queue of the backend: the MariaDB tables         *)
(* aods_deployment_operations and aods_operation_locks, the workers that   *)
(* claim operations from them (one goroutine per backend process), and the *)
(* Git desired state those workers write.                                  *)
(*                                                                         *)
(* Time is counted in ticks of one minute, the unit of the retry backoff.  *)
(* Every timestamp the code compares with "now" is kept as the time left   *)
(* until it passes, so that the clock itself needs no bound.               *)
(***************************************************************************)
EXTENDS Integers, FiniteSets

CONSTANTS
    Workers,        \* worker ids: the host names of the backend processes
    Requests,       \* deployment requests that clients and the poller make
    Ids,            \* operation ids, the primary key of the queue
    IdOf,           \* the id derived from a request's request id
    Apps, AppOf,    \* applications, and the one each request is for
    Envs, EnvOf,    \* environments, and the one each request targets
    LockKeys, KeyOf,\* git write locks, and the one each request needs
    Lease,          \* lease duration in ticks
    MaxAttempts,    \* attempts of an operation before it fails for good
    BatchLimit,     \* LIMIT of the claim query
    NoWorker, NoRequest, NoId, NoEnv,   \* NULL columns and empty variables
    Scenarios,      \* sets of disturbances, one of which a behaviour admits
    MaxFaults       \* bound on process crashes and lost database calls

(* retryable, permanent: executing an operation may return such an error;    *)
(* pushlost: a push takes effect but its answer is lost; db: a transaction   *)
(* fails, or commits and its answer is lost; crash: a process stops; slow:   *)
(* work outlasts its lease; edit: others commit to the branch, too; overlap: *)
(* claim transactions overlap; oldread: a worker reads the environment of an *)
(* application from a worktree that others have left behind.                 *)
Disturbances ==
    {"retryable", "permanent", "pushlost", "db", "crash", "slow", "edit", "overlap",
     "oldread"}

ASSUME QueueAssumption ==
    /\ IsFiniteSet(Ids)
    /\ IdOf \in [Requests -> Ids]
    /\ AppOf \in [Requests -> Apps]
    /\ EnvOf \in [Requests -> Envs]
    /\ KeyOf \in [Requests -> LockKeys]
    /\ NoWorker \notin Workers
    /\ NoRequest \notin Requests
    /\ NoId \notin Ids
    /\ NoEnv \notin Envs
    /\ Lease \in Nat \ {0}
    /\ MaxAttempts \in Nat \ {0}
    /\ BatchLimit \in Nat \ {0}
    /\ Scenarios \subseteq SUBSET Disturbances
    /\ MaxFaults \in Nat

\* The server names the lock after the remote and the branch, of which there is one
\* (server.go:346), so that every request needs the same lock.
ASSUME BranchAssumption == \A r, s \in Requests : KeyOf[r] = KeyOf[s]

VARIABLES
    (* aods_deployment_operations, a row for every id *)
    status,         \* "Absent" when there is no such row
    request,        \* the request whose columns the row holds
    attempts,       \* attempt_count
    owner,          \* lease_owner
    until,          \* ticks until lease_until
    wait,           \* ticks until next_attempt_at
    lastError,      \* last_error
    (* aods_operation_locks *)
    lockOwner,
    lockLeft,       \* ticks until lease_until
    (* the calls that enqueue, and the order of the times they took as created_at *)
    underway,       \* requests whose operation is prepared but not yet inserted
    before,         \* the requests whose rows were there at a request's created_at
    ahead,          \* the requests that were under way then, with earlier times
    (* each worker process *)
    phase,
    batch,          \* rows its open claim transaction has locked
    job,            \* the id of the operation it has in memory
    tries,          \* AttemptCount of that copy
    stale,          \* has the branch moved since the worker fetched it?
    outcome,        \* what executing the operation returned
    (* the branch that holds the desired state *)
    env,            \* DefaultEnvironment of each application
    image,          \* the request whose tag each application runs
    recordEnv,      \* the environment in the deployment record of each id
    faults,         \* how many crashes and lost database calls there were
    (* the disturbances this behaviour admits, the same all along *)
    admitted

rowVars    == <<status, request, attempts, owner, until, wait, lastError>>
lockVars   == <<lockOwner, lockLeft>>
callVars   == <<underway, before, ahead>>
workerVars == <<phase, batch, job, tries, stale, outcome>>
gitVars    == <<env, image, recordEnv>>
vars       == <<rowVars, lockVars, callVars, workerVars, gitVars, faults, admitted>>

-----------------------------------------------------------------------------

Statuses == {"Absent", "Queued", "Running", "Retrying", "Completed", "Failed"}
Outcomes == {"none", "ok", "retryable", "permanent"}
Executing == {"verify", "patch", "patchPush", "image", "imagePush", "mark"}
Phases    == {"down", "idle", "select"} \cup Executing

\* Mutant: the delay counts hours.
BackoffInHours(n) == 60 * n

\* 1, 2, 4, 8 and then 15 minutes.
DeploymentOperationBackoff(n) ==
    CASE n <= 1 -> 1 [] n = 2 -> 2 [] n = 3 -> 4 [] n = 4 -> 8 [] OTHER -> 15

\* Mutants: a claim also takes a Running row whose lease ran out, also takes a
\* Failed row, or forgets the rows that wait for a retry.
PendingOrExpired(i) ==
    status[i] \in {"Queued", "Retrying"} \/ (status[i] = "Running" /\ until[i] = 0)
PendingOrFailed(i) == status[i] \in {"Queued", "Retrying", "Failed"}
OnlyQueued(i) == status[i] = "Queued"

\* The rows a claim looks at.
Pending(i) == status[i] \in {"Queued", "Retrying"}

Due(i)      == Pending(i) /\ wait[i] = 0
Key(i)      == KeyOf[request[i]]
App(i)      == AppOf[request[i]]
Env(i)      == EnvOf[request[i]]
Busy(w)     == phase[w] \in Executing
Admits(f)   == f \in admitted
FaultLeft(f) == Admits(f) /\ faults < MaxFaults

Init ==
    /\ status = [i \in Ids |-> "Absent"]
    /\ request = [i \in Ids |-> NoRequest]
    /\ attempts = [i \in Ids |-> 0]
    /\ owner = [i \in Ids |-> NoWorker]
    /\ until = [i \in Ids |-> 0]
    /\ wait = [i \in Ids |-> 0]
    /\ lastError = [i \in Ids |-> "none"]
    /\ lockOwner = [k \in LockKeys |-> NoWorker]
    /\ lockLeft = [k \in LockKeys |-> 0]
    /\ underway = {}
    /\ before = [r \in Requests |-> {}]
    /\ ahead = [r \in Requests |-> {}]
    /\ phase = [w \in Workers |-> "idle"]
    /\ batch = [w \in Workers |-> {}]
    /\ job = [w \in Workers |-> NoId]
    /\ tries = [w \in Workers |-> 0]
    /\ stale = [w \in Workers |-> FALSE]
    /\ outcome = [w \in Workers |-> "none"]
    /\ env \in [Apps -> Envs]
    /\ image = [a \in Apps |-> NoRequest]
    /\ recordEnv = [i \in Ids |-> NoEnv]
    /\ faults = 0
    /\ admitted \in Scenarios

-----------------------------------------------------------------------------
(* Enqueueing.  A call takes the time that becomes created_at when it       *)
(* prepares the operation, and inserts the row later, with nothing held in *)
(* between: rows may arrive in another order than that of their times.     *)

Rows == {i \in Ids : status[i] # "Absent"}

\* A call that a client repeats takes a new time, and the one before it is lost.  Once
\* the row is there, preparing another changes nothing.
prepareDeploymentOperation(r) ==
    /\ status[IdOf[r]] = "Absent"
    /\ underway' = underway \cup {r}
    /\ before' = [before EXCEPT ![r] = {request[i] : i \in Rows}]
    /\ ahead' = [q \in Requests |-> IF q = r THEN underway \ {r} ELSE ahead[q] \ {r}]
    /\ UNCHANGED <<rowVars, lockVars, workerVars, gitVars, faults, admitted>>

\* The insert does nothing when the id is there, as when a request id is used again.
EnqueueDeploymentOperation(r) ==
    LET i == IdOf[r] IN
    /\ r \in underway \/ status[i] # "Absent"
    /\ underway' = underway \ {r}
    /\ IF status[i] = "Absent"
       THEN /\ status' = [status EXCEPT ![i] = "Queued"]
            /\ request' = [request EXCEPT ![i] = r]
       ELSE UNCHANGED <<status, request>>
    /\ UNCHANGED <<attempts, owner, until, wait, lastError, before, ahead>>
    /\ UNCHANGED <<lockVars, workerVars, gitVars, faults, admitted>>

-----------------------------------------------------------------------------
(* Claiming: one transaction that selects due rows FOR UPDATE SKIP LOCKED, *)
(* then takes the first whose lock key it can lease.                       *)

\* The rows with an earlier created_at.
Earlier(i) == {j \in Rows : request[j] \in before[request[i]] \cup ahead[request[i]]}

Locked == UNION {batch[w] : w \in Workers}

\* Mutant: no ORDER BY created_at.
IsAnyBatch(B, S) == B \subseteq S /\ Cardinality(B) <= BatchLimit

\* The oldest BatchLimit members of S.
IsOldest(B, S) ==
    /\ B \subseteq S
    /\ \A i \in B : Earlier(i) \cap S \subseteq B
    /\ \/ B = S
       \/ Cardinality(B) = BatchLimit
    /\ Cardinality(B) <= BatchLimit

SelectCandidates(w) ==
    /\ phase[w] = "idle"
    /\ Admits("overlap") \/ Locked = {}
    /\ \E B \in SUBSET {i \in Ids \ Locked : Due(i)} :
          /\ B # {}
          /\ IsOldest(B, {i \in Ids \ Locked : Due(i)})
          /\ batch' = [batch EXCEPT ![w] = B]
    /\ phase' = [phase EXCEPT ![w] = "select"]
    /\ UNCHANGED <<rowVars, lockVars, callVars>>
    /\ UNCHANGED <<job, tries, stale, outcome, gitVars, faults, admitted>>

\* Mutant: a lease counts as expired one tick early.
LockFreeEarly(k, w) == lockLeft[k] <= 1 \/ lockOwner[k] = w

\* acquireOperationLock: an unexpired lease of another worker refuses.
LockFree(k, w) == lockLeft[k] = 0 \/ lockOwner[k] = w

Claimable(w) == {i \in batch[w] : LockFree(Key(i), w)}

\* The database side of a claim of i by w.
ClaimRow(w, i) ==
    /\ phase[w] = "select"
    /\ i \in Claimable(w)
    /\ Earlier(i) \cap Claimable(w) = {}
    /\ lockOwner' = [lockOwner EXCEPT ![Key(i)] = w]
    /\ lockLeft' = [lockLeft EXCEPT ![Key(i)] = Lease]
    /\ status' = [status EXCEPT ![i] = "Running"]
    /\ attempts' = [attempts EXCEPT ![i] = @ + 1]
    /\ owner' = [owner EXCEPT ![i] = w]
    /\ until' = [until EXCEPT ![i] = Lease]
    /\ batch' = [batch EXCEPT ![w] = {}]
    /\ UNCHANGED <<request, wait, lastError, callVars>>

ClaimNextDeploymentOperation(w, i) ==
    /\ ClaimRow(w, i)
    /\ phase' = [phase EXCEPT ![w] = "verify"]
    /\ job' = [job EXCEPT ![w] = i]
    /\ tries' = [tries EXCEPT ![w] = attempts[i] + 1]
    /\ outcome' = [outcome EXCEPT ![w] = "none"]
    /\ UNCHANGED <<stale, gitVars, faults, admitted>>

\* No candidate's lock could be leased, or a statement failed: nothing is kept.
ClaimNothing(w) ==
    /\ phase[w] = "select"
    /\ \/ Claimable(w) = {} /\ UNCHANGED faults
       \/ FaultLeft("db") /\ faults' = faults + 1
    /\ phase' = [phase EXCEPT ![w] = "idle"]
    /\ batch' = [batch EXCEPT ![w] = {}]
    /\ UNCHANGED <<rowVars, lockVars, callVars>>
    /\ UNCHANGED <<job, tries, stale, outcome, gitVars, admitted>>

\* The commit took effect but its answer was lost: no worker runs the operation.
ClaimAnswerLost(w, i) ==
    /\ FaultLeft("db")
    /\ faults' = faults + 1
    /\ ClaimRow(w, i)
    /\ phase' = [phase EXCEPT ![w] = "idle"]
    /\ UNCHANGED <<job, tries, stale, outcome, gitVars, admitted>>

-----------------------------------------------------------------------------
(* Executing: check the application and its project, switch the default    *)
(* environment when the request asks for another one, then write the tag   *)
(* and the deployment record.  Each write fetches the branch, edits it and *)
(* pushes one commit, which the remote refuses when the branch has moved.  *)
(* The check reads the worker's own worktree, which may be out of date.    *)

Return(w, result) ==
    /\ phase' = [phase EXCEPT ![w] = "mark"]
    /\ outcome' = [outcome EXCEPT ![w] = result]

Fails(w) ==
    \/ Admits("retryable") /\ Return(w, "retryable")
    \/ Admits("permanent") /\ Return(w, "permanent")

\* Mutant: the environment is never switched.
AlwaysImage(w, e) == "image"

AfterVerify(w, e) == IF e = Env(job[w]) THEN "image" ELSE "patch"

Verify(w) ==
    /\ phase[w] = "verify"
    /\ \/ Fails(w)
       \/ /\ \E e \in Envs :
                /\ e = env[App(job[w])] \/ Admits("oldread")
                /\ phase' = [phase EXCEPT ![w] = AfterVerify(w, e)]
          /\ UNCHANGED outcome
    /\ UNCHANGED <<rowVars, lockVars, callVars>>
    /\ UNCHANGED <<batch, job, tries, stale, gitVars, faults, admitted>>

SyncForWrite(w) ==
    /\ phase[w] \in {"patch", "image"}
    /\ \/ Fails(w) /\ UNCHANGED stale
       \/ /\ phase' = [phase EXCEPT ![w] =
                          IF phase[w] = "patch" THEN "patchPush" ELSE "imagePush"]
          /\ stale' = [stale EXCEPT ![w] = FALSE]
          /\ UNCHANGED outcome
    /\ UNCHANGED <<rowVars, lockVars, callVars>>
    /\ UNCHANGED <<batch, job, tries, gitVars, faults, admitted>>

PushFails(w) ==
    /\ phase[w] \in {"patchPush", "imagePush"}
    /\ stale[w] \/ Admits("retryable")
    /\ Return(w, "retryable")
    /\ UNCHANGED <<rowVars, lockVars, callVars>>
    /\ UNCHANGED <<batch, job, tries, stale, gitVars, faults, admitted>>

BranchMoves == stale' = [w \in Workers |-> TRUE]

\* A push that took effect returns next, or an error when its answer was lost.
PushAnswer(w, next, result) ==
    \/ phase' = [phase EXCEPT ![w] = next] /\ outcome' = [outcome EXCEPT ![w] = result]
    \/ Admits("pushlost") /\ Return(w, "retryable")

PatchApplication(w) ==
    /\ phase[w] = "patchPush"
    /\ ~stale[w]
    /\ env' = [env EXCEPT ![App(job[w])] = Env(job[w])]
    /\ BranchMoves
    /\ PushAnswer(w, "image", "none")
    /\ UNCHANGED <<rowVars, lockVars, callVars>>
    /\ UNCHANGED <<batch, job, tries, image, recordEnv, faults, admitted>>

UpdateApplicationImage(w) ==
    /\ phase[w] = "imagePush"
    /\ ~stale[w]
    /\ image' = [image EXCEPT ![App(job[w])] = request[job[w]]]
    /\ recordEnv' = [recordEnv EXCEPT ![job[w]] = env[App(job[w])]]
    /\ BranchMoves
    /\ PushAnswer(w, "mark", "ok")
    /\ UNCHANGED <<rowVars, lockVars, callVars>>
    /\ UNCHANGED <<batch, job, tries, env, faults, admitted>>

\* Any other commit to the branch; users may switch an application's environment.
OtherWrite(a, e) ==
    /\ Admits("edit")
    /\ env' = [env EXCEPT ![a] = e]
    /\ BranchMoves
    /\ UNCHANGED <<rowVars, lockVars, callVars, phase, batch, job, tries, outcome>>
    /\ UNCHANGED <<image, recordEnv, faults, admitted>>

-----------------------------------------------------------------------------
(* Recording the result.  Each is one transaction that releases the lock   *)
(* if the worker still owns it and updates the row if it still holds it.   *)

\* Mutant: one attempt too many.
RetryableOnceMore(w) == outcome[w] = "retryable" /\ tries[w] <= MaxAttempts

Retryable(w) == outcome[w] = "retryable" /\ tries[w] < MaxAttempts

NextStatus(w) ==
    CASE outcome[w] = "ok" -> "Completed"
      [] Retryable(w)      -> "Retrying"
      [] OTHER             -> "Failed"

ReleaseOperationLock(w, k) ==
    IF lockOwner[k] = w
    THEN /\ lockOwner' = [lockOwner EXCEPT ![k] = NoWorker]
         /\ lockLeft' = [lockLeft EXCEPT ![k] = 0]
    ELSE UNCHANGED lockVars

Forget(w) ==
    /\ job' = [job EXCEPT ![w] = NoId]
    /\ tries' = [tries EXCEPT ![w] = 0]
    /\ outcome' = [outcome EXCEPT ![w] = "none"]

MarkDeploymentOperation(w) ==
    LET i == job[w] IN
    /\ phase[w] = "mark"
    /\ IF owner[i] = w
       THEN /\ status' = [status EXCEPT ![i] = NextStatus(w)]
            /\ lastError' = [lastError EXCEPT ![i] =
                                IF outcome[w] = "ok" THEN "none" ELSE outcome[w]]
            /\ wait' = [wait EXCEPT ![i] =
                           IF Retryable(w) THEN DeploymentOperationBackoff(tries[w]) ELSE @]
            /\ owner' = [owner EXCEPT ![i] = NoWorker]
            /\ until' = [until EXCEPT ![i] = 0]
            /\ ReleaseOperationLock(w, Key(i))
       ELSE UNCHANGED <<status, lastError, wait, owner, until, lockVars>>
    /\ phase' = [phase EXCEPT ![w] = "idle"]
    /\ Forget(w)
    /\ UNCHANGED <<request, attempts, batch, stale, callVars, gitVars, faults, admitted>>

\* The transaction failed: the worker logs the error and goes on to the next one.
MarkFails(w) ==
    /\ phase[w] = "mark"
    /\ FaultLeft("db")
    /\ faults' = faults + 1
    /\ phase' = [phase EXCEPT ![w] = "idle"]
    /\ Forget(w)
    /\ UNCHANGED <<rowVars, lockVars, callVars, batch, stale, gitVars, admitted>>

-----------------------------------------------------------------------------
(* Processes stop at any point and come back under the same host name;     *)
(* an open transaction is rolled back.                                     *)

Crash(w) ==
    /\ phase[w] # "down"
    /\ FaultLeft("crash")
    /\ faults' = faults + 1
    /\ phase' = [phase EXCEPT ![w] = "down"]
    /\ batch' = [batch EXCEPT ![w] = {}]
    /\ Forget(w)
    /\ UNCHANGED <<rowVars, lockVars, callVars, stale, gitVars, admitted>>

Restart(w) ==
    /\ phase[w] = "down"
    /\ phase' = [phase EXCEPT ![w] = "idle"]
    /\ UNCHANGED <<rowVars, lockVars, callVars>>
    /\ UNCHANGED <<batch, job, tries, stale, outcome, gitVars, faults, admitted>>

Less(n) == IF n > 0 THEN n - 1 ELSE 0

\* Unless it admits "slow", an instance assumes that work fits in its lease.
Tick ==
    /\ Admits("slow") \/ \A w \in Workers : Busy(w) => until[job[w]] > 1
    /\ until' = [i \in Ids |-> Less(until[i])]
    /\ wait' = [i \in Ids |-> Less(wait[i])]
    /\ lockLeft' = [k \in LockKeys |-> Less(lockLeft[k])]
    /\ UNCHANGED <<status, request, attempts, owner, lastError, lockOwner, callVars>>
    /\ UNCHANGED <<workerVars, gitVars, faults, admitted>>

-----------------------------------------------------------------------------

Claim(w) ==
    \/ SelectCandidates(w)
    \/ \E i \in Ids : ClaimNextDeploymentOperation(w, i) \/ ClaimAnswerLost(w, i)
    \/ ClaimNothing(w)

Execute(w) ==
    \/ Verify(w)
    \/ SyncForWrite(w)
    \/ PushFails(w)
    \/ PatchApplication(w)
    \/ UpdateApplicationImage(w)

Mark(w) == MarkDeploymentOperation(w) \/ MarkFails(w)

Work(w) == Claim(w) \/ Execute(w) \/ Mark(w)

Next ==
    \/ \E r \in Requests : prepareDeploymentOperation(r) \/ EnqueueDeploymentOperation(r)
    \/ \E w \in Workers : Work(w) \/ Crash(w) \/ Restart(w)
    \/ \E a \in Apps, e \in Envs : OtherWrite(a, e)
    \/ Tick

Spec == Init /\ [][Next]_vars

\* Workers poll forever, time passes, and the platform restarts what stopped.
Fairness ==
    /\ \A w \in Workers : WF_vars(Work(w)) /\ WF_vars(Restart(w))
    /\ WF_vars(Tick)

FairSpec == Spec /\ Fairness
-----------------------------------------------------------------------------
(* Properties. *)

RowsTyped ==
    /\ status \in [Ids -> Statuses]
    /\ request \in [Ids -> Requests \cup {NoRequest}]
    /\ \A i \in Ids : status[i] # "Absent" => request[i] \in Requests
    /\ attempts \in [Ids -> Nat]
    /\ owner \in [Ids -> Workers \cup {NoWorker}]
    /\ until \in [Ids -> 0..Lease]
    /\ wait \in [Ids -> 0..15]
    /\ lastError \in [Ids -> Outcomes]

LocksTyped ==
    /\ lockOwner \in [LockKeys -> Workers \cup {NoWorker}]
    /\ lockLeft \in [LockKeys -> 0..Lease]

CallsTyped ==
    /\ underway \subseteq Requests
    /\ before \in [Requests -> SUBSET Requests]
    /\ ahead \in [Requests -> SUBSET Requests]

WorkersTyped ==
    /\ phase \in [Workers -> Phases]
    /\ batch \in [Workers -> SUBSET Ids]
    /\ \A w \in Workers : \A i \in batch[w] : request[i] \in Requests
    /\ job \in [Workers -> Ids \cup {NoId}]
    /\ \A w \in Workers : Busy(w) => job[w] \in Ids /\ request[job[w]] \in Requests
    /\ tries \in [Workers -> Nat]
    /\ stale \in [Workers -> BOOLEAN]
    /\ outcome \in [Workers -> Outcomes]

BranchTyped ==
    /\ env \in [Apps -> Envs]
    /\ image \in [Apps -> Requests \cup {NoRequest}]
    /\ recordEnv \in [Ids -> Envs \cup {NoEnv}]

\* Every variable has its type, the columns and maps of the code.
TypeOK ==
    /\ RowsTyped
    /\ LocksTyped
    /\ CallsTyped
    /\ WorkersTyped
    /\ BranchTyped
    /\ faults \in 0..MaxFaults
    /\ admitted \subseteq Disturbances

\* The copy of an operation that a worker executes agrees with its row: the row
\* is Running, held by that worker, in the attempt the worker counts.  So no
\* operation is executed by two workers, and the lease a worker presents when it
\* records the result is never lost (deployment_operations_mariadb.go:319, 368).
WorkerHoldsRow ==
    \A w \in Workers : Busy(w) =>
        /\ status[job[w]] = "Running"
        /\ owner[job[w]] = w
        /\ attempts[job[w]] = tries[w]

\* Two claim transactions never hold the same row, and the rows they hold stay
\* claimable until they end (FOR UPDATE SKIP LOCKED).
BatchesAreDisjoint ==
    \A w \in Workers :
        /\ \A i \in batch[w] : Pending(i)
        /\ \A v \in Workers \ {w} : batch[w] \cap batch[v] = {}

\* A worker whose lease on its operation has not run out owns the Git write lock
\* of that operation, for exactly as long.
LeaseCoversLock ==
    \A w \in Workers : Busy(w) /\ until[job[w]] > 0 =>
        /\ lockOwner[Key(job[w])] = w
        /\ lockLeft[Key(job[w])] = until[job[w]]

\* Of the workers that execute operations under one Git write lock, at most one
\* has a lease that has not run out, whatever crashed, restarted or timed out.
OneLiveLease ==
    \A v, w \in Workers :
        /\ Busy(v) /\ until[job[v]] > 0
        /\ Busy(w) /\ until[job[w]] > 0
        /\ Key(job[v]) = Key(job[w])
        => v = w

\* At most one worker executes operations under each Git write lock.
SingleWriter ==
    \A v, w \in Workers :
        Busy(v) /\ Busy(w) /\ Key(job[v]) = Key(job[w]) => v = w

\* It is so as long as work fits in its lease, which nothing renews.
SingleWriterIfTimely == ~Admits("slow") => SingleWriter

\* An operation that is Running is worked on, unless a process stopped or a database call
\* was lost: no other failure, and no lease that runs out, leaves one behind that a claim
\* would not find (deployment_operations_mariadb.go:197).
RunningIsWorkedOn ==
    admitted \cap {"db", "crash"} = {} =>
        \A i \in Ids : status[i] = "Running" => \E w \in Workers : Busy(w) /\ job[w] = i

\* An operation reported Completed has its deployment record in Git.
CompletedIsRecorded ==
    \A i \in Ids : status[i] = "Completed" => recordEnv[i] # NoEnv

\* An operation that may still be claimed has an attempt left, and one that failed
\* for a transient error has used its last.
AttemptsWithinBudget ==
    \A i \in Ids :
        /\ Pending(i) => attempts[i] < MaxAttempts
        /\ attempts[i] <= MaxAttempts
        /\ status[i] = "Failed" /\ lastError[i] = "retryable" => attempts[i] = MaxAttempts

\* A deployment is recorded in Git under the environment its request asked for,
\* which the worker may switch to in a commit of its own before: so it is when work
\* fits in its lease, nobody else switches environments and the worker has seen what
\* other workers switched.
RecordedWhereRequested ==
    admitted \cap {"slow", "edit", "oldread"} = {} =>
    \A i \in Ids : recordEnv[i] # NoEnv => recordEnv[i] = Env(i)

\* An application goes back to a request that was in the queue before the one it runs
\* was made.  Of two requests under way together either may win, whatever their times.
Overtakes ==
    \E a \in Apps : /\ image'[a] # image[a] /\ image[a] # NoRequest
                   /\ image'[a] \in before[image[a]]

\* The deployments of an application are written in the order they were asked for, each
\* after those that were in the queue before it (docs/user-feedback-log.md:60), when no
\* attempt is retried, work fits in its lease and claims do not overlap, whatever crashes
\* or lost database calls there are, and though rows are inserted later than the times
\* they are sorted by are taken.
WritesKeepOrderIfUndisturbed ==
    [][admitted \subseteq {"permanent", "db", "crash"} => ~Overtakes]_vars

\* What a row's status means to the ledger.
StandingOf(s) ==
    CASE s = "Absent"    -> "none"
      [] s = "Completed" -> "done"
      [] s = "Failed"    -> "failed"
      [] OTHER           -> "pending"

Standing == [i \in Ids |-> StandingOf(status[i])]
Recorded == {i \in Ids : recordEnv[i] # NoEnv}

Ledger == INSTANCE DeploymentLedger WITH standing <- Standing, written <- Recorded

\* Whatever fails, a deployment is written only while it is pending, is done only
\* when written, and keeps its verdict: the queue implements DeploymentLedger.
ImplementsLedger == Ledger!Spec

\* Every operation in the queue ends as Completed or Failed.
EverySettles ==
    \A i \in Ids : status[i] # "Absent" ~> status[i] \in {"Completed", "Failed"}

\* It does when no process stops and no database call is lost.
EverySettlesIfUp == admitted \cap {"db", "crash"} = {} => EverySettles
=============================================================================
