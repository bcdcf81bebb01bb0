# TLA+ models of the AODS backend

AODS (`backend/`, Go) is a deployment portal: users create applications, deploy
image tags, and review changes; the backend writes the desired state into a Git
repository that Flux applies to clusters. Deployments go through a durable queue
in MariaDB, into which a poller also puts the image tags that the applications'
repositories ask for, and the rollbacks of those that do badly. This directory
holds TLA+ models of the parts of the backend where interleavings, failures and
retries decide correctness, the TLC configurations that check them, and theorems
that TLAPS checks.

## Inventory

Paths are below `backend/internal/`.

| Component | State | Operations | Talks to | What is hard | What makes it correct |
|---|---|---|---|---|---|
| Deployment queue (`application/deployment_operations*.go`) | tables `aods_deployment_operations`, `aods_operation_locks` | enqueue, claim, mark succeeded / retry / failed, list, get | service enqueues; workers claim and mark | `SKIP LOCKED`, leases that expire, lost answers, crashes, retries | one worker per row; one live lease per lock; attempts within budget; Completed means recorded in Git; requests settle; writes keep order |
| Worker and execution (`application/service.go` `executeDeploymentOperation`) | an operation in memory | verify image, switch environment, write image and record | queue, Git store | two commits that are not atomic, pushes refused or unanswered, stale reads | recorded under the requested environment |
| Deployment history (`service.go` `ListDeployments`, `GetDeployment`) | none | read Git, then the queue | queue, Git clone | two reads of two sources | nothing enqueued is lost from view |
| Change requests (`change/`) | one YAML file per change | create, submit, approve, merge | application and project services | read-modify-write without comparison, repeated requests | approval before effect; effect before Merged; one deployment each |
| Projects and policies (`project/`) | `platform/projects.yaml` | create, delete, update policies, roles | changes, applications, Flux wiring | policy changes under open changes; a project deleted, or deleted and created again, under a call; ids that begin like one another | protected environments change only after review; clusters in use have their roots |
| Managed Git clone (`gitops/repository.go`) | directory, file lock, in-process lock, sync in flight, time of last sync | `WithRead`, `WithWrite`, `EnsureFile`, background sync | every Git store | lock order, failures midway, killed git, other clones | success is published; reads are stable; recovers |
| Application lifecycle (`service.go`, `store_local.go`, `store_git.go`) | `apps/<project>/<name>` | create, patch, archive, delete, rollback policy | secret store, Git clone | several steps, each may fail | every secret that is referred to exists; every stored secret is referred to; a directory holds an application |
| Secret stores (`vault/`) | KV documents and versions | stage, finalize, get, versions, delete, cleanup | lifecycle | stage / commit / finalize not atomic, cleanup races | secrets become final after the commit; what is staged is cleaned up; deleted values stay deleted |
| Catalog cache (`application/catalog_cache*.go`, `catalog_projector.go`) | a table of records per project, freshness | read through, refresh after write, projector | Git store | racing replacements | stale records do no lasting harm to the application |
| Auto-update poller (`application/poller.go`, `poll_tracker.go`) | attempts per application, in memory | poll cycle, synchronise now, auto-rollback | queue, repositories, metrics | a queue that is behind the poller, request ids by the second, marks and events that fail, rollback against update | the tag asked for comes to run; a bad one is taken back, once |
| Clusters (`cluster/`) | `platform/clusters.yaml` | list, create | projects, Flux wiring | -- | environments are placed on clusters that exist |
| Flux wiring and orphan cleanup (`flux_support.go`, `orphan_cleanup.go`, `fluxscaffold/`) | a root and children per cluster | wire, unwire, rewrite a root, clean up | every commit of an application or project | several files that must agree; stale projects; cleanup that stops at an error | roots list what is there; clusters run exactly the live applications; orphans go |
| Authentication (`core/auth*.go`) | a copy of the issuer's keys, shared by requests | verify a token, refresh the copy | the OIDC issuer | rotation under a cache, refreshes under a lock, failed fetches | retired keys lapse; new ones are accepted; everyone is answered |
| Readers (Kubernetes, Prometheus, image registry), HTTP, admin, frontend, CI | none that matters here | -- | -- | -- | -- |

`PROJECT.json` lists the hazards of this code, each at its line, with the
properties that would catch it going wrong.

## Modules

| Module | Models | Extends / uses |
|---|---|---|
| `DeploymentLedger` | what the queue promises: a deployment is pending, written while pending, done only when written, and its verdict stands | -- |
| `DeploymentQueue` | queue, workers, locks, and the branch they write | instantiates `DeploymentLedger` |
| `DeploymentHistory` | history reads beside a working queue | extends `DeploymentQueue` |
| `ChangeWorkflow` | change requests and the policies that demand them | -- |
| `AtomicRepository` | what the clone promises its writers: a call is one step between its beginning and its end | -- |
| `GitRepository` | one process's clone, with its locks | instantiates `AtomicRepository` |
| `ApplicationLifecycle` | one application's directory, its secrets and its cached record | -- |
| `FluxWiring` | projects, clusters, the applications on them and their wiring | -- |
| `AutoUpdate` | the poller, before the queue and its worker | -- |
| `SigningKeys` | requests that share a copy of the issuer's keys | -- |
| `DeploymentQueueProofs`, `DeploymentHistoryProofs`, `ChangeWorkflowProofs`, `ApplicationLifecycleProofs`, `FluxWiringProofs`, `SigningKeysProofs`, `AutoUpdateProofs`, `GitRepositoryProofs` | theorems | extend their module and `TLAPS`; `DeploymentHistoryProofs` extends `DeploymentQueueProofs` too |
| `MC*` | constants for TLC | extend their module |

Each module abstracts what another has in detail. A commit is one step in
`ApplicationLifecycle` and `FluxWiring`, which `GitRepository` justifies: it implements
`AtomicRepository`, where a write is one step; the queue is a sequence in `AutoUpdate`
and a set of rows with leases in `DeploymentQueue`, which shows that an operation
settles once.

### DeploymentQueue

A row's columns are functions of the operation id: `status`, `request` (the
columns that are set at the insert), `attempts`, `owner`, `until` (ticks left of
`lease_until`), `wait` (ticks left of `next_attempt_at`) and `lastError`. A call takes
`created_at` when it prepares an operation and inserts the row later, with nothing held
in between: `underway` are the requests that are prepared and not yet inserted, and of
each request `before` and `ahead` are those whose rows were there when it took its time,
and those then under way with an earlier one. A row's rank in the claim's `ORDER BY` is
that of the times (`Earlier`), not of the inserts. `lockOwner` and `lockLeft` are the lock
table. A worker has a `phase`, the rows its open claim transaction has locked
(`batch`), and the operation it has in memory (`job`, `tries`, `outcome`).

| Action | Code |
|---|---|
| `prepareDeploymentOperation` | `service.go:494`: the call takes the operation's times; a client's repetition takes new ones |
| `EnqueueDeploymentOperation` | `deployment_operations_mariadb.go:62`: insert, at any time later, without effect on an existing id |
| `SelectCandidates`, `ClaimNextDeploymentOperation`, `ClaimNothing` | `ClaimNextDeploymentOperation`: select for update, then the first candidate whose lock can be leased |
| `ClaimAnswerLost`, `MarkFails` | lost or failed database calls |
| `Verify`, `SyncForWrite`, `PushFails`, `PatchApplication`, `UpdateApplicationImage` | `executeDeploymentOperation` and the Git writes it makes |
| `MarkDeploymentOperation` | `processOnce` and the marks, which release the lock |
| `Crash`, `Restart` | the process; a worker keeps the host's name, and any shutdown is a crash since workers run on `context.Background()` |
| `OtherWrite` | any other commit to the branch, such as a user's switch of environment |
| `Tick` | a minute |

A behaviour admits a set of disturbances that it draws from `Scenarios` at the
start: `retryable` and `permanent` errors, `pushlost`, `db` (lost answers),
`crash`, `overlap` of claims, `slow` work that outlasts its lease, `edit` by users,
`oldread` of a worktree behind the branch. A property that holds only without some
of them says so in its premise, and the runs admit behaviours with and without.

Abstractions: time is in ticks of a minute (the unit of the backoff); a claim's
statements see one `now`; clocks of workers and servers agree, and no two times are the
same; of the calls that a client makes again with its request id, the last that was
prepared is the one that inserts; the row's `version` is left out
of the model since every update that compares it holds the row's lock; InnoDB locks
no more than the rows selected; a lock row that was never inserted is one whose
lease has run out.

### DeploymentHistory

Adds a reader that reads the worktree, then the rows (`ListDeployments`,
`GetDeployment`), and a background sync that brings the worktree up to date in
between. `AnswersAreComplete` says what the race between the two reads can
hide from a listing: an operation that completed after Git was read, and nothing
else; and that asking for an operation by its id always finds it.

### ChangeWorkflow

`record` holds the file of each change; a handler reads a copy (`Begin`), carries
out the operation of a merge (`ApplyOperation`), and writes the copy back
(`Update`), without comparing. With `overlap`, handlers of one change interleave;
with `resend`, a client's repeated request id drafts a change again over whatever
the file holds. `queued` are the deployments in the queue, each with the id that its
change gave it: the insert of a second one under that id does nothing, whatever it
deploys, and the merge goes on as if it had (`Dropped`). `effects` and `approved` are
history: the drafts whose operation took effect, which one that was dropped did not,
and those whose approval was stored. So `MergedIsApplied` has a premise: a change that was
drafted again and has another deployment in the queue already may be Merged without
effect. `ResolveWriteMode` and
`RequiresChangeFlow` are the two ways in which the code decides that an
environment is protected; they disagree, see the findings.

### GitRepository

The remote `branch`; the directory (`tracked`, `head`, `worktree`, `indexLock`,
the file lock `flock`); the process (`mu`, `inFlight`, `fresh`, and a phase for
each call). A file's content is the name of who wrote it last. `behind` says
whether the branch moved since the last fetch, in which case a push is refused.
`Checkout` is `checkout -B`: it keeps changed files, and refuses when the branch
changed one of them or an `index.lock` is in the way. Calls in `Impatient` are
those under `WithNonBlockingLock` or `...IfAvailable` (the poller, the orphan
cleanup): they fail rather than wait. `landed` is history: whose files the branch
has held, all at once, since their call. For `AtomicRepository`, a call that runs is
`open`, or `written` once its writer is in `landed`, and one that has ended is its
result: a push, whether its answer arrives or is lost, is the step that writes, and a
commit that finds nothing to change confirms what is there.

Abstractions: the first clone is atomic; a killed checkout leaves its lock and no
half-written files; the remote is one branch.

### ApplicationLifecycle

One application name. Git holds `app` (absent, live or archived, as the metadata
says), `refs` (the kinds of secret whose paths the metadata has) and `dir` (is there
a directory at all); the secret store holds the `final` documents, the `versions`
of the environment, and what is `staged` under which request id, some of it `old`;
the catalog is `cached`, with a slow refresh's `projection`. Each call has an
operation and a phase, with the values it read or writes.

| Phases of a call | Code |
|---|---|
| create: stage, commit, (final, unstage) for each kind, event | `CreateApplication`: `StageAt` up to three times, `Store.CreateApplication`, `Finalize` of each, `appendEvent` |
| update: read, commit if the path changes, then stage, final, unstage or purge, event | `UpdateApplicationSecrets` |
| restore: read, stage, final, unstage, event | `RestoreApplicationSecretVersion` |
| archive: commit, event; delete: commit, purge of each kind | `ArchiveApplication`, `DeleteApplication` |
| other: event | calls that read the record, work elsewhere and append an event |
| `ListApplications`, `ReplaceProjectApplications`, `Expire` | refreshes of the catalog (the projector's, or another handler's), and `Freshness` |
| `Age`, `CleanupStale` | `MaxAge` and `StagingSecretCleanupWorker` |

A behaviour admits, from `Scenarios`, phases in which calls may end (`Stop`: an error
of that step, a client that left, a process that stopped), `overlap` of any calls or
`race` of creations, a `stale` catalog, and calls so `slow` that their staged secrets
age meanwhile. Abstractions: a commit is one step, as `GitRepository` shows of
successful ones; a value is not told from another of its key; a handler's
own refresh of the catalog follows its commit at once, and slower ones are the two
steps of the projector; a request id is used again once nothing of it is staged.

### FluxWiring

`catalog` has each project's environments, a list of ids and clusters, and the
environments its policy allows; `clusters` is the cluster catalog; `apps` the
metadata of each application; `child` the child manifests of each cluster by file
name; `root` what each root Kustomization lists. A call keeps, from its read
(`Begin...`) to its commit, the project's environments as they were
(`ProjectContext`).

| Action | Code |
|---|---|
| `Create`, `DeleteProject`, `UpdatePolicies` | `project/service.go` and `LocalSource`: validation against the clusters, scaffolds of the clusters, removal of children by the prefix of their names |
| `CreateCluster` | `cluster/`: a root for the new cluster |
| `BeginCreate` ... `BeginDelete` | the reads and checks of `application/service.go` |
| `CreateApplication`, `PatchApplication`, `UpdateApplicationImage` (and `SaveApplicationSecretPath`), `ArchiveApplication`, `DeleteApplication` | `LocalManifestStore`: the record, the child on its cluster, the one on the previous cluster, the roots of both |
| `CleanupOrphanFluxManifests` | one round of the cleanup worker under the Git write lock |

With `stale`, a project may be deleted (and created again with other clusters)
between the read and the commit of a call; with `prefix`, project ids may begin
like one another, so that `a` with application `b-c` and `a-b` with `c` have the
same file name; with `leftover`, children without applications are there from the
start. Ids and names are sequences of the parts between hyphens.

### AutoUpdate

`repo` is the tag that a repository asks for, `image` the one in the manifests,
`latest` and `previous` what the poller looks at of the history, `queue` the
operations that wait for the worker; an attempt at one is one step here. The poller
(`call["poller"]`) goes round (`BeginCycle`, `pollAll`, `EndCycle`) with the
applications as they were when the cycle began (`listed`); a user's synchronisation
takes the same steps. `claimed` says that this second's request id is taken:
`CreateDeployment` then has no effect, as `EnqueueDeploymentOperation` has none on
an id that exists, and reports success. `taken` counts, as history, the rollbacks of a
deployment that were put in the queue.

An operation that is tried again writes the record of its own deployment again
(`store_local.go:182-194`): `Syncing`, with the time of the attempt, hence as the newest,
while the events that name its id remain (`WrittenAgain`). So `tried` says of an operation
in the queue whether an attempt failed before its commit, or wrote the deployment that is
the `newest`, or one that another operation has `superseded` since, whose record the
model keeps until it is written again or will not be. A call's `about` says which of
them the copy it holds is of.

| Action | Code |
|---|---|
| `pollAll`, `Due`, `MarkAttempt` | `AutoUpdatePoller.pollAll`, `pollApp`, `Tracker` |
| `resolveDesiredState`, `CreateDeployment`, `SyncFails` | `SyncRepositoryNow` |
| `ReadDeployments`, `pollAutoRollback`, `NoRollback`, `MarkDeployment`, `appendEvent` | `pollAutoRollback`, step by step |
| `BeginRollout`, `PromoteDeployment`, `AbortDeployment` | `service.go`: read, act on the rollout, write what was read with a new status |
| `executeDeploymentOperation` | the worker's last attempt at an operation |
| `AttemptFails`, `AnswerIsLost` | an attempt that fails without a commit, or with it on the remote, and is due again later (`deployment_operations.go:109`) |
| `OperationRefused` | the operation fails for good, or its result is not recorded and its row stays Running |
| `Crash` | the server stops, with its memory; if the worker was at an operation, that one stays Running and is never claimed again (finding 1), whichever it was |

Each repository may ask for a set of tags (`Asks`) and change its mind at any time;
`Bad` tags breach the thresholds of the rollback policy whenever they run. Not in
the model: the other settings that a repository may ask for
(`reconcileRepositoryState` patches replicas, port and strategy before the tag is
compared, in a commit of its own), and the snapshots that the tracker shows. An
operation that is lost after its commit is one that was carried out, as far as the
poller can see.

Two bounds leave behaviours out. `OnlyRetry`: one operation of an application at a time
waits for another attempt. `NoOldCopy`: no call writes a superseded deployment's record
with the time it had before, once a second attempt has written it anew.

### SigningKeys

The issuer has `published` keys and gives some up at `retiredAt`; the server has a
copy, `keys`, that came at `fetchedAt`. A request reads the copy under the shared
lock (`ReadCopy`), or takes the lock for itself (`keysForVerification`), looks at the
copy again and fetches, which ends in `InstallKeys` or `FetchFails` within `Timeout`;
`forced` says that it already found its key missing. A key stands for its id: an
issuer that uses an id again for another key is not in the model. `NewUserProvider`
starts the server again, with or without its issuer.

## Runs

| Run | Shows | Bounds |
|---|---|---|
| `queue_safety` | types, rows, attempts, exclusion, refinement of the ledger, order of writes | 2 workers, 2 requests, 1 application, 1 lock, 2 environments, 3 sets of disturbances, 1 fault; 2.13 M states |
| `queue_history` | what the two-step reads return; every request settles while processes stay up | 2 workers, 2 requests, 1 environment, every disturbance but crashes and lost database calls, and reads beside 3 smaller sets (`ReadIn`); 816 k states |
| `queue_stuck` | counterexample (finding) | 1 worker that may crash |
| `change_review` | types, approval before effect, effect before Merged, one deployment | 2 handlers (symmetric), 1 change that is drafted as a new application, a policy or the deployment of either of two tags; 5.49 M states |
| `change_policy` | counterexample (finding) | 1 handler, `prod` without write mode |
| `git_clone` | reads, pushes, recovery, refinement of the atomic repository | 2 writers (one impatient) that share a file, 1 reader, background sync, 2 faults; 467 k states |
| `git_wedge` | counterexample (finding) | a failing edit and one push from elsewhere |
| `lifecycle_calls` | types, order, directory and secrets agree with the metadata once calls have ended, cleanup | 2 calls at a time; environment and registry credential and 2 keys, or, where calls overlap or are slow, the environment; 321 k states |
| `lifecycle_conflict` | counterexample (finding) | 2 calls that overlap |
| `flux_wiring` | roots, children, cleanup | 2 projects, one id a prefix of the other's, 3 applications of which two share a file name, 2 clusters, 2 environments, 2 calls at a time; 160 k states |
| `auto_update` | the tag asked for, rollbacks | 2 applications, a good and a bad tag, a queue of 2, 10 sets of disturbances; 58 k states |
| `signing_keys` | rotation, answers | 2 requests, 2 keys, 3 ticks, a fetch of 1, a copy for 2; 351 k states |

Two workers and two requests suffice for every race over a row or a lock that
the code has, since each involves a holder and a taker; a third worker would
repeat the second's part. Two attempts (`MaxAttempts`) give a retry and its end;
a lease of two ticks outlasts one tick and not two; a claim may select every row
there is (`BatchLimit` 2, where the code's ten is more than enough for two
requests). In the queue runs `MaxFaults` is 1 for each behaviour, on top of the
retries, expired leases and restarts that follow from it; in the git runs it is
2, so that a failure midway can be followed by another. Two writers that share a
file make one commit what the other left behind, if that can happen. One file of
the two is written by one writer only, so what a push may not touch exists.
`MaxFaults` is the only bound on behaviours that the code does not have; ticks
and attempts are bounded by it. `ApplicationLifecycle` bounds nothing but its sets:
two kinds tell the first of a loop from the next, two keys tell what an update sets
from what it keeps, and calls follow each other without limit.

In `queue_history` nobody reads beside the largest set of disturbances (`ReadIn`): reads do
not act on the queue (`ReadsOnlyRead`), so whether requests settle does not depend on
them. One change suffices in `change_review`: calls on different changes meet in the
policy and in the application, which the requests of one change and an administrator's
`UpdatePolicies` change too, and `resend` lets calls of one change differ in what they ask.

`FluxWiring` bounds the calls under way (`MaxCalls`): two, to race with one another,
and one where its project may be deleted under it. `AutoUpdate` bounds the queue: a
second operation can wait behind an older one, and an enqueueing waits for room, so
a poller that runs far ahead of the worker is cut short at two operations; an operation
that has been tried again may be tried again once more, so attempts need no bound, and
`OnlyRetry` and `NoOldCopy` are those above. Two tags
are enough for a rollback and for an update that undoes it; a second application
shares the request ids and the queue. `SigningKeys` stops its clock at `MaxNow`,
three ticks: a fetch under way for one while its key is retired, and a copy that
serves for two.

### Fairness

`DeploymentQueue`: each worker keeps polling (`Start` loops for ever), Kubernetes
restarts it, and time passes: weak fairness of `Work`, `Restart`, `Tick`. No strong
fairness: a due row with a free lock stays claimable.

`GitRepository`: strong fairness of each caller's steps. The locks are polled every
50 ms (`acquireInProcessLock`, `acquireReadLock`, `acquireProcessLockWithPolicy`)
and the lock is free infinitely often; strong fairness assumes that a poll hits
such a moment some time, which the code makes likely and not certain. Calls of
writers need not happen: `WritersSucceed` is about a writer that calls again and
again. Impatient calls get no promise.

`FluxWiring`: the cleanup's ticker fires for ever and finds the Git lock free at
last (it skips a round when it does not); a call that began ends.

`AutoUpdate`: the poller's loop and the worker never stop, seconds pass, intervals
and delays end: weak fairness. Strong fairness of each application's turn in a
cycle, of reads and requests, and of executions (of operations not tried before, and of
those that were) assumes that a cycle is not cut short, a read does not fail, and an
operation is not given up and its attempts do not fail every time. The order
within a cycle is arbitrary in the model, and strong fairness of each turn also
covers a request id that is already taken: some time the second is free, which the
code does not guarantee to two applications updated in step, but the drift of their
intervals and the length of each check make likely.

`SigningKeys`: `sync.RWMutex` lets every waiter in (strong fairness), and the HTTP
client ends every fetch.

`ChangeWorkflow` has no liveness: nothing happens there unless users call.

`ApplicationLifecycle`: a call goes on or ends (requests have deadlines or errors),
time passes, and the cleanup worker's ticker fires for ever. `CleanupStale` may
stop at an error at any time; weak fairness of a round that goes through the whole
list assumes that errors of the secret store do not last.

## Proofs

Eight modules prove, for all constants that satisfy the named assumptions of each module
(`QueueAssumption` and `BranchAssumption`, `ChangeAssumption`, `LifecycleAssumption`,
`WiringAssumption`, `KeysAssumption`, `PollerAssumption`, `RepositoryAssumption`), what the
runs check on small instances: every safety property of a passing run, invariants, action
properties and both refinements.

`BranchAssumption` says that every request needs the same lock. The server names the lock
after the remote and the branch, of which it has one (`server.go:346`); the name by
application and environment (`service.go:511`) is only for a service built without one.
What follows on the environment of a record and the order of images needs it, since the
worker of another application would move the branch under a push; the exclusion, the
attempts and the refinement do not use it.

* `TypeCorrect`: `TypeOK` is inductive; the proof has a step for each action.
* `RowsAreHeld`: `WorkerHoldsRow` alone is not inductive, since a claim must not
  take a row that another worker executes; `RowInv` adds that locked rows are
  pending (`BatchesAreDisjoint`). Executed rows are Running, so no claim holds them.
* `LeasesExclude`: a live lease of a worker on its row comes with the lock for as
  long. The inductive `WorksUnderLease` is this and `RowInv`: a lock is taken only
  when free, and marks release only the worker's own. `OneLiveLease` follows.
* `TimelyWorkersExclude`: without `slow`, `Tick` never lets a lease of a busy worker
  run out, so every busy worker's lease is live.
* `AttemptsAreBounded`: `BudgetInv` ties a worker's `tries` to its row's `attempts`
  and a retryable outcome to an attempt left.
* `CompletedAreRecorded`: `RecordInv` adds that a worker whose outcome is `ok` has
  written the record.
* `QueueImplementsLedger`: initial states map to initial states and every step to a
  step or a stutter of the ledger, by `RowInv` and `RecordInv`.
* `RecordsAreWhereRequested`: of the worker about to write an image, `PlacedInv` says that
  the application's environment is already its request's. Under one lock it works alone
  (`OneWorks`), so that no other can switch the environment before it writes.
* `ImagesKeepOrder`: three invariants. `ArrivalInv`: each row holds the request that names
  it, what was in the queue `before` a request is still in it, and an image is that of a
  row that was claimed. The order is that of the times taken at `prepareDeploymentOperation`,
  and the theorem is about requests of which one was in the queue when the other took its
  time: it says nothing of two that were under way together, which the code may write in
  either order, whatever their times. `CalmInv`: in behaviours without what makes
  an attempt repeat, no row waits for a retry. `TurnInv`: a claim transaction
  that holds a row holds every one of those before it that waits; no row is claimed while one
  before it is Queued; and what came after the operation at work is still Queued. The third is what rules
  out an overtaking, and is preserved because a claim finds nobody at work
  (`NoneWorksAtClaim`): a free lock is a worker that is not busy when leases do not run out.
* `RunningAreWorkedOn`: without `db` and `crash` a busy worker stays so until it records
  the result (`BusyStays`), and only a claim whose answer arrived makes a row Running. It is
  the safety part of `EverySettlesIfUp` (a Running row that nobody works on would never
  settle, so the run of that property checks it, too): finding 1 has no other causes.
* `DeploymentHistoryProofs!ReadsOnlyRead`: the queue under the readers is the queue alone,
  so every theorem on it holds there. `ReadsAreComplete`: `ReadInv`, that a read
  remembers rows which are still there, and that Completed rows stay so (`CompletedStays`).
* `ReviewIsHonoured`, `MergesAreReal`: `ReviewInv` carries the claims along a handler's copy: an
  Approved copy, or one that is about to be merged in pull_request mode, holds an approved
  draft, and a Merged copy one that is settled: it took effect, or another deployment was
  queued under its id before. That a dropped insert is only a second one of the same
  deployment, unless the change was drafted again, is `QueuedInEffect` (what is queued took
  effect) and `RequestInv`: without `resend` a change's file, the copies of it and its
  deployment in the queue all have one request, since only the handler that makes the file
  chooses one (`HoldsItsRequest`).
* `EachDeploysOnce`: `NamedAfterChange`: a queued deployment is named after its change.
* `ApplicationLifecycleProofs!TypeCorrect`: `TypeOK` is not inductive, since a loop
  over a call's kinds must find some and an update must not write an empty document;
  `CallInv` adds what each operation keeps of its kinds, loop and data.
* `LifecycleIsOrdered`: only commits change the metadata, and each looks at the
  directory or the metadata in the same step; of the invariant it needs that an
  application has a directory.
* `DirectoriesHoldApplications`, `SecretsFollowCommits`: `SequentialInv` says, for
  behaviours without `overlap` and `stale`, that calls at work are alone or all
  creations (`Alone`) and what each may rely on in its phase (`Relies`): an event is
  appended to an application that is still there, and what is being finalized is
  referred to. A creation that commits finds no directory, so no other has committed.
* `DocumentsAgree`: on top of `SequentialInv`, `DocumentInv` says what the calls under way
  still owe. `StoredInv`: a secret that is referred to exists, or a call has it yet to
  write (`Unwritten`). `ReferredInv`: one that exists is referred to, or a call has it yet
  to remove (`Purges`). `ServedInv`: in its phase, a call finds the metadata and the
  documents as its own steps left them (`Serves`), and at most one creation has committed.
  When no call is under way the first two are `NoDangling` (`PathsLeadToSecrets`) and
  `NoOrphans` (`SecretsAreReferredTo`); when a call ends, the third is `AnswersHold`
  (`AnswersAreTrue`). `RemovedStaysRemoved`: a commit that makes a path visible finds no
  document under it that its call did not write, by `ReferredInv`.
* `FluxWiringProofs!RootsCorrect`: every step writes the root of each cluster whose
  children it changes; `RootsListChildren` is inductive with the types and the
  environments that a call carries.
* `ChildrenCorrect`: `ChildrenMatchApplications` needs that a call's environments are
  still its project's (no deletion under a call), that file names of different
  applications differ when project ids do not begin like one another (a fact about
  sequences, proved), and that every live application's project is catalogued.
* `SigningKeysProofs!RetiredLapse`: the invariant dates every key of the copy and of an
  answer under way: a retired key was published when the answer was given, which
  was within `Timeout` of `fetchedAt`, and a copy serves only while it is fresh.
* `NewAccepted`: a request that refuses a token for want of its key has fetched for
  itself (`forced`), so what it looks at was answered while it waited. The issuer does
  not take a key back and publish it again.
* `AutoUpdateProofs!TypeCorrect`: with `CallInv`, that a call about to enqueue has a tag, and
  `QueueInv`, that only with `retry` has a queued operation been tried.
* `RolledBackOnce`: `TakenOnce` says, of each application's newest deployment and of the
  one that is superseded and may become the newest again, that it was taken back at most
  once, and, if it was, that the event is there or about to be (where events are kept), or
  the mark is (where marks are kept and neither a user nor a second attempt writes over
  them); and that a deployment being looked at was not. An execution moves what is known
  of one of them, and of the calls about it, to the other
  (`ExecutionKeepsRollbackInv`).
* `GitRepositoryProofs!StableReads`: the inductive `LockInv` says in which phases an
  actor holds the file lock and the in-process lock, that no one holds the latter
  for writing beside a reader, and that a background sync finds a clone, so that its
  fetch, which comes before the in-process lock, leaves the worktree alone.
* `SuccessCorrect`: `WriteInv` says phase by phase what a writer has of
  the branch: `HEAD` is what was fetched, the worktree differs from it in the writer's
  own files only, and a commit has all of them. The file lock keeps others out.
* `CloneImplementsAtomicRepository`: by `WriteInv`, and that writers do not wait for
  another's sync (`WriterInv`), every step is one of `AtomicRepository` or a stutter.

Only model-checked: liveness (`EverySettlesIfUp`, `StagesAreCleaned`,
`OrphansAreCleanedUnlessArchived`, `TagIsRun`, `BadTagLeaves`, `EveryRequestIsAnswered`,
and that of `GitRepository`), since TLAPS does not reason about `ENABLED` and so cannot use
weak or strong fairness.

## Findings

1. A worker that stops in the middle leaves its operation Running for ever
   (`queue_stuck`).
2. A change to `prod` is merged without approval though the policy requires it,
   when the environment is listed without a write mode (`change_policy`).
3. A failed edit and a push from elsewhere wedge the clone (`git_wedge`).
4. An event appended after a deletion leaves a directory that no application has:
   the name stays taken, and the project's applications cannot be listed
   (`lifecycle_conflict`).

Beside these, the premises of properties mark what the code does not promise.

* A retry (`deployment_operations.go:109`) comes after newer requests of the same
  application and writes the older image over the newer one, though
  `docs/user-feedback-log.md:60` wants the order of Git writes kept;
  `WritesKeepOrderIfUndisturbed` holds of behaviours without retries.
* Of two requests for one application that are under way together, the one with the earlier
  `created_at` may be inserted after the other was claimed and written
  (`service.go:517`), and is then written over it: the order of writes is kept only for
  a request that is made when the other is in the queue.
* A change that is drafted again under its id, after it had deployed another tag, is
  reported as Merged and its tag is never deployed, since the insert yields to the row of
  that id (`deployment_operations_mariadb.go:94`) and `CreateDeployment` answers Queued all
  the same, though `docs/backend-worklist.md:160` says that merging applies the change;
  `MergedIsApplied` excepts these.
* A lease that runs out under a worker at work (`slow`) admits a second writer under
  one lock, though `docs/current-implementation-status.md:76` speaks of a single one;
  git refuses the slower push, so the damage is an order of writes that the queue did
  not choose.
* Calls on one application that overlap (`overlap`) can lose an update of another key,
  or leave or remove secrets against the metadata; a deletion that fails between two
  secrets (`purge`) leaves the rest, which a later application of that name finds in
  its versions.
* One archived application stops the orphan cleanup for every project
  (`orphan_cleanup.go:217` passes over `ErrNotFound` only, and `loadRecord` answers
  `ErrArchived`), which `OrphansAreCleanedUnlessArchived` excepts;
  `docs/backend-worklist.md:71` lists the cleanup as done without such a condition.
* Deleting project `a` removes the children of project `a-b`'s applications
  (`prefix`), and an application created with a project that was deleted and created
  again meanwhile runs on a cluster its project does not have (`stale`).
* Request ids of automatic updates have the resolution of a second
  (`poller.go:305`): of two applications updated in one second, one is dropped and
  reported as requested; the next check asks again, which `TagIsRun` shows.
* A rollback that the worker gives up (`refused`), or that it was at when the server stopped
  (`crashed`), is not asked for again, since its deployment is marked and its event is
  there: the bad tag stays. So it does when a second attempt at the deployment, whose
  first answer was lost, writes it again after its rollback (`DeployedAgain`): the event
  under its id keeps the poller from taking it back.
* Where both the mark and the event are lost, or the server stops between the request and
  the mark, the next cycle takes the deployment back again.

## Plan

The queue came first, then what it stands on or feeds (history, changes, the clone),
then the lifecycle, the wiring, the poller and the keys. What is left, in order:

1. The safety parts of the other liveness properties: that of the actors of
   `GitRepository` and of the requests of `SigningKeys`, one that waits for a lock waits
   for somebody who does not wait in turn; that a staged secret nobody works on is on the
   cleanup's list.
2. An abstract specification of a reviewed change (drafted, approved, in effect, once),
   which `ChangeWorkflow` implements where handlers do not disagree.
3. The other settings that the poller brings up to date
   (`reconcileRepositoryState`), beside a user's patch of the same ones.

Not modelled: YAML rendering (pure), readers of external services (stateless),
HTTP, header authentication and groups, the secrets of a deleted project, the
frontend, CI and deployment manifests, and the synchronous deployment path that is
taken when no database is configured, which is `executeDeploymentOperation` without
the queue.
