---------------------------- MODULE GitRepository -----------------------------
(***************************************************************************)
(* The clone of the desired-state repository that a backend process keeps  *)
(* in one directory.  Writers take the directory's file lock and the       *)
(* in-process lock, bring the worktree to the remote branch, edit files,   *)
(* commit and push.  Readers read the worktree as it is, and start a sync  *)
(* in the background when the last one is older than its time to live;     *)
(* they sync themselves only while there is no clone.                      *)
(*                                                                         *)
(* A file's content is named after who wrote it last: the same call writes *)
(* the same content when it is repeated.                                   *)
(***************************************************************************)
EXTENDS Naturals, FiniteSets

CONSTANTS
    Files,
    Writers, FilesOf,   \* calls of WithWrite, and the files that each one writes
    Readers,            \* calls of WithRead and of EnsureFile
    Impatient,          \* calls that fail rather than wait for a lock
    Background,         \* the goroutine that syncs in the background
    Others, Initial,    \* who else writes files: other clones, and before
    NoOne,
    Scenarios,          \* sets of disturbances, one of which a behaviour admits
    MaxFaults           \* bound on the disturbances of a behaviour

(* fn: the edit of a writer fails midway; git: a git command fails; killed: it *)
(* is killed and leaves its index.lock; lost: a push takes effect and returns  *)
(* an error; cancel: the context of a call ends while it waits; others: another *)
(* clone pushes; crash: the process stops, and is started again on the same    *)
(* directory.                                                                  *)
Disturbances == {"fn", "git", "killed", "lost", "cancel", "others", "crash"}

Actors == Writers \cup Readers \cup {Background}
Tokens == Writers \cup {Others, Initial}
Trees  == [Files -> Tokens]

ASSUME RepositoryAssumption ==
    /\ FilesOf \in [Writers -> (SUBSET Files) \ {{}}]
    /\ Writers \cap Readers = {}
    /\ Background \notin Writers \cup Readers
    /\ Impatient \subseteq Writers \cup Readers
    /\ NoOne \notin Actors
    /\ {Others, Initial} \cap Writers = {}
    /\ Scenarios \subseteq SUBSET Disturbances
    /\ MaxFaults \in Nat

VARIABLES
    branch,     \* the remote branch
    landed,     \* the writers whose files it has held, all at once, since their call
    (* the directory *)
    cloned,     \* does it hold a clone?
    tracked,    \* origin/<branch>
    behind,     \* has the branch moved since tracked was set?
    head,       \* HEAD
    worktree,
    indexLock,  \* is there an index.lock that a killed command left?
    flock,      \* who holds the file lock
    (* the process *)
    mu,         \* who holds the in-process lock for writing
    inFlight,   \* who syncs on behalf of readers
    fresh,      \* is the last sync younger than its time to live?
    phase,
    todo,       \* the files that a writer has yet to write
    result,     \* how its last call ended
    faults,
    admitted

dirVars  == <<cloned, tracked, behind, head, worktree, indexLock>>
lockVars == <<flock, mu, inFlight>>
vars == <<branch, landed, dirVars, lockVars, fresh, phase, todo, result, faults,
          admitted>>

GitPhases == {"fetch", "checkout", "reset", "commit", "push"}
IndexPhases == {"checkout", "reset", "commit"}
Waiting == {"sync", "flock", "mu", "rlock"}
Phases == {"idle", "edit", "reading"} \cup Waiting \cup GitPhases

Before == [f \in Files |-> Initial]

Dirty == {f \in Files : worktree[f] # head[f]}

FaultLeft(d) == d \in admitted /\ faults < MaxFaults
Fault(d)     == FaultLeft(d) /\ faults' = faults + 1

Init ==
    /\ branch = Before
    /\ landed = {}
    /\ cloned = FALSE
    /\ tracked = Before
    /\ behind = FALSE
    /\ head = Before
    /\ worktree = Before
    /\ indexLock = FALSE
    /\ flock = NoOne
    /\ mu = NoOne
    /\ inFlight = NoOne
    /\ fresh = FALSE
    /\ phase = [a \in Actors |-> "idle"]
    /\ todo = [w \in Writers |-> {}]
    /\ result = [w \in Writers |-> "none"]
    /\ faults = 0
    /\ admitted \in Scenarios

-----------------------------------------------------------------------------
(* Locks, of which an actor releases what it holds when its call ends.     *)

Go(a, next) == phase' = [phase EXCEPT ![a] = next]

\* Mutant: the background sync keeps the in-process lock.
ReleaseButBackground(a) ==
    /\ flock' = IF flock = a THEN NoOne ELSE flock
    /\ mu' = IF mu = a /\ a # Background THEN NoOne ELSE mu
    /\ inFlight' = IF inFlight = a THEN NoOne ELSE inFlight

Release(a) ==
    /\ flock' = IF flock = a THEN NoOne ELSE flock
    /\ mu' = IF mu = a THEN NoOne ELSE mu
    /\ inFlight' = IF inFlight = a THEN NoOne ELSE inFlight

Report(a, how) ==
    /\ result' = IF a \in Writers THEN [result EXCEPT ![a] = how] ELSE result
    /\ todo' = IF a \in Writers THEN [todo EXCEPT ![a] = {}] ELSE todo

\* Who waits for the first clone fails with it.
WaitsFor(b, a) == phase[b] = "sync" /\ inFlight = a /\ ~cloned

Fails(a) ==
    /\ phase' = [b \in Actors |-> IF b = a \/ WaitsFor(b, a) THEN "idle" ELSE phase[b]]
    /\ Release(a)
    /\ Report(a, "failed")

\* Mutant: the background sync does not exclude readers.
MuFreeForBackground(a) ==
    mu = NoOne /\ (a = Background \/ \A r \in Readers : phase[r] # "reading")

MuFree(a) == mu = NoOne /\ \A r \in Readers : phase[r] # "reading"

TakeProcessLock(a) ==
    /\ phase[a] = "flock"
    /\ flock = NoOne
    /\ flock' = a
    /\ Go(a, IF a = Background THEN "fetch" ELSE "mu")
    /\ UNCHANGED <<branch, landed, dirVars, mu, inFlight, fresh, todo, result, faults,
                   admitted>>

Busy(a) ==
    \/ phase[a] = "sync" /\ inFlight # NoOne
    \/ phase[a] = "flock" /\ flock # NoOne
    \/ phase[a] = "mu" /\ ~MuFree(a)
    \/ phase[a] = "rlock" /\ mu # NoOne

\* The background sync does not wait for the file lock, but for the in-process lock.
LockBusy(a) ==
    /\ Busy(a)
    /\ a \in Impatient \/ (a = Background /\ phase[a] = "flock")
    /\ Fails(a)
    /\ UNCHANGED <<branch, landed, dirVars, fresh, faults, admitted>>

GiveUp(a) ==
    /\ phase[a] \in Waiting
    /\ a = Background => phase[a] # "flock"
    /\ Fault("cancel")
    /\ Fails(a)
    /\ UNCHANGED <<branch, landed, dirVars, fresh, admitted>>

\* A reader whose sync was overtaken by another one is done.
TakeInProcessLock(a) ==
    /\ phase[a] = "mu"
    /\ MuFree(a)
    /\ IF a \in Readers /\ fresh
       THEN Go(a, "rlock") /\ Release(a)
       ELSE /\ mu' = a
            /\ Go(a, IF a = Background THEN "checkout" ELSE "fetch")
            /\ UNCHANGED <<flock, inFlight>>
    /\ UNCHANGED <<branch, landed, dirVars, fresh, todo, result, faults, admitted>>

-----------------------------------------------------------------------------
(* Bringing the worktree to the remote branch.                             *)

\* The first time, the directory is cloned.
SyncRemote(a) ==
    /\ phase[a] = "fetch"
    /\ cloned' = TRUE
    /\ tracked' = branch
    /\ behind' = FALSE
    /\ IF cloned THEN UNCHANGED <<head, worktree>> ELSE head' = branch /\ worktree' = branch
    /\ Go(a, IF a = Background THEN "mu" ELSE "checkout")
    /\ UNCHANGED <<branch, landed, indexLock, lockVars, fresh, todo, result, faults,
                   admitted>>

\* checkout -B keeps changes of the worktree, and refuses when the branch changes one
\* of these files.
Refused == indexLock \/ \E f \in Dirty : head[f] # tracked[f]

Checkout(a) ==
    /\ phase[a] = "checkout"
    /\ IF Refused
       THEN Fails(a) /\ UNCHANGED <<head, worktree>>
       ELSE /\ head' = tracked
            /\ worktree' = [f \in Files |-> IF f \in Dirty THEN worktree[f] ELSE tracked[f]]
            /\ Go(a, "reset")
            /\ UNCHANGED <<lockVars, todo, result>>
    /\ UNCHANGED <<branch, landed, cloned, tracked, behind, indexLock, fresh, faults,
                   admitted>>

\* Mutant: changes that a failed write left behind stay.
NotCleaned == worktree

\* reset --hard and clean -fd.
Cleaned == head

Synced(a) ==
    IF a \in Writers
    THEN Go(a, "edit") /\ todo' = [todo EXCEPT ![a] = FilesOf[a]] /\ UNCHANGED lockVars
    ELSE Go(a, IF a = Background THEN "idle" ELSE "rlock") /\ Release(a) /\ UNCHANGED todo

RefreshWorktree(a) ==
    /\ phase[a] = "reset"
    /\ worktree' = Cleaned
    /\ fresh' = TRUE
    /\ Synced(a)
    /\ UNCHANGED <<branch, landed, cloned, tracked, behind, head, indexLock, result,
                   faults, admitted>>

-----------------------------------------------------------------------------
(* Writing.                                                                *)

Holds(tree, w) == \A f \in FilesOf[w] : tree[f] = w

Called(w) == landed' = IF Holds(branch, w) THEN landed \cup {w} ELSE landed \ {w}

\* Mutant: a writer counts as the sync that is in flight.
WithWriteInFlight(w) ==
    /\ phase[w] = "idle"
    /\ Go(w, "flock")
    /\ inFlight' = w
    /\ Called(w)
    /\ result' = [result EXCEPT ![w] = "none"]
    /\ UNCHANGED <<branch, dirVars, flock, mu, fresh, todo, faults, admitted>>

WithWrite(w) ==
    /\ phase[w] = "idle"
    /\ Go(w, "flock")
    /\ Called(w)
    /\ result' = [result EXCEPT ![w] = "none"]
    /\ UNCHANGED <<branch, dirVars, lockVars, fresh, todo, faults, admitted>>

EditFile(w, f) ==
    /\ phase[w] = "edit"
    /\ f \in todo[w]
    /\ worktree' = [worktree EXCEPT ![f] = w]
    /\ todo' = [todo EXCEPT ![w] = @ \ {f}]
    /\ Go(w, IF todo[w] = {f} THEN "commit" ELSE "edit")
    /\ UNCHANGED <<branch, landed, cloned, tracked, behind, head, indexLock, lockVars, fresh,
                   result, faults, admitted>>

EditFails(w) ==
    /\ phase[w] = "edit"
    /\ Fault("fn")
    /\ Fails(w)
    /\ UNCHANGED <<branch, landed, dirVars, fresh, admitted>>

Commit(w) ==
    /\ phase[w] = "commit"
    /\ IF Dirty = {}
       THEN Go(w, "idle") /\ Release(w) /\ Report(w, "ok") /\ UNCHANGED head
       ELSE Go(w, "push") /\ head' = worktree /\ UNCHANGED <<lockVars, todo, result>>
    /\ UNCHANGED <<branch, landed, cloned, tracked, behind, worktree, indexLock, fresh,
                   faults, admitted>>

BranchBecomes(tree) ==
    /\ branch' = tree
    /\ landed' = landed \cup {w \in Writers : Holds(tree, w)}

\* Mutant: a refused push is taken for a success.
PushUnchecked(w) ==
    /\ phase[w] = "push"
    /\ IF behind THEN UNCHANGED <<branch, landed>> ELSE BranchBecomes(head)
    /\ tracked' = head
    /\ fresh' = TRUE
    /\ Go(w, "idle") /\ Release(w) /\ Report(w, "ok")
    /\ UNCHANGED <<cloned, behind, head, worktree, indexLock, faults, admitted>>

\* The remote refuses a commit that does not follow its last one.
Push(w) ==
    /\ phase[w] = "push"
    /\ IF behind
       THEN Fails(w) /\ UNCHANGED <<branch, landed, tracked, fresh>>
       ELSE /\ BranchBecomes(head)
            /\ tracked' = head
            /\ fresh' = TRUE
            /\ Go(w, "idle") /\ Release(w) /\ Report(w, "ok")
    /\ UNCHANGED <<cloned, behind, head, worktree, indexLock, faults, admitted>>

PushAnswerLost(w) ==
    /\ phase[w] = "push"
    /\ ~behind
    /\ Fault("lost")
    /\ BranchBecomes(head)
    /\ behind' = TRUE
    /\ Fails(w)
    /\ UNCHANGED <<cloned, tracked, head, worktree, indexLock, fresh, admitted>>

-----------------------------------------------------------------------------
(* Reading.                                                                *)

\* Mutant: a reader that finds a clone is content with it.
WithReadAsIs(r) ==
    /\ phase[r] = "idle"
    /\ Go(r, IF cloned THEN "rlock" ELSE "sync")
    /\ UNCHANGED <<branch, landed, dirVars, lockVars, fresh, todo, result, faults,
                   admitted>>

WithRead(r) ==
    /\ phase[r] = "idle"
    /\ IF cloned /\ ~fresh /\ inFlight = NoOne
       THEN /\ inFlight' = Background
            /\ phase' = [phase EXCEPT ![r] = "rlock", ![Background] = "flock"]
       ELSE Go(r, IF cloned THEN "rlock" ELSE "sync") /\ UNCHANGED inFlight
    /\ UNCHANGED <<branch, landed, dirVars, flock, mu, fresh, todo, result, faults,
                   admitted>>

EnsureFile(r) ==
    /\ phase[r] = "idle"
    /\ Go(r, "sync")
    /\ UNCHANGED <<branch, landed, dirVars, lockVars, fresh, todo, result, faults,
                   admitted>>

\* One sync is in flight at a time: the others wait for it, and look again.
SyncOnce(r) ==
    /\ phase[r] = "sync"
    /\ IF fresh
       THEN Go(r, "rlock") /\ UNCHANGED inFlight
       ELSE inFlight = NoOne /\ inFlight' = r /\ Go(r, "flock")
    /\ UNCHANGED <<branch, landed, dirVars, flock, mu, fresh, todo, result, faults,
                   admitted>>

TakeReadLock(r) ==
    /\ phase[r] = "rlock"
    /\ mu = NoOne
    /\ Go(r, "reading")
    /\ UNCHANGED <<branch, landed, dirVars, lockVars, fresh, todo, result, faults, admitted>>

EndRead(r) ==
    /\ phase[r] = "reading"
    /\ Go(r, "idle")
    /\ UNCHANGED <<branch, landed, dirVars, lockVars, fresh, todo, result, faults,
                   admitted>>

-----------------------------------------------------------------------------
(* What goes wrong, and what goes on outside.                              *)

\* A git command fails, or is killed at its timeout.
CommandFails(a) ==
    /\ phase[a] \in GitPhases
    /\ \/ Fault("git") /\ UNCHANGED indexLock
       \/ phase[a] \in IndexPhases /\ Fault("killed") /\ indexLock' = TRUE
    /\ Fails(a)
    /\ UNCHANGED <<branch, landed, cloned, tracked, behind, head, worktree, fresh,
                   admitted>>

OtherClonePushes(f) ==
    /\ Fault("others")
    /\ branch[f] # Others
    /\ BranchBecomes([branch EXCEPT ![f] = Others])
    /\ behind' = TRUE
    /\ UNCHANGED <<cloned, tracked, head, worktree, indexLock, lockVars, fresh, phase, todo,
                   result, admitted>>

\* The last sync outlives its time to live.
Expire ==
    /\ fresh
    /\ fresh' = FALSE
    /\ UNCHANGED <<branch, landed, dirVars, lockVars, phase, todo, result, faults,
                   admitted>>

\* The directory outlives the process.
Crash ==
    /\ Fault("crash")
    /\ flock' = NoOne
    /\ mu' = NoOne
    /\ inFlight' = NoOne
    /\ fresh' = FALSE
    /\ phase' = [a \in Actors |-> "idle"]
    /\ todo' = [w \in Writers |-> {}]
    /\ result' = [w \in Writers |-> IF phase[w] = "idle" THEN result[w] ELSE "failed"]
    /\ \/ UNCHANGED indexLock
       \/ /\ "killed" \in admitted
          /\ \E a \in Actors : phase[a] \in IndexPhases
          /\ indexLock' = TRUE
    /\ UNCHANGED <<branch, landed, cloned, tracked, behind, head, worktree, admitted>>

-----------------------------------------------------------------------------

Sync(a) == SyncRemote(a) \/ Checkout(a) \/ RefreshWorktree(a)

Edit(w) == \E f \in Files : EditFile(w, f)

Write(w) == w \in Writers /\ (Edit(w) \/ Commit(w) \/ Push(w))

Read(r) ==
    /\ r \in Readers
    /\ WithRead(r) \/ EnsureFile(r) \/ SyncOnce(r) \/ TakeReadLock(r) \/ EndRead(r)

Step(a) ==
    TakeProcessLock(a) \/ TakeInProcessLock(a) \/ LockBusy(a) \/ Sync(a) \/ Write(a) \/ Read(a)

Next ==
    \/ \E a \in Actors : Step(a) \/ GiveUp(a) \/ CommandFails(a)
    \/ \E w \in Writers : WithWrite(w) \/ EditFails(w) \/ PushAnswerLost(w)
    \/ \E f \in Files : OtherClonePushes(f)
    \/ Expire
    \/ Crash

Spec == Init /\ [][Next]_vars

\* Calls go on, readers come again, and syncs expire.  Locks are polled: whoever finds
\* one taken tries again, and is assumed to find it free some time.
Fairness == WF_vars(Expire) /\ \A a \in Actors : SF_vars(Step(a))

FairSpec == Spec /\ Fairness

-----------------------------------------------------------------------------
(* Properties. *)

\* Every variable has its type.
TypeOK ==
    /\ branch \in Trees
    /\ landed \subseteq Writers
    /\ cloned \in BOOLEAN
    /\ tracked \in Trees
    /\ behind \in BOOLEAN
    /\ head \in Trees
    /\ worktree \in Trees
    /\ indexLock \in BOOLEAN
    /\ flock \in Actors \cup {NoOne}
    /\ mu \in Actors \cup {NoOne}
    /\ inFlight \in Readers \cup {Background, NoOne}
    /\ fresh \in BOOLEAN
    /\ phase \in [Actors -> Phases]
    /\ todo \in [Writers -> SUBSET Files]
    /\ result \in [Writers -> {"none", "ok", "failed"}]
    /\ faults \in 0..MaxFaults
    /\ admitted \subseteq Disturbances

\* While a reader reads, no file of the worktree changes under it.
ReadsAreStable ==
    [][\A r \in Readers :
          phase[r] = "reading" /\ phase'[r] = "reading" => worktree' = worktree]_vars

\* When a call of WithWrite has succeeded, all its files have been on the remote branch
\* at once since the call was made.
SuccessIsLanded == \A w \in Writers : result[w] = "ok" => w \in landed

Standing ==
    [w \in Writers |-> IF phase[w] = "idle" THEN result[w]
                       ELSE IF w \in landed THEN "written" ELSE "open"]

Atomic == INSTANCE AtomicRepository WITH standing <- Standing

\* A call of WithWrite is one step between its beginning and its end, whatever fails and
\* whoever else writes or waits: its push neither undoes what others pushed, nor publishes
\* what a failed write left in the worktree, nor lacks a file.  The clone implements
\* AtomicRepository.
ImplementsAtomicRepository == Atomic!Spec

\* A writer that calls WithWrite again and again succeeds again and again, whatever
\* failed before.
WritersSucceed ==
    \A w \in Writers \ Impatient : []<>(phase[w] = "flock") => []<>(result[w] = "ok")

\* What readers are shown is brought to the branch, again and again, unless the branch
\* keeps changing, or the impatient writers keep coming, each of whose failed calls may
\* have held the lock when a background sync tried it: neither what a failed write left
\* behind stays nor what another clone has replaced.
ReadersSeeBranch ==
    \/ []<>(worktree = branch)
    \/ []<><<branch' # branch>>_branch
    \/ []<>(\E w \in Writers \cap Impatient : phase[w] # "idle")

\* Either no write of this clone is abandoned with the worktree edited, or no other
\* clone pushes; and no index.lock stays.
Recoverable ==
    \/ admitted \cap {"others", "killed"} = {}
    \/ admitted \cap {"fn", "git", "crash", "killed"} = {}

\* Writers succeed then.
WritersSucceedIfRecoverable == Recoverable => WritersSucceed

\* And readers come to see the branch.
ReadersSeeBranchIfRecoverable == Recoverable => ReadersSeeBranch
=============================================================================
