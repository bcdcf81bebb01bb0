------------------------- MODULE GitRepositoryProofs -------------------------
(* Proofs about GitRepository, for every value of its constants. *)
EXTENDS GitRepository, TLAPS

\* The parts of the types.
DirTyped ==
    /\ branch \in Trees /\ landed \subseteq Writers
    /\ cloned \in BOOLEAN /\ tracked \in Trees /\ behind \in BOOLEAN
    /\ head \in Trees /\ worktree \in Trees /\ indexLock \in BOOLEAN

LocksTyped ==
    /\ flock \in Actors \cup {NoOne}
    /\ mu \in Actors \cup {NoOne}
    /\ inFlight \in Readers \cup {Background, NoOne}

CallsTyped ==
    /\ phase \in [Actors -> Phases]
    /\ todo \in [Writers -> SUBSET Files]
    /\ result \in [Writers -> {"none", "ok", "failed"}]

RestTyped ==
    /\ fresh \in BOOLEAN
    /\ faults \in 0..MaxFaults
    /\ admitted \subseteq Disturbances

LEMMA TypeParts == TypeOK => DirTyped /\ LocksTyped /\ CallsTyped /\ RestTyped
BY DEF TypeOK, DirTyped, LocksTyped, CallsTyped, RestTyped

LEMMA TypedAfter == DirTyped' /\ LocksTyped' /\ CallsTyped' /\ RestTyped' => TypeOK'
BY DEF TypeOK, DirTyped, LocksTyped, CallsTyped, RestTyped

LEMMA ActorSets ==
    /\ Writers \subseteq Actors /\ Readers \subseteq Actors /\ Background \in Actors
    /\ NoOne \notin Actors /\ Background \notin Writers \cup Readers
    /\ Writers \cap Readers = {}
BY RepositoryAssumption DEF Actors

\* One actor goes on, and the others stay where they are.
LEMMA GoEffect ==
    ASSUME CallsTyped, NEW a \in Actors, NEW next, Go(a, next)
    PROVE  /\ phase'[a] = next
           /\ \A b \in Actors \ {a} : phase'[b] = phase[b]
           /\ next \in Phases => phase' \in [Actors -> Phases]
BY DEF CallsTyped, Go

\* A call fails, and with it calls that wait for it.
LEMMA FailsEffect ==
    ASSUME CallsTyped, NEW a \in Actors, Fails(a)
    PROVE  /\ phase'[a] = "idle"
           /\ \A b \in Actors : phase'[b] = phase[b] \/ phase'[b] = "idle"
           /\ \A w \in Writers : result'[w] = result[w] \/ result'[w] = "failed"
           /\ \A w \in Writers \ {a} : todo'[w] = todo[w]
           /\ CallsTyped'
<1>1. phase' = [b \in Actors |-> IF b = a \/ WaitsFor(b, a) THEN "idle" ELSE phase[b]]
  BY DEF Fails
<1>2. /\ phase'[a] = "idle"
      /\ \A b \in Actors : phase'[b] = phase[b] \/ phase'[b] = "idle"
  BY <1>1
<1>3. phase' \in [Actors -> Phases]
  BY <1>1 DEF CallsTyped, Phases
<1>4. /\ result' = IF a \in Writers THEN [result EXCEPT ![a] = "failed"] ELSE result
      /\ todo' = IF a \in Writers THEN [todo EXCEPT ![a] = {}] ELSE todo
  BY DEF Fails, Report
<1>5. /\ todo' \in [Writers -> SUBSET Files]
      /\ result' \in [Writers -> {"none", "ok", "failed"}]
  BY <1>4 DEF CallsTyped
<1>6. /\ \A w \in Writers : result'[w] = result[w] \/ result'[w] = "failed"
      /\ \A w \in Writers \ {a} : todo'[w] = todo[w]
  BY <1>4 DEF CallsTyped
<1> QED
  BY <1>2, <1>3, <1>5, <1>6 DEF CallsTyped

\* A writer's call ends well.
LEMMA SuccessEffect ==
    ASSUME CallsTyped, NEW w \in Writers, Go(w, "idle"), Report(w, "ok")
    PROVE  /\ phase'[w] = "idle"
           /\ \A b \in Actors \ {w} : phase'[b] = phase[b]
           /\ \A v \in Writers \ {w} : result'[v] = result[v] /\ todo'[v] = todo[v]
           /\ CallsTyped'
<1>1. /\ result' = [result EXCEPT ![w] = "ok"]
      /\ todo' = [todo EXCEPT ![w] = {}]
  BY DEF Report
<1>2. /\ todo' \in [Writers -> SUBSET Files]
      /\ result' \in [Writers -> {"none", "ok", "failed"}]
      /\ \A v \in Writers \ {w} : result'[v] = result[v] /\ todo'[v] = todo[v]
  BY <1>1 DEF CallsTyped
<1>3. "idle" \in Phases /\ w \in Actors
  BY ActorSets DEF Phases
<1> QED
  BY <1>2, <1>3, GoEffect DEF CallsTyped

LEMMA ReleaseTyped ==
    ASSUME LocksTyped, NEW a, Release(a)
    PROVE  LocksTyped'
BY DEF LocksTyped, Release

LEMMA FaultTyped ==
    ASSUME RestTyped, NEW d, Fault(d), admitted' = admitted, fresh' \in BOOLEAN
    PROVE  RestTyped'
<1>1. faults' \in 0..MaxFaults
  BY RepositoryAssumption DEF RestTyped, Fault, FaultLeft
<1> QED
  BY <1>1 DEF RestTyped

-----------------------------------------------------------------------------

\* What a call may read or change of the directory and the branch.
shown == <<branch, landed, cloned, tracked, behind, head, worktree>>

\* The steps in which a call fails and leaves them alone.
Failure(a) == Fails(a) /\ UNCHANGED shown

LEMMA FailingSteps ==
    ASSUME NEW a \in Actors,
           \/ LockBusy(a) \/ GiveUp(a) \/ CommandFails(a) \/ EditFails(a)
           \/ (Checkout(a) /\ Refused) \/ (Push(a) /\ behind)
    PROVE  Failure(a)
<1>1. CASE LockBusy(a)
  BY <1>1 DEF LockBusy, Failure, shown, dirVars
<1>2. CASE GiveUp(a)
  BY <1>2 DEF GiveUp, Failure, shown, dirVars
<1>3. CASE CommandFails(a)
  BY <1>3 DEF CommandFails, Failure, shown
<1>4. CASE EditFails(a)
  BY <1>4 DEF EditFails, Failure, shown, dirVars
<1>5. CASE Checkout(a) /\ Refused
  BY <1>5 DEF Checkout, Failure, shown
<1>6. CASE Push(a) /\ behind
  BY <1>6 DEF Push, Failure, shown
<1> QED
  BY <1>1, <1>2, <1>3, <1>4, <1>5, <1>6

\* And what else they leave alone.
LEMMA FailureTyped ==
    ASSUME TypeOK, NEW a \in Actors, Failure(a), RestTyped', indexLock' \in BOOLEAN
    PROVE  TypeOK'
<1>1. DirTyped /\ LocksTyped /\ CallsTyped
  BY TypeParts
<1>2. DirTyped'
  BY <1>1 DEF DirTyped, Failure, shown
<1>3. LocksTyped'
  BY <1>1, ReleaseTyped DEF Failure, Fails
<1>4. CallsTyped'
  BY <1>1, FailsEffect DEF Failure
<1> QED
  BY <1>2, <1>3, <1>4, TypedAfter

LEMMA FailuresTyped ==
    ASSUME TypeOK, NEW a \in Actors,
           LockBusy(a) \/ GiveUp(a) \/ CommandFails(a) \/ EditFails(a)
    PROVE  TypeOK'
<1>1. Failure(a)
  BY FailingSteps
<1>2. RestTyped /\ indexLock \in BOOLEAN
  BY TypeParts DEF DirTyped
<1>3. RestTyped' /\ indexLock' \in BOOLEAN
  <2>1. CASE LockBusy(a)
    BY <1>2, <2>1 DEF LockBusy, RestTyped, dirVars
  <2>2. CASE GiveUp(a)
    <3>1. Fault("cancel") /\ UNCHANGED <<admitted, fresh, indexLock>>
      BY <2>2 DEF GiveUp, dirVars
    <3> QED
      BY <1>2, <3>1, FaultTyped DEF RestTyped
  <2>3. CASE CommandFails(a)
    <3>1. /\ Fault("git") \/ Fault("killed")
          /\ UNCHANGED <<admitted, fresh>> /\ indexLock' \in {indexLock, TRUE}
      BY <2>3 DEF CommandFails
    <3> QED
      BY <1>2, <3>1, FaultTyped DEF RestTyped
  <2>4. CASE EditFails(a)
    <3>1. Fault("fn") /\ UNCHANGED <<admitted, fresh, indexLock>>
      BY <2>4 DEF EditFails, dirVars
    <3> QED
      BY <1>2, <3>1, FaultTyped DEF RestTyped
  <2> QED
    BY <2>1, <2>2, <2>3, <2>4
<1> QED
  BY <1>1, <1>3, FailureTyped

LEMMA LockingTyped ==
    ASSUME TypeOK, NEW a \in Actors, TakeProcessLock(a) \/ TakeInProcessLock(a)
    PROVE  TypeOK'
<1>1. DirTyped /\ LocksTyped /\ CallsTyped /\ RestTyped
  BY TypeParts
<1>2. {"fetch", "mu", "rlock", "checkout"} \subseteq Phases
  BY DEF Phases, Waiting, GitPhases
<1>3. UNCHANGED <<dirVars, branch, landed, fresh, faults, admitted, todo, result>>
  BY DEF TakeProcessLock, TakeInProcessLock
<1>4. DirTyped' /\ RestTyped'
  BY <1>1, <1>3 DEF DirTyped, RestTyped, dirVars
<1>5. CASE TakeProcessLock(a)
  <2>1. \E n \in Phases : Go(a, n)
    BY <1>2, <1>5 DEF TakeProcessLock
  <2>2. CallsTyped'
    BY <1>1, <1>3, <2>1, GoEffect DEF CallsTyped
  <2>3. LocksTyped'
    BY <1>1, <1>5 DEF TakeProcessLock, LocksTyped
  <2> QED
    BY <1>4, <2>2, <2>3, TypedAfter
<1>6. CASE TakeInProcessLock(a)
  <2>1. \E n \in Phases : Go(a, n)
    BY <1>2, <1>6 DEF TakeInProcessLock
  <2>2. CallsTyped'
    BY <1>1, <1>3, <2>1, GoEffect DEF CallsTyped
  <2>3. CASE Release(a)
    BY <1>1, <1>4, <2>2, <2>3, ReleaseTyped, TypedAfter
  <2>4. CASE mu' = a /\ UNCHANGED <<flock, inFlight>>
    <3>1. LocksTyped'
      BY <1>1, <2>4 DEF LocksTyped
    <3> QED
      BY <1>4, <2>2, <3>1, TypedAfter
  <2> QED
    BY <1>6, <2>3, <2>4 DEF TakeInProcessLock
<1> QED
  BY <1>5, <1>6

LEMMA SyncTyped ==
    ASSUME TypeOK, NEW a \in Actors, Sync(a)
    PROVE  TypeOK'
<1>1. DirTyped /\ LocksTyped /\ CallsTyped /\ RestTyped
  BY TypeParts
<1>2. {"mu", "rlock", "checkout", "reset", "edit", "idle"} \subseteq Phases
  BY DEF Phases, Waiting, GitPhases
<1>3. CASE SyncRemote(a)
  <2>1. DirTyped'
    BY <1>1, <1>3 DEF SyncRemote, DirTyped
  <2>2. LocksTyped' /\ RestTyped'
    BY <1>1, <1>3 DEF SyncRemote, LocksTyped, RestTyped, lockVars
  <2>3. \E n \in Phases : Go(a, n)
    BY <1>2, <1>3 DEF SyncRemote
  <2>4. CallsTyped'
    BY <1>1, <1>3, <2>3, GoEffect DEF CallsTyped, SyncRemote
  <2> QED
    BY <2>1, <2>2, <2>4, TypedAfter
<1>4. CASE Checkout(a) /\ Refused
  <2>1. RestTyped' /\ indexLock' \in BOOLEAN
    BY <1>1, <1>4 DEF Checkout, RestTyped, DirTyped
  <2> QED
    BY <1>4, <2>1, FailingSteps, FailureTyped
<1>5. CASE Checkout(a) /\ ~Refused
  <2>1. DirTyped'
    BY <1>1, <1>5 DEF Checkout, DirTyped, Trees
  <2>2. LocksTyped' /\ RestTyped'
    BY <1>1, <1>5 DEF Checkout, LocksTyped, RestTyped, lockVars
  <2>3. Go(a, "reset") /\ UNCHANGED <<todo, result>>
    BY <1>5 DEF Checkout
  <2>4. CallsTyped'
    BY <1>1, <1>2, <2>3, GoEffect DEF CallsTyped
  <2> QED
    BY <2>1, <2>2, <2>4, TypedAfter
<1>6. CASE RefreshWorktree(a)
  <2>1. DirTyped' /\ RestTyped'
    BY <1>1, <1>6 DEF RefreshWorktree, DirTyped, RestTyped, Cleaned
  <2>2. LocksTyped'
    <3>1. UNCHANGED lockVars \/ Release(a)
      BY <1>6 DEF RefreshWorktree, Synced
    <3> QED
      BY <1>1, <3>1, ReleaseTyped DEF LocksTyped, lockVars
  <2>3. CallsTyped'
    <3>1. \E n \in Phases : Go(a, n)
      BY <1>2, <1>6 DEF RefreshWorktree, Synced
    <3>2. todo' \in [Writers -> SUBSET Files]
      BY <1>1, <1>6, RepositoryAssumption DEF RefreshWorktree, Synced, CallsTyped
    <3>3. UNCHANGED result
      BY <1>6 DEF RefreshWorktree
    <3> QED
      BY <1>1, <3>1, <3>2, <3>3, GoEffect DEF CallsTyped
  <2> QED
    BY <2>1, <2>2, <2>3, TypedAfter
<1> QED
  BY <1>3, <1>4, <1>5, <1>6 DEF Sync

\* What a commit on the remote branch records.
LEMMA BranchTyped ==
    ASSUME DirTyped, NEW tree \in Trees, BranchBecomes(tree)
    PROVE  branch' \in Trees /\ landed' \subseteq Writers
BY DEF DirTyped, BranchBecomes

LEMMA WritingTyped ==
    ASSUME TypeOK, NEW w \in Writers,
           WithWrite(w) \/ Edit(w) \/ Commit(w) \/ Push(w) \/ PushAnswerLost(w)
    PROVE  TypeOK'
<1>1. DirTyped /\ LocksTyped /\ CallsTyped /\ RestTyped /\ w \in Actors
  BY TypeParts, ActorSets
<1>2. {"flock", "edit", "commit", "push", "idle"} \subseteq Phases
  BY DEF Phases, Waiting, GitPhases
<1>3. CASE WithWrite(w)
  <2>1. DirTyped'
    BY <1>1, <1>3 DEF WithWrite, Called, DirTyped, dirVars
  <2>2. LocksTyped' /\ RestTyped'
    BY <1>1, <1>3 DEF WithWrite, LocksTyped, RestTyped, lockVars
  <2>3. Go(w, "flock") /\ UNCHANGED todo /\ result' = [result EXCEPT ![w] = "none"]
    BY <1>3 DEF WithWrite
  <2>4. phase' \in [Actors -> Phases]
    BY <1>1, <1>2, <2>3, GoEffect
  <2>5. CallsTyped'
    BY <1>1, <2>3, <2>4 DEF CallsTyped
  <2> QED
    BY <2>1, <2>2, <2>5, TypedAfter
<1>4. CASE Edit(w)
  <2>1. PICK f \in Files : EditFile(w, f)
    BY <1>4 DEF Edit
  <2>2. DirTyped'
    BY <1>1, <2>1 DEF EditFile, DirTyped, Trees, Tokens
  <2>3. LocksTyped' /\ RestTyped'
    BY <1>1, <2>1 DEF EditFile, LocksTyped, RestTyped, lockVars
  <2>4. \E n \in Phases : Go(w, n)
    BY <1>2, <2>1 DEF EditFile
  <2>5. phase' \in [Actors -> Phases]
    BY <1>1, <2>4, GoEffect
  <2>6. todo' = [todo EXCEPT ![w] = @ \ {f}] /\ UNCHANGED result
    BY <2>1 DEF EditFile
  <2>7. CallsTyped'
    BY <1>1, <2>5, <2>6 DEF CallsTyped
  <2> QED
    BY <2>2, <2>3, <2>7, TypedAfter
<1>5. CASE Commit(w)
  <2>1. DirTyped' /\ RestTyped'
    BY <1>1, <1>5 DEF Commit, DirTyped, RestTyped
  <2>2. CASE Dirty = {}
    <3>1. Go(w, "idle") /\ Release(w) /\ Report(w, "ok")
      BY <1>5, <2>2 DEF Commit
    <3> QED
      BY <1>1, <2>1, <3>1, SuccessEffect, ReleaseTyped, TypedAfter
  <2>3. CASE Dirty # {}
    <3>1. Go(w, "push") /\ UNCHANGED <<flock, mu, inFlight, todo, result>>
      BY <1>5, <2>3 DEF Commit, lockVars
    <3>2. LocksTyped'
      BY <1>1, <3>1 DEF LocksTyped
    <3>3. CallsTyped'
      BY <1>1, <1>2, <3>1, GoEffect DEF CallsTyped
    <3> QED
      BY <2>1, <3>2, <3>3, TypedAfter
  <2> QED
    BY <2>2, <2>3
<1>6. CASE Push(w) /\ behind
  <2>1. RestTyped' /\ indexLock' \in BOOLEAN
    BY <1>1, <1>6 DEF Push, RestTyped, DirTyped
  <2> QED
    BY <1>1, <1>6, <2>1, FailingSteps, FailureTyped
<1>7. CASE Push(w) /\ ~behind
  <2>1. /\ BranchBecomes(head) /\ tracked' = head /\ fresh' = TRUE
        /\ Go(w, "idle") /\ Release(w) /\ Report(w, "ok")
        /\ UNCHANGED <<cloned, behind, head, worktree, indexLock, faults, admitted>>
    BY <1>7 DEF Push
  <2>2. branch' \in Trees /\ landed' \subseteq Writers
    BY <1>1, <2>1, BranchTyped DEF DirTyped
  <2>3. DirTyped' /\ RestTyped'
    BY <1>1, <2>1, <2>2 DEF DirTyped, RestTyped
  <2> QED
    BY <1>1, <2>1, <2>3, SuccessEffect, ReleaseTyped, TypedAfter
<1>8. CASE PushAnswerLost(w)
  <2>1. /\ BranchBecomes(head) /\ behind' = TRUE /\ Fault("lost") /\ Fails(w)
        /\ UNCHANGED <<cloned, tracked, head, worktree, indexLock, fresh, admitted>>
    BY <1>8 DEF PushAnswerLost
  <2>2. branch' \in Trees /\ landed' \subseteq Writers
    BY <1>1, <2>1, BranchTyped DEF DirTyped
  <2>3. DirTyped'
    BY <1>1, <2>1, <2>2 DEF DirTyped
  <2>4. fresh' \in BOOLEAN
    BY <1>1, <2>1 DEF RestTyped
  <2>5. RestTyped'
    BY <1>1, <2>1, <2>4, FaultTyped
  <2>6. Release(w)
    BY <2>1 DEF Fails
  <2> QED
    BY <1>1, <2>1, <2>3, <2>5, <2>6, FailsEffect, ReleaseTyped, TypedAfter
<1> QED
  BY <1>3, <1>4, <1>5, <1>6, <1>7, <1>8

LEMMA ReadingTyped ==
    ASSUME TypeOK, NEW r \in Readers, Read(r)
    PROVE  TypeOK'
<1>1. DirTyped /\ LocksTyped /\ CallsTyped /\ RestTyped /\ r \in Actors
  BY TypeParts, ActorSets
<1>2. {"flock", "sync", "rlock", "reading", "idle"} \subseteq Phases
  BY DEF Phases, Waiting
<1>3. UNCHANGED <<branch, landed, dirVars, flock, mu, fresh, todo, result, faults,
                  admitted>>
  BY DEF Read, WithRead, EnsureFile, SyncOnce, TakeReadLock, EndRead, lockVars
<1>4. DirTyped' /\ RestTyped'
  BY <1>1, <1>3 DEF DirTyped, RestTyped, dirVars
<1>5. inFlight' \in {inFlight, Background, r}
  BY DEF Read, WithRead, EnsureFile, SyncOnce, TakeReadLock, EndRead, lockVars
<1>6. LocksTyped'
  BY <1>1, <1>3, <1>5 DEF LocksTyped
<1>7. phase' \in [Actors -> Phases]
  <2>1. CASE \E n \in Phases : Go(r, n)
    BY <1>1, <2>1, GoEffect
  <2>2. CASE phase' = [phase EXCEPT ![r] = "rlock", ![Background] = "flock"]
    BY <1>1, <1>2, <2>2 DEF CallsTyped
  <2> QED
    BY <1>2, <2>1, <2>2 DEF Read, WithRead, EnsureFile, SyncOnce, TakeReadLock, EndRead
<1>8. CallsTyped'
  BY <1>1, <1>3, <1>7 DEF CallsTyped
<1> QED
  BY <1>4, <1>6, <1>8, TypedAfter

LEMMA OutsideTyped ==
    ASSUME TypeOK, (\E f \in Files : OtherClonePushes(f)) \/ Expire \/ Crash
    PROVE  TypeOK'
<1>1. DirTyped /\ LocksTyped /\ CallsTyped /\ RestTyped
  BY TypeParts
<1>2. ASSUME NEW f \in Files, OtherClonePushes(f)
      PROVE  TypeOK'
  <2>1. [branch EXCEPT ![f] = Others] \in Trees
    BY <1>1 DEF DirTyped, Trees, Tokens
  <2>2. DirTyped'
    BY <1>1, <1>2, <2>1, BranchTyped DEF OtherClonePushes, DirTyped
  <2>3. Fault("others") /\ UNCHANGED <<fresh, admitted>>
    BY <1>2 DEF OtherClonePushes
  <2>4. RestTyped'
    BY <1>1, <2>3, FaultTyped DEF RestTyped
  <2>5. LocksTyped' /\ CallsTyped'
    BY <1>1, <1>2 DEF OtherClonePushes, LocksTyped, CallsTyped, lockVars
  <2> QED
    BY <2>2, <2>4, <2>5, TypedAfter
<1>3. CASE Expire
  <2>1. DirTyped' /\ RestTyped'
    BY <1>1, <1>3 DEF Expire, DirTyped, RestTyped, dirVars
  <2>2. LocksTyped' /\ CallsTyped'
    BY <1>1, <1>3 DEF Expire, LocksTyped, CallsTyped, lockVars
  <2> QED
    BY <2>1, <2>2, TypedAfter
<1>4. CASE Crash
  <2>1. /\ Fault("crash") /\ fresh' = FALSE
        /\ UNCHANGED <<branch, landed, cloned, tracked, behind, head, worktree, admitted>>
        /\ indexLock' \in {indexLock, TRUE}
    BY <1>4 DEF Crash
  <2>2. DirTyped'
    BY <1>1, <2>1 DEF DirTyped
  <2>3. RestTyped'
    BY <1>1, <2>1, FaultTyped
  <2>4. LocksTyped'
    BY <1>4 DEF Crash, LocksTyped
  <2>5. /\ phase' = [a \in Actors |-> "idle"] /\ todo' = [w \in Writers |-> {}]
        /\ result' = [w \in Writers |-> IF phase[w] = "idle" THEN result[w] ELSE "failed"]
    BY <1>4 DEF Crash
  <2>6. CallsTyped'
    BY <1>1, <2>5 DEF CallsTyped, Phases
  <2> QED
    BY <2>2, <2>3, <2>4, <2>6, TypedAfter
<1> QED
  BY <1>2, <1>3, <1>4

LEMMA TypeInit == Init => TypeOK
<1> SUFFICES ASSUME Init PROVE TypeOK
  OBVIOUS
<1>1. Before \in Trees
  BY DEF Before, Trees, Tokens
<1>2. branch \in Trees /\ tracked \in Trees /\ head \in Trees /\ worktree \in Trees
  BY <1>1 DEF Init
<1>3. /\ phase \in [Actors -> Phases] /\ todo \in [Writers -> SUBSET Files]
      /\ result \in [Writers -> {"none", "ok", "failed"}]
  BY DEF Init, Phases
<1>4. faults \in 0..MaxFaults /\ admitted \subseteq Disturbances
  BY RepositoryAssumption DEF Init
<1> QED
  BY <1>2, <1>3, <1>4 DEF Init, TypeOK

LEMMA TypeStep == TypeOK /\ [Next]_vars => TypeOK'
<1> SUFFICES ASSUME TypeOK, [Next]_vars PROVE TypeOK'
  OBVIOUS
<1>1. ASSUME NEW a \in Actors, Step(a) \/ GiveUp(a) \/ CommandFails(a)
      PROVE  TypeOK'
  BY <1>1, FailuresTyped, LockingTyped, SyncTyped, WritingTyped, ReadingTyped
     DEF Step, Write, Read
<1>2. ASSUME NEW w \in Writers, WithWrite(w) \/ EditFails(w) \/ PushAnswerLost(w)
      PROVE  TypeOK'
  BY <1>2, ActorSets, FailuresTyped, WritingTyped
<1>3. CASE UNCHANGED vars
  BY <1>3 DEF vars, dirVars, lockVars, TypeOK
<1> QED
  BY <1>1, <1>2, <1>3, OutsideTyped DEF Next

\* Every variable keeps its type.
THEOREM TypeCorrect == Spec => []TypeOK
BY TypeInit, TypeStep, PTL DEF Spec

-----------------------------------------------------------------------------

(* Who holds the locks.  The background sync fetches before it takes the in-process  *)
(* lock, the others after; both change the worktree with it only.  A background sync *)
(* finds a clone, so that its fetch leaves the worktree alone.                       *)
FlockPhases == {"mu", "fetch", "checkout", "reset", "edit", "commit", "push"}
TreePhases  == {"checkout", "reset", "edit", "commit", "push"}
MuHeld(a)   == phase[a] \in TreePhases \/ (phase[a] = "fetch" /\ a # Background)

FlockInv == \A a \in Actors : phase[a] \in FlockPhases => flock = a
MuInv    == \A a \in Actors : MuHeld(a) => mu = a
ReadInv  == \A r \in Readers : phase[r] = "reading" => mu = NoOne
CloneInv == phase[Background] # "idle" => cloned

LockInv == FlockInv /\ MuInv /\ ReadInv /\ CloneInv

(* What is on the branch, and what a writer has of it.                               *)
BranchInv ==
    /\ ~behind => tracked = branch
    /\ \A w \in Writers : Holds(branch, w) => w \in landed

OwnFilesOnly(tree, base, w) == \A f \in Files \ FilesOf[w] : tree[f] = base[f]

CopyInv(w) ==
    /\ phase[w] \in {"checkout", "reset", "edit", "commit"} /\ Holds(tracked, w)
          => w \in landed
    /\ phase[w] \in {"reset", "edit", "commit"} => head = tracked
    /\ phase[w] \in {"edit", "commit"} => OwnFilesOnly(worktree, head, w)
    /\ phase[w] = "edit" =>
          /\ todo[w] \subseteq FilesOf[w]
          /\ \A f \in FilesOf[w] \ todo[w] : worktree[f] = w
    /\ phase[w] = "commit" => Holds(worktree, w)
    /\ phase[w] = "push" => Holds(head, w) /\ OwnFilesOnly(head, tracked, w)

WriteInv == BranchInv /\ (\A w \in Writers : CopyInv(w)) /\ SuccessIsLanded

-----------------------------------------------------------------------------

\* Nobody comes to hold a lock, and who releases the locks needs them no longer.
LEMMA LocksKept ==
    ASSUME LockInv, NEW a \in Actors,
           \A b \in Actors :
              phase'[b] \in FlockPhases \cup {"reading"} => phase'[b] = phase[b],
           \/ UNCHANGED <<flock, mu>>
           \/ Release(a) /\ phase'[a] \notin FlockPhases,
           phase'[Background] # "idle" => cloned'
    PROVE  LockInv'
<1>1. \A b \in Actors : flock = b => flock' = b \/ phase'[b] \notin FlockPhases
  BY DEF Release
<1>2. FlockInv'
  BY <1>1 DEF LockInv, FlockInv
<1>3. \A b \in Actors : mu = b => mu' = b \/ phase'[b] \notin FlockPhases
  BY DEF Release
<1>4. MuInv'
  BY <1>3 DEF LockInv, MuInv, MuHeld, TreePhases, FlockPhases
<1>5. mu = NoOne => mu' = NoOne
  BY ActorSets DEF Release
<1>6. ReadInv'
  BY <1>5, ActorSets DEF LockInv, ReadInv
<1> QED
  BY <1>2, <1>4, <1>6 DEF LockInv, CloneInv

\* Who holds the locks goes on, and takes nothing more.
LEMMA LocksCarried ==
    ASSUME CallsTyped, LockInv, NEW a \in Actors, NEW next \in FlockPhases, Go(a, next),
           phase[a] \in FlockPhases, MuHeld(a)' => MuHeld(a),
           UNCHANGED <<flock, mu>>, cloned => cloned'
    PROVE  LockInv'
<1>1. phase'[a] = next /\ \A b \in Actors \ {a} : phase'[b] = phase[b]
  BY GoEffect
<1>2. FlockInv'
  BY <1>1 DEF LockInv, FlockInv
<1>3. MuInv'
  BY <1>1 DEF LockInv, MuInv, MuHeld
<1>4. ReadInv'
  BY <1>1, ActorSets DEF LockInv, ReadInv, FlockPhases
<1>5. CloneInv'
  BY <1>1, ActorSets DEF LockInv, CloneInv, FlockPhases
<1> QED
  BY <1>2, <1>3, <1>4, <1>5 DEF LockInv

\* A call that fails or succeeds.
LEMMA LocksEnded ==
    ASSUME TypeOK, LockInv, NEW a \in Actors, cloned => cloned',
           Fails(a) \/ (a \in Writers /\ Go(a, "idle") /\ Release(a))
    PROVE  LockInv'
<1>1. CallsTyped
  BY TypeParts
<1>2. \A b \in Actors : phase'[b] = phase[b] \/ phase'[b] = "idle"
  BY <1>1, FailsEffect, GoEffect
<1>3. phase'[a] = "idle" /\ Release(a)
  BY <1>1, FailsEffect, GoEffect DEF Fails
<1>4. "idle" \notin FlockPhases \cup {"reading"}
  BY DEF FlockPhases
<1>5. phase'[Background] # "idle" => cloned'
  BY <1>2, ActorSets DEF LockInv, CloneInv
<1> QED
  BY <1>2, <1>3, <1>4, <1>5, LocksKept

LEMMA LocksTaken ==
    ASSUME TypeOK, LockInv, NEW a \in Actors, TakeProcessLock(a) \/ TakeInProcessLock(a)
    PROVE  LockInv'
<1>1. CallsTyped /\ a # NoOne /\ UNCHANGED cloned
  BY TypeParts, ActorSets DEF TakeProcessLock, TakeInProcessLock, dirVars
<1>2. CASE TakeProcessLock(a)
  <2>1. /\ phase[a] = "flock" /\ flock = NoOne /\ flock' = a /\ mu' = mu
        /\ Go(a, IF a = Background THEN "fetch" ELSE "mu")
    BY <1>2 DEF TakeProcessLock
  <2>2. /\ phase'[a] = (IF a = Background THEN "fetch" ELSE "mu")
        /\ \A b \in Actors \ {a} : phase'[b] = phase[b]
    BY <1>1, <2>1, GoEffect
  <2>3. FlockInv'
    BY <2>1, <2>2, ActorSets DEF LockInv, FlockInv
  <2>4. MuInv'
    BY <2>1, <2>2 DEF LockInv, MuInv, MuHeld, TreePhases
  <2>5. ReadInv'
    BY <2>1, <2>2, ActorSets DEF LockInv, ReadInv
  <2>6. CloneInv'
    BY <1>1, <2>1, <2>2, ActorSets DEF LockInv, CloneInv
  <2> QED
    BY <2>3, <2>4, <2>5, <2>6 DEF LockInv
<1>3. CASE TakeInProcessLock(a) /\ a \in Readers /\ fresh
  <2>1. Go(a, "rlock") /\ Release(a)
    BY <1>3 DEF TakeInProcessLock
  <2>2. phase'[a] = "rlock" /\ \A b \in Actors \ {a} : phase'[b] = phase[b]
    BY <1>1, <2>1, GoEffect
  <2>3. phase'[Background] # "idle" => cloned'
    BY <1>1, <1>3, <2>2, ActorSets DEF LockInv, CloneInv
  <2>4. "rlock" \notin FlockPhases \cup {"reading"}
    BY DEF FlockPhases
  <2> QED
    BY <2>1, <2>2, <2>3, <2>4, LocksKept
<1>4. CASE TakeInProcessLock(a) /\ ~(a \in Readers /\ fresh)
  <2>1. /\ phase[a] = "mu" /\ MuFree(a) /\ mu' = a /\ flock' = flock
        /\ Go(a, IF a = Background THEN "checkout" ELSE "fetch")
    BY <1>4 DEF TakeInProcessLock
  <2>2. /\ phase'[a] = (IF a = Background THEN "checkout" ELSE "fetch")
        /\ \A b \in Actors \ {a} : phase'[b] = phase[b]
    BY <1>1, <2>1, GoEffect
  <2>3. FlockInv'
    BY <2>1, <2>2 DEF LockInv, FlockInv, FlockPhases
  <2>4. MuInv'
    BY <2>1, <2>2, ActorSets DEF LockInv, MuInv, MuHeld, MuFree
  <2>5. ReadInv'
    BY <2>1, <2>2, ActorSets DEF ReadInv, MuFree
  <2>6. CloneInv'
    BY <1>1, <2>1, <2>2, ActorSets DEF LockInv, CloneInv
  <2> QED
    BY <2>3, <2>4, <2>5, <2>6 DEF LockInv
<1> QED
  BY <1>2, <1>3, <1>4

LEMMA LocksInSync ==
    ASSUME TypeOK, LockInv, NEW a \in Actors, Sync(a)
    PROVE  LockInv'
<1>1. CallsTyped
  BY TypeParts
<1>2. CASE SyncRemote(a)
  <2>1. /\ phase[a] = "fetch" /\ cloned' = TRUE /\ UNCHANGED <<flock, mu>>
        /\ Go(a, IF a = Background THEN "mu" ELSE "checkout")
    BY <1>2 DEF SyncRemote, lockVars
  <2>2. phase'[a] = (IF a = Background THEN "mu" ELSE "checkout")
    BY <1>1, <2>1, GoEffect
  <2>3. MuHeld(a)' => MuHeld(a)
    BY <2>1, <2>2 DEF MuHeld, TreePhases
  <2> QED
    BY <1>1, <2>1, <2>3, LocksCarried DEF FlockPhases
<1>3. CASE Checkout(a) /\ Refused
  BY <1>3, LocksEnded DEF Checkout
<1>4. CASE Checkout(a) /\ ~Refused
  <2>1. /\ phase[a] = "checkout" /\ UNCHANGED <<flock, mu, cloned>> /\ Go(a, "reset")
    BY <1>4 DEF Checkout, lockVars
  <2>2. MuHeld(a)
    BY <2>1 DEF MuHeld, TreePhases
  <2> QED
    BY <1>1, <2>1, <2>2, LocksCarried DEF FlockPhases
<1>5. CASE RefreshWorktree(a) /\ a \in Writers
  <2>1. /\ phase[a] = "reset" /\ UNCHANGED <<flock, mu, cloned>> /\ Go(a, "edit")
    BY <1>5 DEF RefreshWorktree, Synced, lockVars
  <2>2. MuHeld(a)
    BY <2>1 DEF MuHeld, TreePhases
  <2> QED
    BY <1>1, <2>1, <2>2, LocksCarried DEF FlockPhases
<1>6. CASE RefreshWorktree(a) /\ a \notin Writers
  <2>1. /\ Go(a, IF a = Background THEN "idle" ELSE "rlock") /\ Release(a)
        /\ UNCHANGED cloned
    BY <1>6 DEF RefreshWorktree, Synced
  <2>2. /\ phase'[a] = (IF a = Background THEN "idle" ELSE "rlock")
        /\ \A b \in Actors \ {a} : phase'[b] = phase[b]
    BY <1>1, <2>1, GoEffect
  <2>3. phase'[Background] # "idle" => cloned'
    BY <2>1, <2>2, ActorSets DEF LockInv, CloneInv
  <2>4. phase'[a] \notin FlockPhases \cup {"reading"}
    BY <2>2 DEF FlockPhases
  <2> QED
    BY <2>1, <2>2, <2>3, <2>4, LocksKept
<1> QED
  BY <1>2, <1>3, <1>4, <1>5, <1>6 DEF Sync

LEMMA LocksInWriting ==
    ASSUME TypeOK, LockInv, NEW w \in Writers,
           WithWrite(w) \/ Edit(w) \/ Commit(w) \/ Push(w) \/ PushAnswerLost(w)
    PROVE  LockInv'
<1>1. CallsTyped /\ w \in Actors
  BY TypeParts, ActorSets
<1>2. CASE WithWrite(w)
  <2>1. Go(w, "flock") /\ UNCHANGED <<flock, mu, cloned>>
    BY <1>2 DEF WithWrite, lockVars, dirVars
  <2>2. phase'[w] = "flock" /\ \A b \in Actors \ {w} : phase'[b] = phase[b]
    BY <1>1, <2>1, GoEffect
  <2>3. phase'[Background] # "idle" => cloned'
    BY <2>1, <2>2, ActorSets DEF LockInv, CloneInv
  <2>4. phase'[w] \notin FlockPhases \cup {"reading"}
    BY <2>2 DEF FlockPhases
  <2> QED
    BY <1>1, <2>1, <2>2, <2>3, <2>4, LocksKept
<1>3. CASE Edit(w)
  <2>1. PICK f \in Files : EditFile(w, f)
    BY <1>3 DEF Edit
  <2>2. /\ phase[w] = "edit" /\ UNCHANGED <<flock, mu, cloned>>
        /\ Go(w, IF todo[w] = {f} THEN "commit" ELSE "edit")
    BY <2>1 DEF EditFile, lockVars
  <2>3. MuHeld(w)
    BY <2>2 DEF MuHeld, TreePhases
  <2> QED
    BY <1>1, <2>2, <2>3, LocksCarried DEF FlockPhases
<1>4. CASE Commit(w) /\ Dirty = {}
  <2>1. Go(w, "idle") /\ Release(w) /\ UNCHANGED cloned
    BY <1>4 DEF Commit
  <2> QED
    BY <1>1, <2>1, LocksEnded
<1>5. CASE Commit(w) /\ Dirty # {}
  <2>1. /\ phase[w] = "commit" /\ Go(w, "push") /\ UNCHANGED <<flock, mu, cloned>>
    BY <1>5 DEF Commit, lockVars
  <2>2. MuHeld(w)
    BY <2>1 DEF MuHeld, TreePhases
  <2> QED
    BY <1>1, <2>1, <2>2, LocksCarried DEF FlockPhases
<1>6. CASE Push(w) \/ PushAnswerLost(w)
  <2>1. UNCHANGED cloned /\ (Fails(w) \/ (Go(w, "idle") /\ Release(w)))
    BY <1>6 DEF Push, PushAnswerLost
  <2> QED
    BY <1>1, <2>1, LocksEnded
<1> QED
  BY <1>2, <1>3, <1>4, <1>5, <1>6

LEMMA LocksInReading ==
    ASSUME TypeOK, LockInv, NEW r \in Readers, Read(r)
    PROVE  LockInv'
<1>1. CallsTyped /\ r \in Actors /\ r # Background /\ Background \in Actors
  BY TypeParts, ActorSets
<1>2. UNCHANGED <<flock, mu, cloned>>
  BY DEF Read, WithRead, EnsureFile, SyncOnce, TakeReadLock, EndRead, lockVars, dirVars
<1>3. CASE TakeReadLock(r)
  <2>1. mu = NoOne /\ Go(r, "reading")
    BY <1>3 DEF TakeReadLock
  <2>2. phase'[r] = "reading" /\ \A b \in Actors \ {r} : phase'[b] = phase[b]
    BY <1>1, <2>1, GoEffect
  <2>3. FlockInv' /\ MuInv' /\ CloneInv'
    BY <1>1, <1>2, <2>2
       DEF LockInv, FlockInv, MuInv, MuHeld, CloneInv, FlockPhases, TreePhases
  <2>4. ReadInv'
    BY <1>2, <2>1, <2>2, ActorSets DEF LockInv, ReadInv
  <2> QED
    BY <2>3, <2>4 DEF LockInv
<1>4. CASE ~TakeReadLock(r)
  <2>1. \/ \E n \in {"rlock", "sync", "flock", "idle"} : Go(r, n)
        \/ cloned /\ phase' = [phase EXCEPT ![r] = "rlock", ![Background] = "flock"]
    BY <1>4 DEF Read, WithRead, EnsureFile, SyncOnce, EndRead
  <2>2. /\ phase'[r] \in {"rlock", "sync", "flock", "idle"}
        /\ \A b \in Actors \ {r} :
              phase'[b] = phase[b] \/ (b = Background /\ phase'[b] = "flock" /\ cloned)
    BY <1>1, <2>1, GoEffect DEF CallsTyped
  <2>3. {"rlock", "sync", "flock", "idle"} \cap (FlockPhases \cup {"reading"}) = {}
    BY DEF FlockPhases
  <2>4. \A b \in Actors :
           phase'[b] \in FlockPhases \cup {"reading"} => phase'[b] = phase[b]
    BY <2>2, <2>3
  <2>5. phase'[Background] # "idle" => cloned'
    BY <1>1, <1>2, <2>2 DEF LockInv, CloneInv
  <2> QED
    BY <1>1, <1>2, <2>4, <2>5, LocksKept
<1> QED
  BY <1>3, <1>4

LEMMA LocksOutside ==
    ASSUME TypeOK, LockInv, (\E f \in Files : OtherClonePushes(f)) \/ Expire \/ Crash
    PROVE  LockInv'
<1>1. CASE Crash
  <2>1. /\ phase' = [a \in Actors |-> "idle"] /\ mu' = NoOne
    BY <1>1 DEF Crash
  <2>2. \A a \in Actors : phase'[a] = "idle"
    BY <2>1
  <2> QED
    BY <2>1, <2>2, ActorSets DEF LockInv, FlockInv, MuInv, ReadInv, CloneInv, MuHeld,
       FlockPhases, TreePhases
<1>2. CASE (\E f \in Files : OtherClonePushes(f)) \/ Expire
  <2>1. UNCHANGED <<flock, mu, phase, cloned>>
    BY <1>2 DEF OtherClonePushes, Expire, lockVars, dirVars
  <2> QED
    BY <2>1 DEF LockInv, FlockInv, MuInv, ReadInv, CloneInv, MuHeld
<1> QED
  BY <1>1, <1>2

LEMMA LockInit == Init => LockInv
<1> SUFFICES ASSUME Init PROVE LockInv
  OBVIOUS
<1>1. mu = NoOne /\ \A a \in Actors : phase[a] = "idle"
  BY DEF Init
<1> QED
  BY <1>1, ActorSets
     DEF LockInv, FlockInv, MuInv, ReadInv, CloneInv, MuHeld, FlockPhases, TreePhases

LEMMA LockStep == TypeOK /\ LockInv /\ [Next]_vars => LockInv'
<1> SUFFICES ASSUME TypeOK, LockInv, [Next]_vars PROVE LockInv'
  OBVIOUS
<1>1. ASSUME NEW a \in Actors, LockBusy(a) \/ GiveUp(a) \/ CommandFails(a) \/ EditFails(a)
      PROVE  LockInv'
  <2>1. Failure(a)
    BY <1>1, FailingSteps
  <2> QED
    BY <2>1, LocksEnded DEF Failure, shown
<1>2. ASSUME NEW a \in Actors, Step(a) \/ GiveUp(a) \/ CommandFails(a)
      PROVE  LockInv'
  BY <1>1, <1>2, LocksTaken, LocksInSync, LocksInWriting, LocksInReading
     DEF Step, Write, Read
<1>3. ASSUME NEW w \in Writers, WithWrite(w) \/ EditFails(w) \/ PushAnswerLost(w)
      PROVE  LockInv'
  BY <1>1, <1>3, ActorSets, LocksInWriting
<1>4. CASE UNCHANGED vars
  <2>1. UNCHANGED <<flock, mu, phase, cloned>>
    BY <1>4 DEF vars, dirVars, lockVars
  <2> QED
    BY <2>1 DEF LockInv, FlockInv, MuInv, ReadInv, CloneInv, MuHeld
<1> QED
  BY <1>2, <1>3, <1>4, LocksOutside DEF Next

\* The locks are held where they are needed.
THEOREM LocksCorrect == Spec => []LockInv
<1>1. TypeOK /\ LockInv /\ [Next]_vars => LockInv'
  BY LockStep
<1> QED
  BY <1>1, LockInit, TypeCorrect, PTL DEF Spec

\* A step that changes the worktree is of an actor who holds the in-process lock.
LEMMA WorktreeLocked ==
    ASSUME LockInv, [Next]_vars, worktree' # worktree
    PROVE  mu # NoOne
<1>1. ASSUME NEW a \in Actors, MuHeld(a)
      PROVE  mu # NoOne
  BY <1>1, ActorSets DEF LockInv, MuInv
<1>2. ASSUME NEW a \in Actors, LockBusy(a) \/ GiveUp(a) \/ CommandFails(a) \/ EditFails(a)
      PROVE  FALSE
  <2>1. Failure(a)
    BY <1>2, FailingSteps
  <2> QED
    BY <2>1 DEF Failure, shown
<1>3. ASSUME NEW a \in Actors, Sync(a)
      PROVE  mu # NoOne
  <2>1. CASE SyncRemote(a)
    <3>1. phase[a] = "fetch" /\ ~cloned
      BY <2>1 DEF SyncRemote
    <3>2. a # Background
      BY <3>1 DEF LockInv, CloneInv
    <3> QED
      BY <1>1, <3>1, <3>2 DEF MuHeld
  <2>2. CASE Checkout(a) \/ RefreshWorktree(a)
    BY <1>1, <2>2 DEF Checkout, RefreshWorktree, MuHeld, TreePhases
  <2> QED
    BY <1>3, <2>1, <2>2 DEF Sync
<1>4. ASSUME NEW w \in Writers,
             WithWrite(w) \/ Edit(w) \/ Commit(w) \/ Push(w) \/ PushAnswerLost(w)
      PROVE  mu # NoOne
  <2>1. Edit(w)
    BY <1>4 DEF WithWrite, Commit, Push, PushAnswerLost, dirVars
  <2>2. MuHeld(w)
    BY <2>1 DEF Edit, EditFile, MuHeld, TreePhases
  <2> QED
    BY <1>1, <2>2, ActorSets
<1>5. ASSUME NEW a \in Actors, TakeProcessLock(a) \/ TakeInProcessLock(a) \/ Read(a)
      PROVE  FALSE
  BY <1>5 DEF TakeProcessLock, TakeInProcessLock, Read, WithRead, EnsureFile, SyncOnce,
     TakeReadLock, EndRead, dirVars
<1>6. ASSUME Expire \/ Crash \/ (\E f \in Files : OtherClonePushes(f)) \/ UNCHANGED vars
      PROVE  FALSE
  BY <1>6 DEF Expire, Crash, OtherClonePushes, vars, dirVars
<1>7. ASSUME NEW a \in Actors, Step(a) \/ GiveUp(a) \/ CommandFails(a)
      PROVE  mu # NoOne
  BY <1>2, <1>3, <1>4, <1>5, <1>7 DEF Step, Write
<1>8. ASSUME NEW w \in Writers, WithWrite(w) \/ EditFails(w) \/ PushAnswerLost(w)
      PROVE  mu # NoOne
  BY <1>2, <1>4, <1>8, ActorSets
<1> QED
  BY <1>6, <1>7, <1>8 DEF Next

\* While a reader reads, no file of the worktree changes under it.
THEOREM StableReads == Spec => ReadsAreStable
<1>1. LockInv /\ [Next]_vars =>
         [\A r \in Readers :
             phase[r] = "reading" /\ phase'[r] = "reading" => worktree' = worktree]_vars
  BY WorktreeLocked DEF LockInv, ReadInv
<1> QED
  BY <1>1, LocksCorrect, PTL DEF Spec, ReadsAreStable

-----------------------------------------------------------------------------

\* The phases in which a writer relies on what the directory holds.
CopyPhases == {"checkout", "reset", "edit", "commit", "push"}

\* A writer that stays where it is, in a directory that stays as it is.
LEMMA CopyKept ==
    ASSUME NEW w \in Writers, CopyInv(w), UNCHANGED <<tracked, head, worktree>>,
           phase'[w] \in CopyPhases =>
              /\ phase'[w] = phase[w] /\ todo'[w] = todo[w]
              /\ w \in landed => w \in landed'
    PROVE  CopyInv(w)'
<1>1. CASE phase'[w] \notin CopyPhases
  BY <1>1 DEF CopyInv, CopyPhases
<1>2. CASE phase'[w] \in CopyPhases
  BY <1>2 DEF CopyInv, Holds, OwnFilesOnly
<1> QED
  BY <1>1, <1>2

\* While an actor has the directory's lock, no other writer relies on the directory.
LEMMA OthersRelyOnNothing ==
    ASSUME CallsTyped, LockInv, NEW a \in Actors, phase[a] \in FlockPhases,
           \A b \in Actors \ {a} : phase'[b] = phase[b] \/ phase'[b] = "idle",
           NEW w \in Writers, w # a
    PROVE  CopyInv(w)'
<1>1. w \in Actors /\ phase[w] \notin FlockPhases
  BY ActorSets DEF LockInv, FlockInv
<1>2. phase'[w] \notin CopyPhases
  BY <1>1 DEF FlockPhases, CopyPhases
<1> QED
  BY <1>2 DEF CopyInv, CopyPhases

\* Calls that have succeeded stay on the branch.
LEMMA SuccessKept ==
    ASSUME SuccessIsLanded, landed \subseteq landed',
           \A w \in Writers : result'[w] = "ok" => result[w] = "ok" \/ w \in landed'
    PROVE  SuccessIsLanded'
BY DEF SuccessIsLanded

LEMMA BranchRecorded ==
    ASSUME BranchInv, NEW tree, BranchBecomes(tree), ~behind' => tracked' = tree
    PROVE  BranchInv' /\ landed \subseteq landed'
<1>1. branch' = tree /\ landed' = landed \cup {w \in Writers : Holds(tree, w)}
  BY DEF BranchBecomes
<1>2. ASSUME NEW w \in Writers, Holds(branch, w)'
      PROVE  w \in landed'
  <2>1. Holds(tree, w)
    BY <1>1, <1>2 DEF Holds
  <2> QED
    BY <1>1, <2>1
<1> QED
  BY <1>1, <1>2 DEF BranchInv

LEMMA BranchKept ==
    ASSUME BranchInv, UNCHANGED <<branch, landed>>,
           UNCHANGED <<tracked, behind>> \/ tracked' = branch
    PROVE  BranchInv'
BY DEF BranchInv, Holds

\* Steps that leave the directory and the branch alone.
LEMMA WritesKept ==
    ASSUME WriteInv, UNCHANGED shown,
           \A w \in Writers :
              /\ phase'[w] \in CopyPhases => phase'[w] = phase[w] /\ todo'[w] = todo[w]
              /\ result'[w] = "ok" => result[w] = "ok"
    PROVE  WriteInv'
<1>1. UNCHANGED <<branch, landed, tracked, behind, head, worktree>>
  BY DEF shown
<1>2. BranchInv'
  BY <1>1, BranchKept DEF WriteInv
<1>3. \A w \in Writers : CopyInv(w)'
  BY <1>1, CopyKept DEF WriteInv
<1>4. SuccessIsLanded'
  BY <1>1, SuccessKept DEF WriteInv
<1> QED
  BY <1>2, <1>3, <1>4 DEF WriteInv

LEMMA WritesInFailure ==
    ASSUME TypeOK, WriteInv, NEW a \in Actors, Failure(a)
    PROVE  WriteInv'
<1>1. CallsTyped /\ Fails(a) /\ UNCHANGED shown
  BY TypeParts DEF Failure
<1>2. /\ phase'[a] = "idle"
      /\ \A w \in Writers : phase'[w] = phase[w] \/ phase'[w] = "idle"
      /\ \A w \in Writers : result'[w] = "ok" => result[w] = "ok"
      /\ \A w \in Writers \ {a} : todo'[w] = todo[w]
  BY <1>1, FailsEffect, ActorSets
<1>3. "idle" \notin CopyPhases
  BY DEF CopyPhases
<1> QED
  BY <1>1, <1>2, <1>3, WritesKept

LEMMA WritesInLocking ==
    ASSUME TypeOK, WriteInv, NEW a \in Actors, TakeProcessLock(a) \/ TakeInProcessLock(a)
    PROVE  WriteInv'
<1>1. CallsTyped /\ UNCHANGED shown /\ UNCHANGED <<todo, result>>
  BY TypeParts DEF TakeProcessLock, TakeInProcessLock, shown, dirVars
<1>2. \E n \in {"fetch", "mu", "rlock", "checkout"} :
         Go(a, n) /\ (a \in Writers => n # "checkout")
  BY ActorSets DEF TakeProcessLock, TakeInProcessLock
<1>3. \A w \in Writers : phase'[w] = phase[w] \/ phase'[w] \in {"fetch", "mu", "rlock"}
  BY <1>1, <1>2, GoEffect, ActorSets
<1> QED
  BY <1>1, <1>3, WritesKept DEF CopyPhases

LEMMA WritesInReading ==
    ASSUME TypeOK, WriteInv, NEW r \in Readers, Read(r)
    PROVE  WriteInv'
<1>1. CallsTyped /\ UNCHANGED shown /\ UNCHANGED <<todo, result>>
  BY TypeParts DEF Read, WithRead, EnsureFile, SyncOnce, TakeReadLock, EndRead, shown,
     dirVars
<1>2. \/ \E n \in Phases : Go(r, n)
      \/ phase' = [phase EXCEPT ![r] = "rlock", ![Background] = "flock"]
  BY DEF Read, WithRead, EnsureFile, SyncOnce, TakeReadLock, EndRead, Phases, Waiting
<1>3. \A w \in Writers : w \in Actors \ {r, Background} /\ r \in Actors
  BY ActorSets
<1>4. \A w \in Writers : phase'[w] = phase[w]
  BY <1>1, <1>2, <1>3, GoEffect DEF CallsTyped
<1> QED
  BY <1>1, <1>4, WritesKept

LEMMA WritesInSync ==
    ASSUME TypeOK, LockInv, WriteInv, NEW a \in Actors, Sync(a)
    PROVE  WriteInv'
<1>1. CallsTyped /\ DirTyped
  BY TypeParts
<1>2. CASE SyncRemote(a)
  <2>1. /\ phase[a] = "fetch" /\ tracked' = branch
        /\ UNCHANGED <<branch, landed, todo, result>>
        /\ Go(a, IF a = Background THEN "mu" ELSE "checkout")
    BY <1>2 DEF SyncRemote
  <2>2. /\ phase'[a] = (IF a = Background THEN "mu" ELSE "checkout")
        /\ \A b \in Actors \ {a} : phase'[b] = phase[b]
    BY <1>1, <2>1, GoEffect
  <2>3. BranchInv' /\ SuccessIsLanded'
    BY <2>1, BranchKept, SuccessKept DEF WriteInv
  <2>4. ASSUME NEW w \in Writers, w # a
        PROVE  CopyInv(w)'
    BY <1>1, <2>1, <2>2, <2>4, OthersRelyOnNothing DEF FlockPhases
  <2>5. ASSUME a \in Writers
        PROVE  CopyInv(a)'
    <3>1. phase'[a] = "checkout"
      BY <2>2, <2>5, ActorSets
    <3>2. Holds(tracked, a)' => a \in landed'
      BY <2>1, <2>5 DEF WriteInv, BranchInv, Holds
    <3> QED
      BY <3>1, <3>2 DEF CopyInv
  <2> QED
    BY <2>3, <2>4, <2>5 DEF WriteInv
<1>3. CASE Checkout(a) /\ Refused
  BY <1>3, FailingSteps, WritesInFailure
<1>4. CASE Checkout(a) /\ ~Refused
  <2>1. /\ phase[a] = "checkout" /\ head' = tracked /\ Go(a, "reset")
        /\ UNCHANGED <<branch, landed, tracked, behind, result>>
    BY <1>4 DEF Checkout
  <2>2. phase'[a] = "reset" /\ \A b \in Actors \ {a} : phase'[b] = phase[b]
    BY <1>1, <2>1, GoEffect
  <2>3. BranchInv' /\ SuccessIsLanded'
    BY <2>1, BranchKept, SuccessKept DEF WriteInv
  <2>4. ASSUME NEW w \in Writers, w # a
        PROVE  CopyInv(w)'
    BY <1>1, <2>1, <2>2, <2>4, OthersRelyOnNothing DEF FlockPhases
  <2>5. ASSUME a \in Writers
        PROVE  CopyInv(a)'
    <3>1. Holds(tracked, a)' => a \in landed'
      BY <2>1, <2>5 DEF WriteInv, CopyInv, Holds
    <3> QED
      BY <2>1, <2>2, <3>1 DEF CopyInv
  <2> QED
    BY <2>3, <2>4, <2>5 DEF WriteInv
<1>5. CASE RefreshWorktree(a)
  <2>1. /\ phase[a] = "reset" /\ worktree' = head /\ Synced(a)
        /\ UNCHANGED <<branch, landed, tracked, behind, head, result>>
    BY <1>5 DEF RefreshWorktree, Cleaned
  <2>2. /\ phase'[a] \in {"edit", "idle", "rlock"}
        /\ \A b \in Actors \ {a} : phase'[b] = phase[b]
    BY <1>1, <2>1, GoEffect DEF Synced
  <2>3. BranchInv' /\ SuccessIsLanded'
    BY <2>1, BranchKept, SuccessKept DEF WriteInv
  <2>4. ASSUME NEW w \in Writers, w # a
        PROVE  CopyInv(w)'
    BY <1>1, <2>1, <2>2, <2>4, OthersRelyOnNothing DEF FlockPhases
  <2>5. ASSUME a \in Writers
        PROVE  CopyInv(a)'
    <3>1. Go(a, "edit") /\ todo' = [todo EXCEPT ![a] = FilesOf[a]]
      BY <2>1, <2>5 DEF Synced
    <3>2. phase'[a] = "edit" /\ todo'[a] = FilesOf[a]
      BY <1>1, <2>5, <3>1, GoEffect DEF CallsTyped
    <3>3. /\ Holds(tracked, a)' => a \in landed'
          /\ head' = tracked'
      BY <2>1, <2>5 DEF WriteInv, CopyInv, Holds
    <3>4. OwnFilesOnly(worktree, head, a)'
      BY <2>1 DEF OwnFilesOnly
    <3> QED
      BY <3>2, <3>3, <3>4 DEF CopyInv
  <2> QED
    BY <2>3, <2>4, <2>5 DEF WriteInv
<1> QED
  BY <1>2, <1>3, <1>4, <1>5 DEF Sync

LEMMA WritesInCall ==
    ASSUME TypeOK, WriteInv, NEW w \in Writers, WithWrite(w)
    PROVE  WriteInv'
<1>1. CallsTyped /\ w \in Actors
  BY TypeParts, ActorSets
<1>2. /\ phase[w] = "idle" /\ Go(w, "flock") /\ Called(w)
      /\ result' = [result EXCEPT ![w] = "none"]
      /\ UNCHANGED <<branch, tracked, behind, head, worktree, todo>>
  BY DEF WithWrite, dirVars
<1>3. phase'[w] = "flock" /\ \A b \in Actors \ {w} : phase'[b] = phase[b]
  BY <1>1, <1>2, GoEffect
<1>4. result'[w] = "none" /\ \A v \in Writers \ {w} : result'[v] = result[v]
  BY <1>1, <1>2 DEF CallsTyped
<1>5. /\ \A v \in Writers \ {w} : v \in landed => v \in landed'
      /\ Holds(branch, w) => w \in landed'
  BY <1>2 DEF Called
<1>6. BranchInv'
  BY <1>2, <1>5 DEF WriteInv, BranchInv, Holds
<1>7. SuccessIsLanded'
  BY <1>4, <1>5 DEF WriteInv, SuccessIsLanded
<1>8. ASSUME NEW v \in Writers
      PROVE  CopyInv(v)'
  <2>1. phase'[v] \in CopyPhases => v # w /\ phase'[v] = phase[v]
    BY <1>3, ActorSets DEF CopyPhases
  <2>2. CopyInv(v)
    BY DEF WriteInv
  <2> QED
    BY <1>2, <1>5, <2>1, <2>2, CopyKept
<1> QED
  BY <1>6, <1>7, <1>8 DEF WriteInv

LEMMA WritesInEdit ==
    ASSUME TypeOK, LockInv, WriteInv, NEW w \in Writers, Edit(w)
    PROVE  WriteInv'
<1>1. CallsTyped /\ DirTyped /\ w \in Actors
  BY TypeParts, ActorSets
<1>2. PICK f \in Files : EditFile(w, f)
  BY DEF Edit
<1>3. /\ phase[w] = "edit" /\ f \in todo[w]
      /\ worktree' = [worktree EXCEPT ![f] = w] /\ todo' = [todo EXCEPT ![w] = @ \ {f}]
      /\ Go(w, IF todo[w] = {f} THEN "commit" ELSE "edit")
      /\ UNCHANGED <<branch, landed, tracked, behind, head, result>>
  BY <1>2 DEF EditFile
<1>4. /\ phase'[w] = (IF todo[w] = {f} THEN "commit" ELSE "edit")
      /\ \A b \in Actors \ {w} : phase'[b] = phase[b]
  BY <1>1, <1>3, GoEffect
<1>5. BranchInv' /\ SuccessIsLanded'
  BY <1>3, BranchKept, SuccessKept DEF WriteInv
<1>6. ASSUME NEW v \in Writers, v # w
      PROVE  CopyInv(v)'
  BY <1>1, <1>3, <1>4, <1>6, OthersRelyOnNothing DEF FlockPhases
<1>7. /\ Holds(tracked, w) => w \in landed
      /\ head = tracked /\ OwnFilesOnly(worktree, head, w)
      /\ todo[w] \subseteq FilesOf[w] /\ \A g \in FilesOf[w] \ todo[w] : worktree[g] = w
  BY <1>3 DEF WriteInv, CopyInv
<1>8. worktree'[f] = w /\ \A g \in Files \ {f} : worktree'[g] = worktree[g]
  BY <1>1, <1>3 DEF DirTyped, Trees
<1>9. OwnFilesOnly(worktree, head, w)'
  BY <1>3, <1>7, <1>8 DEF OwnFilesOnly
<1>10. todo'[w] = todo[w] \ {f}
  BY <1>1, <1>3 DEF CallsTyped
<1>11. FilesOf[w] \subseteq Files
  BY RepositoryAssumption
<1>12. /\ todo'[w] \subseteq FilesOf[w]
       /\ \A g \in FilesOf[w] \ todo'[w] : worktree'[g] = w
  BY <1>7, <1>8, <1>10, <1>11
<1>13. phase'[w] = "commit" => Holds(worktree, w)'
  BY <1>4, <1>10, <1>12 DEF Holds
<1>14. Holds(tracked, w)' => w \in landed'
  BY <1>3, <1>7 DEF Holds
<1>15. CopyInv(w)'
  BY <1>3, <1>4, <1>7, <1>9, <1>12, <1>13, <1>14 DEF CopyInv
<1> QED
  BY <1>5, <1>6, <1>15 DEF WriteInv

\* What a call that ends well leaves to the other writers, and what it may say.
LEMMA WritesInSuccess ==
    ASSUME TypeOK, LockInv, NEW w \in Writers, phase[w] \in CopyPhases,
           Go(w, "idle"), Report(w, "ok"),
           SuccessIsLanded, landed \subseteq landed', w \in landed', BranchInv'
    PROVE  WriteInv'
<1>1. CallsTyped /\ w \in Actors /\ phase[w] \in FlockPhases
  BY TypeParts, ActorSets DEF CopyPhases, FlockPhases
<1>2. /\ phase'[w] = "idle" /\ \A b \in Actors \ {w} : phase'[b] = phase[b]
      /\ \A v \in Writers \ {w} : result'[v] = result[v]
  BY <1>1, SuccessEffect
<1>3. SuccessIsLanded'
  BY <1>2, SuccessKept
<1>4. ASSUME NEW v \in Writers, v # w
      PROVE  CopyInv(v)'
  BY <1>1, <1>2, <1>4, OthersRelyOnNothing
<1>5. CopyInv(w)'
  BY <1>2 DEF CopyInv
<1> QED
  BY <1>3, <1>4, <1>5 DEF WriteInv

LEMMA WritesInCommit ==
    ASSUME TypeOK, LockInv, WriteInv, NEW w \in Writers, Commit(w)
    PROVE  WriteInv'
<1>1. CallsTyped /\ w \in Actors
  BY TypeParts, ActorSets
<1>2. phase[w] = "commit" /\ UNCHANGED <<branch, landed, tracked, behind, worktree>>
  BY DEF Commit
<1>3. /\ Holds(tracked, w) => w \in landed
      /\ head = tracked /\ OwnFilesOnly(worktree, head, w) /\ Holds(worktree, w)
  BY <1>2 DEF WriteInv, CopyInv
<1>4. BranchInv'
  BY <1>2, BranchKept DEF WriteInv
<1>5. CASE Dirty = {}
  <2>1. FilesOf[w] \subseteq Files
    BY RepositoryAssumption
  <2>2. \A f \in Files : worktree[f] = head[f]
    BY <1>5 DEF Dirty
  <2>3. Holds(tracked, w)
    BY <1>3, <2>1, <2>2 DEF Holds
  <2>4. Go(w, "idle") /\ Report(w, "ok")
    BY <1>5 DEF Commit
  <2> QED
    BY <1>2, <1>3, <1>4, <2>3, <2>4, WritesInSuccess DEF WriteInv, CopyPhases
<1>6. CASE Dirty # {}
  <2>1. Go(w, "push") /\ head' = worktree /\ UNCHANGED result
    BY <1>6 DEF Commit
  <2>2. phase'[w] = "push" /\ \A b \in Actors \ {w} : phase'[b] = phase[b]
    BY <1>1, <2>1, GoEffect
  <2>3. SuccessIsLanded'
    BY <1>2, <2>1, SuccessKept DEF WriteInv
  <2>4. ASSUME NEW v \in Writers, v # w
        PROVE  CopyInv(v)'
    BY <1>1, <1>2, <2>2, <2>4, OthersRelyOnNothing DEF FlockPhases
  <2>5. Holds(head, w)' /\ OwnFilesOnly(head, tracked, w)'
    BY <1>2, <1>3, <2>1 DEF Holds, OwnFilesOnly
  <2>6. CopyInv(w)'
    BY <2>2, <2>5 DEF CopyInv
  <2> QED
    BY <1>4, <2>3, <2>4, <2>6 DEF WriteInv
<1> QED
  BY <1>5, <1>6

LEMMA WritesInPush ==
    ASSUME TypeOK, LockInv, WriteInv, NEW w \in Writers, Push(w) \/ PushAnswerLost(w)
    PROVE  WriteInv'
<1>1. CallsTyped /\ w \in Actors /\ phase[w] = "push"
  BY TypeParts, ActorSets DEF Push, PushAnswerLost
<1>2. Holds(head, w) /\ BranchInv /\ SuccessIsLanded
  BY <1>1 DEF WriteInv, CopyInv
<1>3. CASE Push(w) /\ behind
  BY <1>1, <1>3, FailingSteps, WritesInFailure
<1>4. CASE Push(w) /\ ~behind
  <2>1. BranchBecomes(head) /\ tracked' = head /\ Go(w, "idle") /\ Report(w, "ok")
    BY <1>4 DEF Push
  <2>2. BranchInv' /\ landed \subseteq landed'
    BY <1>2, <2>1, BranchRecorded
  <2>3. w \in landed'
    BY <1>2, <2>1 DEF BranchBecomes
  <2> QED
    BY <1>1, <1>2, <2>1, <2>2, <2>3, WritesInSuccess DEF CopyPhases
<1>5. CASE PushAnswerLost(w)
  <2>1. BranchBecomes(head) /\ behind' = TRUE /\ Fails(w)
    BY <1>5 DEF PushAnswerLost
  <2>2. BranchInv' /\ landed \subseteq landed'
    BY <1>2, <2>1, BranchRecorded
  <2>3. /\ phase'[w] = "idle"
        /\ \A b \in Actors : phase'[b] = phase[b] \/ phase'[b] = "idle"
        /\ \A v \in Writers : result'[v] = result[v] \/ result'[v] = "failed"
    BY <1>1, <2>1, FailsEffect
  <2>4. SuccessIsLanded'
    BY <1>2, <2>2, <2>3, SuccessKept
  <2>5. ASSUME NEW v \in Writers, v # w
        PROVE  CopyInv(v)'
    BY <1>1, <2>3, <2>5, OthersRelyOnNothing DEF FlockPhases
  <2>6. CopyInv(w)'
    BY <2>3 DEF CopyInv
  <2> QED
    BY <2>2, <2>4, <2>5, <2>6 DEF WriteInv
<1> QED
  BY <1>3, <1>4, <1>5

LEMMA WritesOutside ==
    ASSUME TypeOK, WriteInv, (\E f \in Files : OtherClonePushes(f)) \/ Expire \/ Crash
    PROVE  WriteInv'
<1>1. ASSUME NEW f \in Files, OtherClonePushes(f)
      PROVE  WriteInv'
  <2>1. /\ BranchBecomes([branch EXCEPT ![f] = Others]) /\ behind' = TRUE
        /\ UNCHANGED <<tracked, head, worktree, phase, todo, result>>
    BY <1>1 DEF OtherClonePushes
  <2>2. BranchInv' /\ landed \subseteq landed'
    BY <2>1, BranchRecorded DEF WriteInv
  <2>3. \A w \in Writers : CopyInv(w)'
    BY <2>1, <2>2, CopyKept DEF WriteInv
  <2>4. SuccessIsLanded'
    BY <2>1, <2>2, SuccessKept DEF WriteInv
  <2> QED
    BY <2>2, <2>3, <2>4 DEF WriteInv
<1>2. CASE Expire
  BY <1>2, WritesKept DEF Expire, shown, dirVars
<1>3. CASE Crash
  <2>1. /\ UNCHANGED shown /\ phase' = [a \in Actors |-> "idle"]
        /\ result' = [w \in Writers |-> IF phase[w] = "idle" THEN result[w] ELSE "failed"]
    BY <1>3 DEF Crash, shown
  <2>2. /\ \A w \in Writers : phase'[w] \notin CopyPhases
        /\ \A w \in Writers : result'[w] = "ok" => result[w] = "ok"
    BY <2>1, ActorSets DEF CopyPhases
  <2> QED
    BY <2>1, <2>2, WritesKept
<1> QED
  BY <1>1, <1>2, <1>3

LEMMA WriteInit == Init => WriteInv
<1> SUFFICES ASSUME Init PROVE WriteInv
  OBVIOUS
<1>1. ASSUME NEW w \in Writers
      PROVE  ~Holds(branch, w)
  <2>1. PICK f \in Files : f \in FilesOf[w]
    BY RepositoryAssumption
  <2>2. branch[f] = Initial /\ w # Initial
    BY RepositoryAssumption DEF Init, Before
  <2> QED
    BY <2>1, <2>2 DEF Holds
<1>2. BranchInv
  BY <1>1 DEF Init, BranchInv
<1>3. \A w \in Writers : phase[w] = "idle" /\ result[w] = "none"
  BY ActorSets DEF Init
<1> QED
  BY <1>2, <1>3 DEF WriteInv, CopyInv, SuccessIsLanded

LEMMA WriteStep == TypeOK /\ LockInv /\ WriteInv /\ [Next]_vars => WriteInv'
<1> SUFFICES ASSUME TypeOK, LockInv, WriteInv, [Next]_vars PROVE WriteInv'
  OBVIOUS
<1>1. ASSUME NEW a \in Actors, LockBusy(a) \/ GiveUp(a) \/ CommandFails(a) \/ EditFails(a)
      PROVE  WriteInv'
  BY <1>1, FailingSteps, WritesInFailure
<1>2. ASSUME NEW a \in Actors, Step(a) \/ GiveUp(a) \/ CommandFails(a)
      PROVE  WriteInv'
  BY <1>1, <1>2, WritesInLocking, WritesInSync, WritesInReading, WritesInEdit,
     WritesInCommit, WritesInPush DEF Step, Write, Read
<1>3. ASSUME NEW w \in Writers, WithWrite(w) \/ EditFails(w) \/ PushAnswerLost(w)
      PROVE  WriteInv'
  BY <1>1, <1>3, ActorSets, WritesInCall, WritesInPush
<1>4. CASE UNCHANGED vars
  BY <1>4, WritesKept DEF vars, dirVars, shown
<1> QED
  BY <1>2, <1>3, <1>4, WritesOutside DEF Next

\* What a writer relies on holds.
THEOREM WritesCorrect == Spec => []WriteInv
<1>1. TypeOK /\ LockInv /\ WriteInv /\ [Next]_vars => WriteInv'
  BY WriteStep
<1> QED
  BY <1>1, WriteInit, TypeCorrect, LocksCorrect, PTL DEF Spec

\* When a call of WithWrite has succeeded, all its files have been on the remote branch
\* at once since the call was made.
THEOREM SuccessCorrect == Spec => []SuccessIsLanded
<1>1. WriteInv => SuccessIsLanded
  BY DEF WriteInv
<1> QED
  BY <1>1, WritesCorrect, PTL

-----------------------------------------------------------------------------

(* The steps of AtomicRepository. *)

\* Who waits for the sync of another is a reader.
WriterInv == \A w \in Writers : phase[w] # "sync"

LEMMA WriterStep == TypeOK /\ WriterInv /\ [Next]_vars => WriterInv'
<1> SUFFICES ASSUME TypeOK, WriterInv, [Next]_vars PROVE WriterInv'
  OBVIOUS
<1>1. CallsTyped
  BY TypeParts
<1>2. ASSUME NEW a \in Actors, NEW n, n # "sync", Go(a, n)
      PROVE  WriterInv'
  BY <1>1, <1>2, GoEffect, ActorSets DEF WriterInv
<1>3. ASSUME NEW a \in Actors, Fails(a)
      PROVE  WriterInv'
  BY <1>1, <1>3, FailsEffect, ActorSets DEF WriterInv
<1>4. ASSUME NEW r \in Readers, Read(r)
      PROVE  WriterInv'
  <2>1. \A w \in Writers : w \in Actors \ {r, Background} /\ r \in Actors
    BY ActorSets
  <2>2. \/ \E n : Go(r, n)
        \/ phase' = [phase EXCEPT ![r] = "rlock", ![Background] = "flock"]
    BY <1>4 DEF Read, WithRead, EnsureFile, SyncOnce, TakeReadLock, EndRead
  <2> QED
    BY <1>1, <2>1, <2>2, GoEffect DEF WriterInv, CallsTyped
<1>5. ASSUME NEW a \in Actors, Step(a) \/ GiveUp(a) \/ CommandFails(a)
      PROVE  WriterInv'
  <2>1. CASE LockBusy(a) \/ GiveUp(a) \/ CommandFails(a)
    BY <1>3, <2>1 DEF LockBusy, GiveUp, CommandFails
  <2>2. CASE TakeProcessLock(a) \/ TakeInProcessLock(a)
    BY <1>2, <2>2 DEF TakeProcessLock, TakeInProcessLock
  <2>3. CASE Sync(a)
    BY <1>2, <1>3, <2>3 DEF Sync, SyncRemote, Checkout, RefreshWorktree, Synced
  <2>4. CASE Write(a)
    BY <1>2, <1>3, <2>4 DEF Write, Edit, EditFile, Commit, Push
  <2>5. CASE Read(a)
    BY <1>4, <2>5 DEF Read
  <2> QED
    BY <1>5, <2>1, <2>2, <2>3, <2>4, <2>5 DEF Step
<1>6. ASSUME NEW w \in Writers, WithWrite(w) \/ EditFails(w) \/ PushAnswerLost(w)
      PROVE  WriterInv'
  BY <1>2, <1>3, <1>6, ActorSets DEF WithWrite, EditFails, PushAnswerLost
<1>7. CASE (\E f \in Files : OtherClonePushes(f)) \/ Expire \/ Crash \/ UNCHANGED vars
  BY <1>7, ActorSets DEF OtherClonePushes, Expire, Crash, vars, WriterInv
<1> QED
  BY <1>5, <1>6, <1>7 DEF Next

LEMMA WritersCorrect == Spec => []WriterInv
<1>1. Init => WriterInv
  BY ActorSets DEF Init, WriterInv
<1>2. TypeOK /\ WriterInv /\ [Next]_vars => WriterInv'
  BY WriterStep
<1> QED
  BY <1>1, <1>2, TypeCorrect, PTL DEF Spec

AtomicStep == Atomic!Next \/ UNCHANGED <<branch, Standing>>

StandingOf(w) ==
    IF phase[w] = "idle" THEN result[w] ELSE IF w \in landed THEN "written" ELSE "open"

LEMMA StandingIs ==
    /\ \A w \in Writers : Standing[w] = StandingOf(w)
    /\ \A w \in Writers : Standing'[w] = StandingOf(w)'
    /\ Standing = [w \in Writers |-> StandingOf(w)]
    /\ Standing' = [w \in Writers |-> StandingOf(w)']
BY DEF Standing, StandingOf

\* A step that no writer can tell.
LEMMA NothingHappens ==
    ASSUME UNCHANGED branch,
           \A w \in Writers : StandingOf(w)' = StandingOf(w)
    PROVE  AtomicStep
<1>1. Standing' = Standing
  BY StandingIs
<1> QED
  BY <1>1 DEF AtomicStep

\* The standing of one writer changes.
LEMMA OneChanges ==
    ASSUME NEW w \in Writers, NEW how, StandingOf(w)' = how,
           \A v \in Writers \ {w} : StandingOf(v)' = StandingOf(v)
    PROVE  Standing' = [Standing EXCEPT ![w] = how]
<1>1. \A v \in Writers : StandingOf(v)' = (IF v = w THEN how ELSE Standing[v])
  BY StandingIs
<1>2. Standing' = [v \in Writers |-> IF v = w THEN how ELSE Standing[v]]
  BY <1>1, StandingIs
<1>3. Standing = [v \in Writers |-> Standing[v]]
  BY StandingIs
<1> QED
  BY <1>2, <1>3

LEMMA FailureIsAtomic ==
    ASSUME TypeOK, WriterInv, NEW a \in Actors, phase[a] # "idle", Failure(a)
    PROVE  AtomicStep
<1>1. CallsTyped /\ Fails(a) /\ UNCHANGED <<branch, landed>>
  BY TypeParts DEF Failure, shown
<1>2. \A w \in Writers \ {a} : phase'[w] = phase[w] /\ result'[w] = result[w]
  <2>1. \A w \in Writers \ {a} : phase'[w] = phase[w]
    BY <1>1, ActorSets DEF Fails, WaitsFor, WriterInv
  <2>2. \A w \in Writers \ {a} : result'[w] = result[w]
    BY <1>1 DEF Fails, Report, CallsTyped
  <2> QED
    BY <2>1, <2>2
<1>3. \A w \in Writers \ {a} : StandingOf(w)' = StandingOf(w)
  BY <1>1, <1>2 DEF StandingOf
<1>4. CASE a \notin Writers
  BY <1>1, <1>3, <1>4, NothingHappens
<1>5. CASE a \in Writers
  <2>1. phase'[a] = "idle" /\ result'[a] = "failed"
    BY <1>1, <1>5, FailsEffect DEF Fails, Report, CallsTyped
  <2>2. StandingOf(a)' = "failed"
    BY <2>1 DEF StandingOf
  <2>3. \A w \in Writers :
           StandingOf(w)' = (IF w \in {a} THEN "failed" ELSE Standing[w])
    BY <1>3, <2>2, StandingIs
  <2>4. Standing' = [w \in Writers |-> IF w \in {a} THEN "failed" ELSE Standing[w]]
    BY <2>3, StandingIs
  <2>5. Standing[a] \in {"open", "written"}
    BY <1>5, StandingIs DEF StandingOf
  <2>6. Atomic!Fail({a})
    BY <1>1, <2>4, <2>5 DEF Atomic!Fail, Atomic!Open
  <2>7. {a} \in SUBSET Writers
    BY <1>5
  <2> QED
    BY <2>6, <2>7 DEF AtomicStep, Atomic!Next
<1> QED
  BY <1>4, <1>5

LEMMA CrashIsAtomic ==
    ASSUME TypeOK, Crash
    PROVE  AtomicStep
<1> DEFINE ws == {w \in Writers : phase[w] # "idle"}
<1>1. /\ phase' = [a \in Actors |-> "idle"] /\ UNCHANGED branch
      /\ result' = [w \in Writers |-> IF phase[w] = "idle" THEN result[w] ELSE "failed"]
  BY DEF Crash
<1>2. ASSUME NEW w \in Writers
      PROVE  StandingOf(w)' = (IF w \in ws THEN "failed" ELSE Standing[w])
  <2>1. phase'[w] = "idle" /\ result'[w] = IF phase[w] = "idle" THEN result[w] ELSE "failed"
    BY <1>1, ActorSets
  <2>2. Standing[w] = StandingOf(w)
    BY StandingIs
  <2> QED
    BY <2>1, <2>2 DEF StandingOf
<1>3. Standing' = [w \in Writers |-> IF w \in ws THEN "failed" ELSE Standing[w]]
  BY <1>2, StandingIs
<1>4. \A w \in ws : Standing[w] \in {"open", "written"}
  BY StandingIs DEF StandingOf
<1>5. Atomic!Fail(ws)
  BY <1>1, <1>3, <1>4 DEF Atomic!Fail, Atomic!Open
<1> QED
  BY <1>5 DEF AtomicStep, Atomic!Next

\* A call goes on, or a sync does.
LEMMA GoingOnIsAtomic ==
    ASSUME TypeOK, NEW a \in Actors, NEW next, Go(a, next),
           a \in Writers => phase[a] # "idle" /\ next # "idle",
           UNCHANGED <<branch, landed, result>>
    PROVE  AtomicStep
<1>1. phase'[a] = next /\ \A b \in Actors \ {a} : phase'[b] = phase[b]
  BY TypeParts, GoEffect
<1>2. \A w \in Writers : StandingOf(w)' = StandingOf(w)
  BY <1>1, ActorSets DEF StandingOf
<1> QED
  BY <1>2, NothingHappens

LEMMA CallIsAtomic ==
    ASSUME TypeOK, WriteInv, NEW w \in Writers, WithWrite(w)
    PROVE  AtomicStep
<1>1. CallsTyped /\ w \in Actors
  BY TypeParts, ActorSets
<1>2. /\ phase[w] = "idle" /\ Go(w, "flock") /\ Called(w) /\ UNCHANGED branch
      /\ result' = [result EXCEPT ![w] = "none"]
  BY DEF WithWrite
<1>3. phase'[w] = "flock" /\ \A b \in Actors \ {w} : phase'[b] = phase[b]
  BY <1>1, <1>2, GoEffect
<1>4. /\ \A v \in Writers \ {w} : result'[v] = result[v] /\ (v \in landed' <=> v \in landed)
      /\ w \in landed' <=> Holds(branch, w)
  BY <1>1, <1>2 DEF CallsTyped, Called
<1>5. \A v \in Writers \ {w} : StandingOf(v)' = StandingOf(v)
  BY <1>3, <1>4, ActorSets DEF StandingOf
<1>6. StandingOf(w)' = IF Atomic!Holds(w) THEN "written" ELSE "open"
  BY <1>3, <1>4 DEF StandingOf, Holds, Atomic!Holds
<1>7. Standing' = [Standing EXCEPT ![w] = IF Atomic!Holds(w) THEN "written" ELSE "open"]
  BY <1>5, <1>6, OneChanges
<1>8. Standing[w] \notin {"open", "written"}
  BY <1>1, <1>2, StandingIs DEF StandingOf, CallsTyped
<1>9. Atomic!Call(w)
  BY <1>2, <1>7, <1>8 DEF Atomic!Call, Atomic!Open
<1> QED
  BY <1>9 DEF AtomicStep, Atomic!Next

LEMMA CommitIsAtomic ==
    ASSUME TypeOK, WriteInv, NEW w \in Writers, Commit(w)
    PROVE  AtomicStep
<1>1. CallsTyped /\ w \in Actors /\ phase[w] = "commit" /\ UNCHANGED <<branch, landed>>
  BY TypeParts, ActorSets DEF Commit
<1>2. CASE Dirty # {}
  BY <1>1, <1>2, GoingOnIsAtomic DEF Commit
<1>3. CASE Dirty = {}
  <2>1. Go(w, "idle") /\ Report(w, "ok")
    BY <1>3 DEF Commit
  <2>2. /\ phase'[w] = "idle" /\ \A b \in Actors \ {w} : phase'[b] = phase[b]
        /\ \A v \in Writers \ {w} : result'[v] = result[v]
        /\ result'[w] = "ok"
    BY <1>1, <2>1, SuccessEffect DEF Report, CallsTyped
  <2>3. /\ \A v \in Writers \ {w} : StandingOf(v)' = StandingOf(v)
        /\ StandingOf(w)' = "ok"
    BY <1>1, <2>2, ActorSets DEF StandingOf
  <2>4. Standing' = [Standing EXCEPT ![w] = "ok"]
    BY <2>3, OneChanges
  <2>5. w \in landed
    <3>1. FilesOf[w] \subseteq Files
      BY RepositoryAssumption
    <3>2. \A f \in Files : worktree[f] = head[f]
      BY <1>3 DEF Dirty
    <3>3. CopyInv(w)
      BY DEF WriteInv
    <3> QED
      BY <1>1, <3>1, <3>2, <3>3 DEF CopyInv, Holds
  <2>6. Standing[w] = "written"
    BY <1>1, <2>5, StandingIs DEF StandingOf
  <2>7. Atomic!Confirm(w)
    BY <1>1, <2>4, <2>6 DEF Atomic!Confirm
  <2> QED
    BY <2>7 DEF AtomicStep, Atomic!Next
<1> QED
  BY <1>2, <1>3

\* What a push puts on the branch are the files of its writer, all of them.
LEMMA PushedTree ==
    ASSUME TypeOK, WriteInv, NEW w \in Writers, phase[w] = "push", ~behind,
           BranchBecomes(head)
    PROVE  /\ branch' = [f \in Files |-> IF f \in FilesOf[w] THEN w ELSE branch[f]]
           /\ \A v \in Writers \ {w} : v \in landed' <=> v \in landed
<1>1. /\ \A f \in FilesOf[w] : head[f] = w
      /\ \A f \in Files \ FilesOf[w] : head[f] = branch[f]
  BY DEF WriteInv, BranchInv, CopyInv, Holds, OwnFilesOnly
<1>2. head = [f \in Files |-> head[f]]
  BY TypeParts DEF DirTyped, Trees
<1>3. head = [f \in Files |-> IF f \in FilesOf[w] THEN w ELSE branch[f]]
  BY <1>1, <1>2
<1>4. ASSUME NEW v \in Writers, v # w, Holds(head, v)
      PROVE  v \in landed
  <2>1. FilesOf[v] \subseteq Files
    BY RepositoryAssumption
  <2>2. Holds(branch, v)
    BY <1>1, <1>4, <2>1 DEF Holds
  <2> QED
    BY <2>2 DEF WriteInv, BranchInv
<1> QED
  BY <1>3, <1>4 DEF BranchBecomes

LEMMA PushIsAtomic ==
    ASSUME TypeOK, WriterInv, WriteInv, NEW w \in Writers, Push(w) \/ PushAnswerLost(w)
    PROVE  AtomicStep
<1>1. CallsTyped /\ w \in Actors /\ phase[w] = "push"
  BY TypeParts, ActorSets DEF Push, PushAnswerLost
<1>2. CASE Push(w) /\ behind
  BY <1>1, <1>2, FailingSteps, FailureIsAtomic
<1>3. ASSUME ~behind, BranchBecomes(head), NEW how \in {"ok", "failed"},
             phase'[w] = "idle", result'[w] = how,
             \A v \in Writers \ {w} : phase'[v] = phase[v] /\ result'[v] = result[v]
      PROVE  AtomicStep
  <2>1. /\ branch' = [f \in Files |-> IF f \in FilesOf[w] THEN w ELSE branch[f]]
        /\ \A v \in Writers \ {w} : v \in landed' <=> v \in landed
    BY <1>1, <1>3, PushedTree
  <2>2. /\ StandingOf(w)' = how
        /\ \A v \in Writers \ {w} : StandingOf(v)' = StandingOf(v)
    BY <1>3, <2>1 DEF StandingOf
  <2>3. Standing' = [Standing EXCEPT ![w] = how]
    BY <2>2, OneChanges
  <2>4. Standing[w] \in {"open", "written"}
    BY <1>1, StandingIs DEF StandingOf
  <2>5. Atomic!Write(w, how)
    BY <2>1, <2>3, <2>4 DEF Atomic!Write, Atomic!Open
  <2> QED
    BY <2>5 DEF AtomicStep, Atomic!Next
<1>4. CASE Push(w) /\ ~behind
  <2>1. BranchBecomes(head) /\ Go(w, "idle") /\ Report(w, "ok")
    BY <1>4 DEF Push
  <2>2. /\ phase'[w] = "idle" /\ result'[w] = "ok"
        /\ \A v \in Writers \ {w} : phase'[v] = phase[v] /\ result'[v] = result[v]
    BY <1>1, <2>1, SuccessEffect, ActorSets DEF Report, CallsTyped
  <2> QED
    BY <1>3, <1>4, <2>1, <2>2
<1>5. CASE PushAnswerLost(w)
  <2>1. ~behind /\ BranchBecomes(head) /\ Fails(w)
    BY <1>5 DEF PushAnswerLost
  <2>2. phase'[w] = "idle" /\ result'[w] = "failed"
    BY <1>1, <2>1, FailsEffect DEF Fails, Report, CallsTyped
  <2>3. \A v \in Writers \ {w} : phase'[v] = phase[v]
    BY <2>1, ActorSets DEF Fails, WaitsFor, WriterInv
  <2>4. \A v \in Writers \ {w} : result'[v] = result[v]
    BY <1>1, <2>1 DEF Fails, Report, CallsTyped
  <2> QED
    BY <1>3, <2>1, <2>2, <2>3, <2>4
<1> QED
  BY <1>2, <1>4, <1>5

LEMMA ElsewhereIsAtomic ==
    ASSUME TypeOK, WriteInv, NEW f \in Files, OtherClonePushes(f)
    PROVE  AtomicStep
<1> DEFINE tree == [branch EXCEPT ![f] = Others]
<1>1. BranchBecomes(tree) /\ UNCHANGED <<phase, result>>
  BY DEF OtherClonePushes
<1>2. tree[f] = Others /\ \A g \in Files \ {f} : tree[g] = branch[g]
  BY TypeParts DEF DirTyped, Trees
<1>3. ASSUME NEW w \in Writers, Holds(tree, w)
      PROVE  w \in landed
  <2>1. FilesOf[w] \subseteq Files /\ Others # w
    BY RepositoryAssumption
  <2>2. Holds(branch, w)
    BY <1>2, <1>3, <2>1 DEF Holds
  <2> QED
    BY <2>2 DEF WriteInv, BranchInv
<1>4. branch' = tree /\ \A w \in Writers : w \in landed' <=> w \in landed
  BY <1>1, <1>3 DEF BranchBecomes
<1>5. \A w \in Writers : StandingOf(w)' = StandingOf(w)
  BY <1>1, <1>4 DEF StandingOf
<1>6. Standing' = Standing
  BY <1>5, StandingIs
<1>7. Atomic!WriteElsewhere(f)
  BY <1>4, <1>6 DEF Atomic!WriteElsewhere
<1> QED
  BY <1>7 DEF AtomicStep, Atomic!Next

LEMMA SyncIsAtomic ==
    ASSUME TypeOK, WriterInv, NEW a \in Actors, Sync(a)
    PROVE  AtomicStep
<1>1. CASE SyncRemote(a)
  BY <1>1, ActorSets, GoingOnIsAtomic DEF SyncRemote
<1>2. CASE Checkout(a) /\ Refused
  BY <1>2, FailingSteps, FailureIsAtomic DEF Checkout
<1>3. CASE Checkout(a) /\ ~Refused
  BY <1>3, GoingOnIsAtomic DEF Checkout
<1>4. CASE RefreshWorktree(a)
  BY <1>4, GoingOnIsAtomic DEF RefreshWorktree, Synced
<1> QED
  BY <1>1, <1>2, <1>3, <1>4 DEF Sync

LEMMA ReadIsAtomic ==
    ASSUME TypeOK, NEW r \in Readers, Read(r)
    PROVE  AtomicStep
<1>1. \A w \in Writers : w \in Actors \ {r, Background} /\ r \in Actors
  BY ActorSets
<1>2. \/ \E n : Go(r, n)
      \/ phase' = [phase EXCEPT ![r] = "rlock", ![Background] = "flock"]
  BY DEF Read, WithRead, EnsureFile, SyncOnce, TakeReadLock, EndRead
<1>3. \A w \in Writers : phase'[w] = phase[w]
  BY <1>1, <1>2, TypeParts, GoEffect DEF CallsTyped
<1>4. UNCHANGED <<branch, landed, result>>
  BY DEF Read, WithRead, EnsureFile, SyncOnce, TakeReadLock, EndRead
<1> QED
  BY <1>3, <1>4, NothingHappens DEF StandingOf

LEMMA StepsAreAtomic ==
    TypeOK /\ WriterInv /\ WriteInv /\ [Next]_vars => [Atomic!Next]_(Atomic!vars)
<1> SUFFICES ASSUME TypeOK, WriterInv, WriteInv, [Next]_vars PROVE AtomicStep
  BY DEF AtomicStep, Atomic!vars
<1>1. ASSUME NEW a \in Actors, LockBusy(a) \/ GiveUp(a) \/ CommandFails(a) \/ EditFails(a)
      PROVE  AtomicStep
  <2>1. Failure(a)
    BY <1>1, FailingSteps
  <2>2. phase[a] # "idle"
    BY <1>1
       DEF LockBusy, Busy, GiveUp, Waiting, CommandFails, GitPhases, IndexPhases, EditFails
  <2> QED
    BY <2>1, <2>2, FailureIsAtomic
<1>2. ASSUME NEW a \in Actors, TakeProcessLock(a) \/ TakeInProcessLock(a)
      PROVE  AtomicStep
  BY <1>2, GoingOnIsAtomic DEF TakeProcessLock, TakeInProcessLock
<1>3. ASSUME NEW w \in Writers, Edit(w)
      PROVE  AtomicStep
  BY <1>3, ActorSets, GoingOnIsAtomic DEF Edit, EditFile
<1>4. ASSUME NEW a \in Actors, Step(a) \/ GiveUp(a) \/ CommandFails(a)
      PROVE  AtomicStep
  BY <1>1, <1>2, <1>3, <1>4, SyncIsAtomic, CommitIsAtomic, PushIsAtomic, ReadIsAtomic
     DEF Step, Write, Read
<1>5. ASSUME NEW w \in Writers, WithWrite(w) \/ EditFails(w) \/ PushAnswerLost(w)
      PROVE  AtomicStep
  BY <1>1, <1>5, ActorSets, CallIsAtomic, PushIsAtomic
<1>6. CASE Expire \/ UNCHANGED vars
  BY <1>6, NothingHappens DEF Expire, vars, StandingOf
<1> QED
  BY <1>4, <1>5, <1>6, CrashIsAtomic, ElsewhereIsAtomic DEF Next

LEMMA InitIsAtomic == Init => Atomic!Init
<1> SUFFICES ASSUME Init PROVE Atomic!Init
  OBVIOUS
<1>1. \A w \in Writers : StandingOf(w) = "none"
  BY ActorSets DEF Init, StandingOf
<1>2. Standing = [w \in Writers |-> "none"]
  BY <1>1, StandingIs
<1> QED
  BY <1>2 DEF Init, Before, Atomic!Init

\* A call of WithWrite is one step between its beginning and its end.
THEOREM CloneImplementsAtomicRepository == Spec => ImplementsAtomicRepository
<1>1. Spec => Atomic!Init
  BY InitIsAtomic DEF Spec
<1>2. TypeOK /\ WriterInv /\ WriteInv /\ [Next]_vars => [Atomic!Next]_(Atomic!vars)
  BY StepsAreAtomic
<1> QED
  BY <1>1, <1>2, TypeCorrect, WritersCorrect, WritesCorrect, PTL
     DEF Spec, ImplementsAtomicRepository, Atomic!Spec

=============================================================================
