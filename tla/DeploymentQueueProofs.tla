------------------------ MODULE DeploymentQueueProofs ------------------------
(* Proofs about DeploymentQueue, for every value of its constants. *)
EXTENDS DeploymentQueue, TLAPS

\* The delay before a retry is a number of minutes between 1 and 15, whatever the
\* attempt (deploymentOperationBackoff).
LEMMA BackoffType ==
    ASSUME NEW n \in Nat
    PROVE  DeploymentOperationBackoff(n) \in 1..15
  BY DEF DeploymentOperationBackoff

\* Counting down keeps a timer in its range.
LEMMA LessType ==
    ASSUME NEW m \in Nat, NEW n \in 0..m
    PROVE  Less(n) \in 0..m
  BY DEF Less

\* An empty queue, free locks and idle workers have their types.
LEMMA InitTypeOK == Init => TypeOK
  BY QueueAssumption
     DEF Init, TypeOK, RowsTyped, LocksTyped, CallsTyped, WorkersTyped, BranchTyped,
     Statuses, Outcomes, Phases, Executing, Busy

\* The row that a claim updates keeps the types of its columns.
LEMMA ClaimRowTyped ==
    ASSUME TypeOK, NEW w \in Workers, NEW i \in Ids, ClaimRow(w, i)
    PROVE  RowsTyped' /\ LocksTyped'
<1> USE QueueAssumption DEF TypeOK, RowsTyped
<1>1. status' \in [Ids -> Statuses]
  BY DEF ClaimRow, Statuses
<1>2. attempts' \in [Ids -> Nat]
  BY DEF ClaimRow
<1>3. owner' \in [Ids -> Workers \cup {NoWorker}]
  BY DEF ClaimRow
<1>4. until' \in [Ids -> 0..Lease]
  BY DEF ClaimRow
<1>5. UNCHANGED <<request, wait, lastError>>
  BY DEF ClaimRow
<1>7. request[i] \in Requests
  BY DEF ClaimRow, Claimable, WorkersTyped
<1>8. \A j \in Ids : status'[j] # "Absent" => request'[j] \in Requests
  BY <1>5, <1>7 DEF ClaimRow
<1>6. LocksTyped'
  <2>1. lockOwner' \in [LockKeys -> Workers \cup {NoWorker}]
    BY DEF ClaimRow, LocksTyped
  <2>2. lockLeft' \in [LockKeys -> 0..Lease]
    <3>1. lockLeft' = [lockLeft EXCEPT ![Key(i)] = Lease] /\ Lease \in 0..Lease
      BY DEF ClaimRow
    <3> QED
      BY <3>1 DEF LocksTyped
  <2> QED
    BY <2>1, <2>2 DEF LocksTyped
<1> QED
  BY <1>1, <1>2, <1>3, <1>4, <1>5, <1>6, <1>8

\* Workers keep their types when none begins work and no operation changes.
LEMMA QuietWorkersTyped ==
    ASSUME WorkersTyped, UNCHANGED <<batch, job, tries, request>>,
           stale' \in [Workers -> BOOLEAN],
           phase' \in [Workers -> Phases], outcome' \in [Workers -> Outcomes],
           \A v \in Workers : Busy(v)' => Busy(v)
    PROVE  WorkersTyped'
  BY DEF WorkersTyped

\* Nor does anything else's type change.
LEMMA QuietWorkerTyped ==
    ASSUME TypeOK,
           UNCHANGED <<rowVars, lockVars, callVars, batch, job, tries>>,
           UNCHANGED <<gitVars, faults, admitted>>,
           stale' \in [Workers -> BOOLEAN],
           phase' \in [Workers -> Phases], outcome' \in [Workers -> Outcomes],
           \A v \in Workers : Busy(v)' => Busy(v)
    PROVE  TypeOK'
<1>1. WorkersTyped'
  BY QuietWorkersTyped DEF TypeOK, rowVars
<1>2. RowsTyped' /\ LocksTyped' /\ CallsTyped' /\ BranchTyped'
  BY DEF TypeOK, RowsTyped, LocksTyped, CallsTyped, BranchTyped, rowVars, lockVars,
     callVars, gitVars
<1> QED
  BY <1>1, <1>2 DEF TypeOK

\* Only the calls that enqueue change what is under way and the order of their times.
LEMMA CallKinds ==
    ASSUME [Next]_vars
    PROVE  \/ UNCHANGED callVars
           \/ \E r \in Requests : prepareDeploymentOperation(r)
           \/ \E r \in Requests : EnqueueDeploymentOperation(r)
<1>1. ASSUME NEW w \in Workers, Claim(w) PROVE UNCHANGED callVars
  BY <1>1 DEF Claim, SelectCandidates, ClaimNextDeploymentOperation, ClaimAnswerLost,
     ClaimRow, ClaimNothing
<1>2. ASSUME NEW w \in Workers, Execute(w) PROVE UNCHANGED callVars
  BY <1>2 DEF Execute, Verify, SyncForWrite, PushFails, PatchApplication,
     UpdateApplicationImage
<1>3. ASSUME NEW w \in Workers, Mark(w) \/ Crash(w) \/ Restart(w) PROVE UNCHANGED callVars
  BY <1>3 DEF Mark, MarkDeploymentOperation, MarkFails, Crash, Restart
<1>4. ASSUME Tick \/ UNCHANGED vars \/ \E a \in Apps, e \in Envs : OtherWrite(a, e)
      PROVE  UNCHANGED callVars
  BY <1>4 DEF Tick, vars, OtherWrite
<1> QED
  BY <1>1, <1>2, <1>3, <1>4 DEF Next, Work

\* A call remembers requests.
LEMMA StepCallsTyped == TypeOK /\ [Next]_vars => CallsTyped'
<1> SUFFICES ASSUME TypeOK, [Next]_vars PROVE CallsTyped'
  OBVIOUS
<1>1. CASE UNCHANGED callVars
  BY <1>1 DEF TypeOK, CallsTyped, callVars
<1>2. ASSUME NEW r \in Requests, prepareDeploymentOperation(r) PROVE CallsTyped'
  <2>1. \A i \in Rows : request[i] \in Requests
    BY DEF TypeOK, RowsTyped, Rows
  <2>2. underway' = underway \cup {r} /\ underway \subseteq Requests
    BY <1>2 DEF prepareDeploymentOperation, TypeOK, CallsTyped
  <2>3. before' \in [Requests -> SUBSET Requests]
    <3>1. before' = [before EXCEPT ![r] = {request[i] : i \in Rows}]
      BY <1>2 DEF prepareDeploymentOperation
    <3>2. {request[i] : i \in Rows} \in SUBSET Requests
      BY <2>1
    <3>3. before \in [Requests -> SUBSET Requests]
      BY DEF TypeOK, CallsTyped
    <3> QED
      BY <3>1, <3>2, <3>3
  <2>4. ahead' \in [Requests -> SUBSET Requests]
    <3>1. ahead' = [q \in Requests |-> IF q = r THEN underway \ {r} ELSE ahead[q] \ {r}]
      BY <1>2 DEF prepareDeploymentOperation
    <3>2. \A q \in Requests : ahead[q] \subseteq Requests
      BY DEF TypeOK, CallsTyped
    <3> QED
      BY <2>2, <3>1, <3>2
  <2> QED
    BY <2>2, <2>3, <2>4 DEF CallsTyped
<1>3. ASSUME NEW r \in Requests, EnqueueDeploymentOperation(r) PROVE CallsTyped'
  BY <1>3 DEF EnqueueDeploymentOperation, TypeOK, CallsTyped
<1> QED
  BY <1>1, <1>2, <1>3, CallKinds

\* Every action keeps the types of the variables.
LEMMA StepTypeOK == TypeOK /\ [Next]_vars => TypeOK'
<1> SUFFICES ASSUME TypeOK, [Next]_vars PROVE TypeOK'
  OBVIOUS
<1> USE QueueAssumption DEF TypeOK, RowsTyped, LocksTyped, WorkersTyped, BranchTyped, Statuses,
        Outcomes, Phases, Executing, Busy, rowVars, lockVars, workerVars, gitVars
<1>0. CallsTyped'
  BY StepCallsTyped
<1> USE <1>0
<1>1. ASSUME NEW r \in Requests, EnqueueDeploymentOperation(r) PROVE TypeOK'
  <2>1. RowsTyped'
    <3>1. IdOf[r] \in Ids
      OBVIOUS
    <3>2. status' \in [Ids -> Statuses]
      <4>1. \/ UNCHANGED status
            \/ status' = [status EXCEPT ![IdOf[r]] = "Queued"]
        BY <1>1 DEF EnqueueDeploymentOperation
      <4>2. status \in [Ids -> Statuses] /\ "Queued" \in Statuses
        OBVIOUS
      <4> HIDE DEF TypeOK, RowsTyped, LocksTyped, WorkersTyped, BranchTyped, Statuses
      <4> QED
        BY <4>1, <4>2
    <3>3. request' \in [Ids -> Requests \cup {NoRequest}]
      BY <1>1, <3>1 DEF EnqueueDeploymentOperation
    <3>5. UNCHANGED <<attempts, owner, until, wait, lastError>>
      BY <1>1 DEF EnqueueDeploymentOperation
    <3>6. \A i \in Ids : status'[i] # "Absent" => request'[i] \in Requests
      BY <1>1, <3>1 DEF EnqueueDeploymentOperation
    <3> QED
      BY <3>2, <3>3, <3>5, <3>6
  <2>2. LocksTyped'
    BY <1>1 DEF EnqueueDeploymentOperation
  <2>3. WorkersTyped'
    <3>1. UNCHANGED workerVars
      BY <1>1 DEF EnqueueDeploymentOperation
    <3>2. \A i \in Ids : request[i] \in Requests => request'[i] \in Requests
      <4>1. UNCHANGED request \/ request' = [request EXCEPT ![IdOf[r]] = r]
        BY <1>1 DEF EnqueueDeploymentOperation
      <4>2. request \in [Ids -> Requests \cup {NoRequest}]
        OBVIOUS
      <4> HIDE DEF TypeOK, RowsTyped, LocksTyped, WorkersTyped, BranchTyped
      <4> QED
        BY <4>1, <4>2
    <3> QED
      BY <3>1, <3>2
  <2>4. BranchTyped'
    BY <1>1 DEF EnqueueDeploymentOperation
  <2>5. (faults \in 0..MaxFaults)' /\ (admitted \subseteq Disturbances)'
    BY <1>1 DEF EnqueueDeploymentOperation
  <2> QED
    BY <2>1, <2>2, <2>3, <2>4, <2>5
<1>2. ASSUME NEW w \in Workers, SelectCandidates(w) PROVE TypeOK'
  <2>1. PICK B \in SUBSET {i \in Ids : Pending(i)} :
            batch' = [batch EXCEPT ![w] = B]
    BY <1>2 DEF SelectCandidates, Due
  <2>2. \A i \in B : request[i] \in Requests
    BY DEF Pending
  <2>3. phase' = [phase EXCEPT ![w] = "select"]
    BY <1>2 DEF SelectCandidates
  <2>4. UNCHANGED <<rowVars, lockVars, job, tries, stale, outcome, gitVars, faults, admitted>>
    BY <1>2 DEF SelectCandidates
  <2>5. WorkersTyped'
    BY <2>1, <2>2, <2>3, <2>4
  <2> QED
    BY <2>4, <2>5
<1>3. ASSUME NEW w \in Workers, NEW i \in Ids, ClaimNextDeploymentOperation(w, i)
      PROVE TypeOK'
  <2>1. RowsTyped' /\ LocksTyped'
    <3>1. ClaimRow(w, i)
      BY <1>3 DEF ClaimNextDeploymentOperation
    <3> QED
      BY <3>1, ClaimRowTyped
  <2>3. WorkersTyped'
    <3>1. request[i] \in Requests /\ UNCHANGED request
      BY <1>3 DEF ClaimNextDeploymentOperation, ClaimRow, Claimable
    <3>2. batch' = [batch EXCEPT ![w] = {}]
      BY <1>3 DEF ClaimNextDeploymentOperation, ClaimRow
    <3>3. /\ phase' = [phase EXCEPT ![w] = "verify"]
          /\ job' = [job EXCEPT ![w] = i]
          /\ tries' = [tries EXCEPT ![w] = attempts[i] + 1]
          /\ outcome' = [outcome EXCEPT ![w] = "none"]
          /\ UNCHANGED stale
      BY <1>3 DEF ClaimNextDeploymentOperation
    <3> QED
      BY <3>1, <3>2, <3>3
  <2>4. BranchTyped'
    BY <1>3 DEF ClaimNextDeploymentOperation, ClaimRow
  <2>5. (faults \in 0..MaxFaults)' /\ (admitted \subseteq Disturbances)'
    BY <1>3 DEF ClaimNextDeploymentOperation, ClaimRow
  <2> QED
    BY <2>1, <2>3, <2>4, <2>5
<1>4. ASSUME NEW w \in Workers, NEW i \in Ids, ClaimAnswerLost(w, i) PROVE TypeOK'
  <2>1. RowsTyped' /\ LocksTyped'
    <3>1. ClaimRow(w, i)
      BY <1>4 DEF ClaimAnswerLost
    <3> QED
      BY <3>1, ClaimRowTyped
  <2>3. WorkersTyped'
    BY <1>4 DEF ClaimAnswerLost, ClaimRow, FaultLeft
  <2>4. BranchTyped'
    BY <1>4 DEF ClaimAnswerLost, ClaimRow, FaultLeft
  <2>5. (faults \in 0..MaxFaults)' /\ (admitted \subseteq Disturbances)'
    BY <1>4 DEF ClaimAnswerLost, ClaimRow, FaultLeft
  <2> QED
    BY <2>1, <2>3, <2>4, <2>5
<1>5. ASSUME NEW w \in Workers, ClaimNothing(w) PROVE TypeOK'
  BY <1>5 DEF ClaimNothing, FaultLeft
<1>6. ASSUME NEW w \in Workers, Verify(w) PROVE TypeOK'
  <2>1. /\ UNCHANGED <<rowVars, lockVars, callVars, batch, job, tries, stale>>
        /\ UNCHANGED <<gitVars, faults, admitted>>
    BY <1>6 DEF Verify
  <2>2. /\ phase' \in [Workers -> Phases] /\ outcome' \in [Workers -> Outcomes]
        /\ \A v \in Workers : Busy(v)' => Busy(v)
    <3>1. /\ Busy(w)
          /\ \E p \in Executing : phase' = [phase EXCEPT ![w] = p]
          /\ UNCHANGED outcome \/ \E x \in Outcomes : outcome' = [outcome EXCEPT ![w] = x]
      BY <1>6 DEF Verify, Fails, Return, AfterVerify
    <3>2. phase \in [Workers -> Phases] /\ outcome \in [Workers -> Outcomes]
      OBVIOUS
    <3> HIDE DEF TypeOK, RowsTyped, LocksTyped, WorkersTyped, BranchTyped
    <3> QED
      BY <3>1, <3>2
  <2> QED
    BY <2>1, <2>2, QuietWorkerTyped
<1>7. ASSUME NEW w \in Workers, SyncForWrite(w) PROVE TypeOK'
  <2>1. /\ UNCHANGED <<rowVars, lockVars, callVars, batch, job, tries>>
        /\ UNCHANGED <<gitVars, faults, admitted>>
        /\ stale' \in [Workers -> BOOLEAN]
    <3>1. UNCHANGED stale \/ stale' = [stale EXCEPT ![w] = FALSE]
      BY <1>7 DEF SyncForWrite
    <3> QED
      BY <1>7, <3>1 DEF SyncForWrite
  <2>2. /\ phase' \in [Workers -> Phases] /\ outcome' \in [Workers -> Outcomes]
        /\ \A v \in Workers : Busy(v)' => Busy(v)
    <3>1. /\ Busy(w)
          /\ \E p \in Executing : phase' = [phase EXCEPT ![w] = p]
          /\ UNCHANGED outcome \/ \E x \in Outcomes : outcome' = [outcome EXCEPT ![w] = x]
      BY <1>7 DEF SyncForWrite, Fails, Return
    <3>2. phase \in [Workers -> Phases] /\ outcome \in [Workers -> Outcomes]
      OBVIOUS
    <3> HIDE DEF TypeOK, RowsTyped, LocksTyped, WorkersTyped, BranchTyped
    <3> QED
      BY <3>1, <3>2
  <2> QED
    BY <2>1, <2>2, QuietWorkerTyped
<1>8. ASSUME NEW w \in Workers, PushFails(w) PROVE TypeOK'
  <2>1. /\ UNCHANGED <<rowVars, lockVars, callVars, batch, job, tries, stale>>
        /\ UNCHANGED <<gitVars, faults, admitted>>
    BY <1>8 DEF PushFails
  <2>2. /\ phase' \in [Workers -> Phases] /\ outcome' \in [Workers -> Outcomes]
        /\ \A v \in Workers : Busy(v)' => Busy(v)
    BY <1>8 DEF PushFails, Return
  <2> QED
    BY <2>1, <2>2, QuietWorkerTyped
<1>9. ASSUME NEW w \in Workers, PatchApplication(w) PROVE TypeOK'
  <2>1. RowsTyped'
    BY <1>9 DEF PatchApplication, PushAnswer, Return, BranchMoves
  <2>2. LocksTyped'
    BY <1>9 DEF PatchApplication, PushAnswer, Return, BranchMoves
  <2>3. WorkersTyped'
    <3>1. UNCHANGED <<batch, job, tries, request>> /\ stale' \in [Workers -> BOOLEAN]
      BY <1>9 DEF PatchApplication, BranchMoves
    <3>2. /\ phase' \in [Workers -> Phases] /\ outcome' \in [Workers -> Outcomes]
          /\ \A v \in Workers : Busy(v)' => Busy(v)
      <4>1. /\ Busy(w)
            /\ \E p \in Executing : phase' = [phase EXCEPT ![w] = p]
            /\ \E x \in Outcomes : outcome' = [outcome EXCEPT ![w] = x]
        BY <1>9 DEF PatchApplication, PushAnswer, Return
      <4>2. phase \in [Workers -> Phases] /\ outcome \in [Workers -> Outcomes]
        OBVIOUS
      <4> HIDE DEF TypeOK, RowsTyped, LocksTyped, WorkersTyped, BranchTyped
      <4> QED
        BY <4>1, <4>2
    <3> QED
      BY <3>1, <3>2, QuietWorkersTyped
  <2>4. BranchTyped'
    <3>1. job[w] \in Ids /\ request[job[w]] \in Requests
      BY <1>9 DEF PatchApplication
    <3>2. App(job[w]) \in Apps /\ Env(job[w]) \in Envs
      BY <3>1 DEF App, Env
    <3> QED
      BY <1>9, <3>1, <3>2 DEF PatchApplication
  <2>5. (faults \in 0..MaxFaults)' /\ (admitted \subseteq Disturbances)'
    BY <1>9 DEF PatchApplication, PushAnswer, Return, BranchMoves
  <2> QED
    BY <2>1, <2>2, <2>3, <2>4, <2>5
<1>10. ASSUME NEW w \in Workers, UpdateApplicationImage(w) PROVE TypeOK'
  <2>1. RowsTyped'
    BY <1>10 DEF UpdateApplicationImage, PushAnswer, Return, BranchMoves
  <2>2. LocksTyped'
    BY <1>10 DEF UpdateApplicationImage, PushAnswer, Return, BranchMoves
  <2>3. WorkersTyped'
    <3>1. UNCHANGED <<batch, job, tries, request>> /\ stale' \in [Workers -> BOOLEAN]
      BY <1>10 DEF UpdateApplicationImage, BranchMoves
    <3>2. /\ phase' \in [Workers -> Phases] /\ outcome' \in [Workers -> Outcomes]
          /\ \A v \in Workers : Busy(v)' => Busy(v)
      BY <1>10 DEF UpdateApplicationImage, PushAnswer, Return
    <3> QED
      BY <3>1, <3>2, QuietWorkersTyped
  <2>4. BranchTyped'
    <3>1. job[w] \in Ids /\ request[job[w]] \in Requests
      BY <1>10 DEF UpdateApplicationImage
    <3>2. App(job[w]) \in Apps /\ Env(job[w]) \in Envs
      BY <3>1 DEF App, Env
    <3> QED
      BY <1>10, <3>1, <3>2 DEF UpdateApplicationImage
  <2>5. (faults \in 0..MaxFaults)' /\ (admitted \subseteq Disturbances)'
    BY <1>10 DEF UpdateApplicationImage, PushAnswer, Return, BranchMoves
  <2> QED
    BY <2>1, <2>2, <2>3, <2>4, <2>5
<1>11. ASSUME NEW w \in Workers, MarkDeploymentOperation(w) PROVE TypeOK'
  <2>1. RowsTyped'
    <3>1. status' \in [Ids -> Statuses]
      <4>1. NextStatus(w) \in Statuses
        BY DEF NextStatus
      <4>2. UNCHANGED status \/ status' = [status EXCEPT ![job[w]] = NextStatus(w)]
        BY <1>11 DEF MarkDeploymentOperation
      <4> QED
        BY <4>1, <4>2
    <3>2. lastError' \in [Ids -> Outcomes]
      <4>1. \/ UNCHANGED lastError
            \/ \E x \in Outcomes : lastError' = [lastError EXCEPT ![job[w]] = x]
        <5>1. outcome[w] \in Outcomes /\ "none" \in Outcomes
          OBVIOUS
        <5>2. \/ UNCHANGED lastError
              \/ lastError' = [lastError EXCEPT ![job[w]] =
                                  IF outcome[w] = "ok" THEN "none" ELSE outcome[w]]
          BY <1>11 DEF MarkDeploymentOperation
        <5> QED
          BY <5>1, <5>2
      <4> QED
        BY <4>1
    <3>3. wait' \in [Ids -> 0..15]
      <4>1. DeploymentOperationBackoff(tries[w]) \in 0..15
        BY BackoffType
      <4>2. \/ UNCHANGED wait
            \/ \E n \in 0..15 : wait' = [wait EXCEPT ![job[w]] = n]
        <5>1. \/ UNCHANGED wait
              \/ wait' = [wait EXCEPT ![job[w]] = DeploymentOperationBackoff(tries[w])]
              \/ wait' = [wait EXCEPT ![job[w]] = wait[job[w]]]
          BY <1>11 DEF MarkDeploymentOperation
        <5>2. wait[job[w]] \in 0..15
          BY <1>11 DEF MarkDeploymentOperation
        <5> QED
          BY ONLY <4>1, <5>1, <5>2
      <4>3. wait \in [Ids -> 0..15]
        OBVIOUS
      <4> QED
        BY ONLY <4>2, <4>3
    <3>4. owner' \in [Ids -> Workers \cup {NoWorker}]
      BY <1>11 DEF MarkDeploymentOperation
    <3>5. until' \in [Ids -> 0..Lease]
      <4>1. UNCHANGED until \/ until' = [until EXCEPT ![job[w]] = 0]
        BY <1>11 DEF MarkDeploymentOperation
      <4>2. until \in [Ids -> 0..Lease] /\ Lease \in Nat
        OBVIOUS
      <4> QED
        BY ONLY <4>1, <4>2
    <3>6. UNCHANGED <<request, attempts>>
      BY <1>11 DEF MarkDeploymentOperation
    <3>7. \A i \in Ids : status'[i] # "Absent" => request'[i] \in Requests
      BY <1>11 DEF MarkDeploymentOperation
    <3> QED
      BY <3>1, <3>2, <3>3, <3>4, <3>5, <3>6, <3>7
  <2>2. LocksTyped'
    <3>1. \/ UNCHANGED lockVars
          \/ ReleaseOperationLock(w, Key(job[w]))
      BY <1>11 DEF MarkDeploymentOperation
    <3>2. LocksTyped
      OBVIOUS
    <3> HIDE DEF TypeOK, RowsTyped, WorkersTyped, BranchTyped
    <3> QED
      BY <3>1, <3>2 DEF ReleaseOperationLock
  <2>3. WorkersTyped'
    BY <1>11 DEF MarkDeploymentOperation, ReleaseOperationLock, Forget
  <2>4. BranchTyped'
    BY <1>11 DEF MarkDeploymentOperation, ReleaseOperationLock, Forget
  <2>5. (faults \in 0..MaxFaults)' /\ (admitted \subseteq Disturbances)'
    BY <1>11 DEF MarkDeploymentOperation, ReleaseOperationLock, Forget
  <2> QED
    BY <2>1, <2>2, <2>3, <2>4, <2>5
<1>12. ASSUME NEW w \in Workers, MarkFails(w) PROVE TypeOK'
  BY <1>12 DEF MarkFails, Forget, FaultLeft
<1>13. ASSUME NEW w \in Workers, Crash(w) PROVE TypeOK'
  BY <1>13 DEF Crash, Forget, FaultLeft
<1>14. ASSUME NEW w \in Workers, Restart(w) PROVE TypeOK'
  BY <1>14 DEF Restart
<1>15. ASSUME NEW a \in Apps, NEW e \in Envs, OtherWrite(a, e) PROVE TypeOK'
  BY <1>15 DEF OtherWrite, BranchMoves
<1>16. CASE Tick
  BY <1>16, LessType DEF Tick
<1>17. CASE UNCHANGED vars
  BY <1>17 DEF vars
<1>18. ASSUME NEW r \in Requests, prepareDeploymentOperation(r) PROVE TypeOK'
  BY <1>18 DEF prepareDeploymentOperation
<1> QED
  BY <1>1, <1>2, <1>3, <1>4, <1>5, <1>6, <1>7, <1>8, <1>9, <1>10, <1>11, <1>12,
     <1>13, <1>14, <1>15, <1>16, <1>17, <1>18
     DEF Next, Work, Claim, Execute, Mark

\* Rows, locks, workers and branch keep the types of the code's columns and maps
\* in every reachable state.
THEOREM TypeCorrect == Spec => []TypeOK
  BY InitTypeOK, StepTypeOK, PTL DEF Spec

-----------------------------------------------------------------------------
(* Most steps change neither a row nor a lock, start no operation and lock  *)
(* no row.  The others are listed in StepKinds.                             *)

QuietStep ==
    /\ UNCHANGED <<rowVars, lockVars>>
    /\ \A v \in Workers :
          /\ Busy(v)' => Busy(v) /\ job'[v] = job[v] /\ tries'[v] = tries[v]
          /\ batch'[v] = batch[v] \/ batch'[v] = {}

LoudStep ==
    \/ \E r \in Requests : EnqueueDeploymentOperation(r)
    \/ \E w \in Workers : SelectCandidates(w)
    \/ \E w \in Workers, i \in Ids : ClaimNextDeploymentOperation(w, i)
    \/ \E w \in Workers, i \in Ids : ClaimAnswerLost(w, i)
    \/ \E w \in Workers : MarkDeploymentOperation(w)
    \/ Tick

\* Preparing, executing, failing, crashing, restarting and other commits are quiet steps.
LEMMA StepKinds == TypeOK /\ [Next]_vars => QuietStep \/ LoudStep
<1> SUFFICES ASSUME TypeOK, [Next]_vars PROVE QuietStep \/ LoudStep
  OBVIOUS
<1> USE DEF TypeOK, WorkersTyped, Busy, Executing, Phases
<1>1. ASSUME NEW w \in Workers, ClaimNothing(w) PROVE QuietStep
  BY <1>1 DEF ClaimNothing, QuietStep
<1>2. ASSUME NEW w \in Workers, Verify(w) PROVE QuietStep
  BY <1>2 DEF Verify, Fails, Return, AfterVerify, QuietStep
<1>3. ASSUME NEW w \in Workers, SyncForWrite(w) PROVE QuietStep
  BY <1>3 DEF SyncForWrite, Fails, Return, QuietStep
<1>4. ASSUME NEW w \in Workers, PushFails(w) PROVE QuietStep
  BY <1>4 DEF PushFails, Return, QuietStep
<1>5. ASSUME NEW w \in Workers, PatchApplication(w) PROVE QuietStep
  BY <1>5 DEF PatchApplication, PushAnswer, Return, QuietStep
<1>6. ASSUME NEW w \in Workers, UpdateApplicationImage(w) PROVE QuietStep
  BY <1>6 DEF UpdateApplicationImage, PushAnswer, Return, QuietStep
<1>7. ASSUME NEW w \in Workers, MarkFails(w) PROVE QuietStep
  BY <1>7 DEF MarkFails, Forget, QuietStep
<1>8. ASSUME NEW w \in Workers, Crash(w) PROVE QuietStep
  BY <1>8 DEF Crash, Forget, QuietStep
<1>9. ASSUME NEW w \in Workers, Restart(w) PROVE QuietStep
  BY <1>9 DEF Restart, QuietStep
<1>10. ASSUME NEW a \in Apps, NEW e \in Envs, OtherWrite(a, e) PROVE QuietStep
  BY <1>10 DEF OtherWrite, QuietStep
<1>11. CASE UNCHANGED vars
  BY <1>11 DEF vars, workerVars, QuietStep
<1>12. ASSUME NEW r \in Requests, prepareDeploymentOperation(r) PROVE QuietStep
  BY <1>12 DEF prepareDeploymentOperation, workerVars, QuietStep
<1> QED
  BY <1>1, <1>2, <1>3, <1>4, <1>5, <1>6, <1>7, <1>8, <1>9, <1>10, <1>11, <1>12
     DEF Next, Work, Claim, Execute, Mark, LoudStep

-----------------------------------------------------------------------------
(* Rows, the transactions that lock them and the workers that run them.     *)

RowInv == WorkerHoldsRow /\ BatchesAreDisjoint

\* Idle workers hold no row.
LEMMA InitRowInv == Init => RowInv
  BY DEF Init, RowInv, WorkerHoldsRow, BatchesAreDisjoint, Busy, Executing

\* A claim takes a row that no other transaction holds and nobody runs.
LEMMA ClaimKeepsRowInv ==
    ASSUME TypeOK, RowInv, NEW w \in Workers, NEW i \in Ids, ClaimRow(w, i)
    PROVE  /\ BatchesAreDisjoint'
           /\ \A v \in Workers : Busy(v) => job[v] # i
<1> USE DEF TypeOK, RowInv, WorkersTyped, RowsTyped
<1>1. i \in batch[w] /\ Pending(i)
  BY DEF ClaimRow, Claimable, BatchesAreDisjoint
<1>2. \A v \in Workers : Busy(v) => job[v] # i
  BY <1>1 DEF WorkerHoldsRow, Pending
<1>3. \A v \in Workers : batch'[v] = IF v = w THEN {} ELSE batch[v]
  BY DEF ClaimRow
<1>4. \A v \in Workers : i \notin batch'[v]
  BY <1>1, <1>3 DEF BatchesAreDisjoint
<1>5. \A j \in Ids \ {i} : Pending(j) => Pending(j)'
  BY DEF ClaimRow, Pending
<1>6. BatchesAreDisjoint'
  <2>1. \A v \in Workers : \A j \in batch'[v] : Pending(j)'
    <3>1. \A v \in Workers : \A j \in batch'[v] : j \in Ids \ {i} /\ Pending(j)
      BY <1>3, <1>4 DEF BatchesAreDisjoint
    <3> QED
      BY <1>5, <3>1
  <2>2. \A v \in Workers : batch'[v] \subseteq batch[v]
    BY <1>3
  <2>3. \A v \in Workers : \A u \in Workers \ {v} : batch'[v] \cap batch'[u] = {}
    BY <2>2, Zenon DEF RowInv, BatchesAreDisjoint
  <2> QED
    BY <2>1, <2>3 DEF BatchesAreDisjoint
<1> QED
  BY <1>2, <1>6

\* No step separates a worker from the row it executes or shares a locked row: only
\* the owner's own mark changes a Running row.
LEMMA StepRowInv == TypeOK /\ RowInv /\ [Next]_vars => RowInv'
<1> SUFFICES ASSUME TypeOK, RowInv, [Next]_vars PROVE RowInv'
  OBVIOUS
<1> USE DEF TypeOK, RowInv, RowsTyped, WorkersTyped
<1>1. CASE QuietStep
  BY <1>1 DEF QuietStep, rowVars, WorkerHoldsRow, BatchesAreDisjoint, Pending
<1>2. ASSUME NEW r \in Requests, EnqueueDeploymentOperation(r) PROVE RowInv'
  BY <1>2, QueueAssumption
     DEF EnqueueDeploymentOperation, workerVars, WorkerHoldsRow, BatchesAreDisjoint,
         Pending, Busy
<1>3. ASSUME NEW w \in Workers, SelectCandidates(w) PROVE RowInv'
  <2>1. PICK B \in SUBSET {i \in Ids \ Locked : Due(i)} :
            batch' = [batch EXCEPT ![w] = B]
    BY <1>3 DEF SelectCandidates
  <2>2. \A v \in Workers : B \cap batch[v] = {}
    BY DEF Locked
  <2>3. BatchesAreDisjoint'
    BY <1>3, <2>1, <2>2 DEF SelectCandidates, BatchesAreDisjoint, rowVars, Due, Pending
  <2>4. WorkerHoldsRow'
    BY <1>3 DEF SelectCandidates, WorkerHoldsRow, rowVars, Busy, Executing
  <2> QED
    BY <2>3, <2>4
<1>4. ASSUME NEW w \in Workers, NEW i \in Ids, ClaimNextDeploymentOperation(w, i)
      PROVE RowInv'
  <2>1. ClaimRow(w, i)
    BY <1>4 DEF ClaimNextDeploymentOperation
  <2>2. BatchesAreDisjoint' /\ \A v \in Workers : Busy(v) => job[v] # i
    BY <2>1, ClaimKeepsRowInv
  <2>3. WorkerHoldsRow'
    BY <1>4, <2>1, <2>2
       DEF ClaimNextDeploymentOperation, ClaimRow, WorkerHoldsRow, Busy, Executing
  <2> QED
    BY <2>2, <2>3
<1>5. ASSUME NEW w \in Workers, NEW i \in Ids, ClaimAnswerLost(w, i) PROVE RowInv'
  <2>1. ClaimRow(w, i)
    BY <1>5 DEF ClaimAnswerLost
  <2>2. BatchesAreDisjoint' /\ \A v \in Workers : Busy(v) => job[v] # i
    BY <2>1, ClaimKeepsRowInv
  <2>3. WorkerHoldsRow'
    BY <1>5, <2>1, <2>2 DEF ClaimAnswerLost, ClaimRow, WorkerHoldsRow, Busy, Executing
  <2> QED
    BY <2>2, <2>3
<1>6. ASSUME NEW w \in Workers, MarkDeploymentOperation(w) PROVE RowInv'
  <2>1. Busy(w) /\ \A v \in Workers \ {w} : Busy(v) => job[v] # job[w]
    BY <1>6 DEF MarkDeploymentOperation, Busy, Executing, WorkerHoldsRow
  <2>2. \A v \in Workers : job[w] \notin batch[v]
    BY <2>1 DEF WorkerHoldsRow, BatchesAreDisjoint, Pending
  <2>3. \A i \in Ids \ {job[w]} : status'[i] = status[i] /\ owner'[i] = owner[i]
    BY <1>6 DEF MarkDeploymentOperation
  <2>4. UNCHANGED <<attempts, batch>>
    BY <1>6 DEF MarkDeploymentOperation
  <2>5. \A v \in Workers : Busy(v)' =>
            v # w /\ Busy(v) /\ job'[v] = job[v] /\ tries'[v] = tries[v]
    BY <1>6 DEF MarkDeploymentOperation, Forget, Busy, Executing
  <2>6. WorkerHoldsRow'
    BY <2>1, <2>3, <2>4, <2>5 DEF WorkerHoldsRow
  <2>7. BatchesAreDisjoint'
    <3>1. \A v \in Workers : \A i \in batch[v] : i \in Ids \ {job[w]} /\ Pending(i)
      BY <2>2 DEF BatchesAreDisjoint
    <3>2. \A v \in Workers : \A i \in batch[v] : Pending(i)'
      BY <2>3, <3>1 DEF Pending
    <3> QED
      BY <2>4, <3>2 DEF BatchesAreDisjoint
  <2> QED
    BY <2>6, <2>7
<1>7. CASE Tick
  BY <1>7 DEF Tick, workerVars, WorkerHoldsRow, BatchesAreDisjoint, Pending, Busy
<1> QED
  BY <1>1, <1>2, <1>3, <1>4, <1>5, <1>6, <1>7, StepKinds DEF LoudStep

\* No operation is executed by two workers, the lease under which a result is
\* recorded is never lost, and claim transactions hold disjoint sets of rows.
THEOREM RowsAreHeld == Spec => [](WorkerHoldsRow /\ BatchesAreDisjoint)
<1>1. Init => TypeOK /\ RowInv
  BY InitTypeOK, InitRowInv
<1>2. TypeOK /\ RowInv /\ [Next]_vars => (TypeOK /\ RowInv)'
  BY StepTypeOK, StepRowInv
<1> QED
  BY <1>1, <1>2, PTL DEF Spec, RowInv

-----------------------------------------------------------------------------
(* Leases and locks.                                                        *)

\* Idle workers hold no lease.
LEMMA InitLease == Init => LeaseCoversLock
  BY DEF Init, LeaseCoversLock, Busy, Executing

\* A claim takes no lock from a worker whose lease has not run out.
LEMMA ClaimKeepsLease ==
    ASSUME TypeOK, RowInv, LeaseCoversLock,
           NEW w \in Workers, NEW i \in Ids, ClaimRow(w, i),
           NEW v \in Workers, v # w, Busy(v), until'[job[v]] > 0
    PROVE  /\ lockOwner'[Key(job[v])] = v
           /\ lockLeft'[Key(job[v])] = until'[job[v]]
<1> USE DEF TypeOK, RowsTyped, LocksTyped, WorkersTyped
<1>1. job[v] \in Ids /\ job[v] # i
  BY ClaimKeepsRowInv
<1>2. until'[job[v]] = until[job[v]]
  BY <1>1 DEF ClaimRow
<1>3. lockOwner[Key(job[v])] = v /\ lockLeft[Key(job[v])] = until[job[v]]
  BY <1>2 DEF LeaseCoversLock
<1>4. Key(i) # Key(job[v])
  BY <1>2, <1>3 DEF ClaimRow, Claimable, LockFree
<1> QED
  BY <1>2, <1>3, <1>4 DEF ClaimRow

\* A claim sets the leases of row and lock together, time runs them down together,
\* and nobody takes a lock before its lease has run out.
LEMMA StepLease == TypeOK /\ RowInv /\ LeaseCoversLock /\ [Next]_vars => LeaseCoversLock'
<1> SUFFICES ASSUME TypeOK, RowInv, LeaseCoversLock, [Next]_vars
             PROVE  LeaseCoversLock'
  OBVIOUS
<1> USE QueueAssumption DEF TypeOK, RowsTyped, LocksTyped, WorkersTyped
<1>1. CASE QuietStep
  BY <1>1 DEF QuietStep, rowVars, lockVars, LeaseCoversLock, Key
<1>2. ASSUME NEW r \in Requests, EnqueueDeploymentOperation(r) PROVE LeaseCoversLock'
  <2>1. UNCHANGED <<until, lockOwner, lockLeft>>
    BY <1>2 DEF EnqueueDeploymentOperation, lockVars
  <2>2. \A v \in Workers : Busy(v)' => Busy(v) /\ job'[v] = job[v]
    BY <1>2 DEF EnqueueDeploymentOperation, workerVars, Busy
  <2>3. \A v \in Workers : Busy(v) => request'[job[v]] = request[job[v]]
    BY <1>2 DEF EnqueueDeploymentOperation, RowInv, WorkerHoldsRow
  <2> QED
    BY <2>1, <2>2, <2>3 DEF LeaseCoversLock, Key
<1>3. ASSUME NEW w \in Workers, SelectCandidates(w) PROVE LeaseCoversLock'
  BY <1>3 DEF SelectCandidates, rowVars, lockVars, LeaseCoversLock, Key, Busy, Executing
<1>4. ASSUME NEW w \in Workers, NEW i \in Ids, ClaimNextDeploymentOperation(w, i)
      PROVE LeaseCoversLock'
  <2>1. ClaimRow(w, i)
    BY <1>4 DEF ClaimNextDeploymentOperation
  <2>2. \A v \in Workers \ {w} : (Busy(v))' = Busy(v) /\ job'[v] = job[v]
    BY <1>4 DEF ClaimNextDeploymentOperation, Busy
  <2>3. UNCHANGED request /\ job'[w] = i
    BY <1>4, <2>1 DEF ClaimNextDeploymentOperation, ClaimRow
  <2>4. Key(i) \in LockKeys
    BY <2>1 DEF ClaimRow, Claimable, Key
  <2>5. lockOwner'[Key(i)] = w /\ lockLeft'[Key(i)] = Lease /\ until'[i] = Lease
    BY <2>1, <2>4 DEF ClaimRow
  <2>6. \A v \in Workers \ {w} : Busy(v) /\ until'[job[v]] > 0 =>
            lockOwner'[Key(job[v])] = v /\ lockLeft'[Key(job[v])] = until'[job[v]]
    BY <2>1, ClaimKeepsLease
  <2> QED
    BY <2>2, <2>3, <2>5, <2>6 DEF LeaseCoversLock, Key
<1>5. ASSUME NEW w \in Workers, NEW i \in Ids, ClaimAnswerLost(w, i)
      PROVE LeaseCoversLock'
  <2>1. ClaimRow(w, i)
    BY <1>5 DEF ClaimAnswerLost
  <2>2. \A v \in Workers : Busy(v)' => v # w /\ Busy(v) /\ job'[v] = job[v]
    BY <1>5 DEF ClaimAnswerLost, Busy, Executing
  <2>3. UNCHANGED request
    BY <2>1 DEF ClaimRow
  <2>4. \A v \in Workers \ {w} : Busy(v) /\ until'[job[v]] > 0 =>
            lockOwner'[Key(job[v])] = v /\ lockLeft'[Key(job[v])] = until'[job[v]]
    BY <2>1, ClaimKeepsLease
  <2> QED
    BY <2>2, <2>3, <2>4 DEF LeaseCoversLock, Key
<1>6. ASSUME NEW w \in Workers, MarkDeploymentOperation(w) PROVE LeaseCoversLock'
  <2>1. \A v \in Workers : Busy(v)' => v # w /\ Busy(v) /\ job'[v] = job[v]
    BY <1>6 DEF MarkDeploymentOperation, Forget, Busy, Executing
  <2>2. Busy(w) /\ \A v \in Workers \ {w} : Busy(v) => job[v] # job[w]
    BY <1>6 DEF MarkDeploymentOperation, Busy, Executing, RowInv, WorkerHoldsRow
  <2>3. UNCHANGED request /\ \A j \in Ids \ {job[w]} : until'[j] = until[j]
    BY <1>6 DEF MarkDeploymentOperation
  <2>4. \A k \in LockKeys : lockOwner[k] # w =>
            lockOwner'[k] = lockOwner[k] /\ lockLeft'[k] = lockLeft[k]
    BY <1>6 DEF MarkDeploymentOperation, ReleaseOperationLock, lockVars
  <2>5. \A v \in Workers : Busy(v) => Key(job[v]) \in LockKeys
    BY DEF Key
  <2> QED
    BY <2>1, <2>2, <2>3, <2>4, <2>5 DEF LeaseCoversLock, Key
<1>7. CASE Tick
  <2>1. UNCHANGED <<request, lockOwner, phase, job>>
    BY <1>7 DEF Tick, workerVars
  <2>2. \A i \in Ids : until'[i] = Less(until[i])
    BY <1>7 DEF Tick
  <2>3. \A k \in LockKeys : lockLeft'[k] = Less(lockLeft[k])
    BY <1>7 DEF Tick
  <2>4. \A v \in Workers : Busy(v) => Key(job[v]) \in LockKeys /\ job[v] \in Ids
    BY DEF Key
  <2> QED
    BY <2>1, <2>2, <2>3, <2>4 DEF LeaseCoversLock, Key, Less, Busy
<1> QED
  BY <1>1, <1>2, <1>3, <1>4, <1>5, <1>6, <1>7, StepKinds DEF LoudStep

\* A live lease on an operation means owning its lock, so two workers never have live
\* leases under one lock.
LEMMA LeaseExcludes == LeaseCoversLock => OneLiveLease
  BY DEF LeaseCoversLock, OneLiveLease

\* The Git write lock admits one live lease per key, for any number of workers,
\* requests and keys, through crashes, lost answers and work that outlasts its lease.
THEOREM LeasesExclude == Spec => [](LeaseCoversLock /\ OneLiveLease)
<1>1. Init => TypeOK /\ RowInv /\ LeaseCoversLock
  BY InitTypeOK, InitRowInv, InitLease
<1>2. TypeOK /\ RowInv /\ LeaseCoversLock /\ [Next]_vars
          => (TypeOK /\ RowInv /\ LeaseCoversLock)'
  BY StepTypeOK, StepRowInv, StepLease
<1> QED
  BY <1>1, <1>2, LeaseExcludes, PTL DEF Spec

-----------------------------------------------------------------------------
(* When work fits in its lease, no worker outlives the lease it works under. *)

WorksUnderLease == ~Admits("slow") => \A w \in Workers : Busy(w) => until[job[w]] > 0

\* Idle workers outlive no lease.
LEMMA InitWorksUnderLease == Init => WorksUnderLease
  BY DEF Init, WorksUnderLease, Busy, Executing

\* What disturbs a behaviour is fixed when it begins.
LEMMA AdmittedIsFixed == [Next]_vars => UNCHANGED admitted
<1> USE DEF rowVars, lockVars, workerVars, gitVars
<1>1. [Next]_vars => \/ \E r \in Requests : \/ prepareDeploymentOperation(r)
                                          \/ EnqueueDeploymentOperation(r)
                     \/ \E w \in Workers : Claim(w) \/ Execute(w) \/ Mark(w)
                     \/ \E w \in Workers : Crash(w) \/ Restart(w)
                     \/ \E a \in Apps, e \in Envs : OtherWrite(a, e)
                     \/ Tick \/ UNCHANGED admitted
  BY DEF Next, Work, vars
<1>2. \A r \in Requests : prepareDeploymentOperation(r) \/ EnqueueDeploymentOperation(r)
                          => UNCHANGED admitted
  BY DEF prepareDeploymentOperation, EnqueueDeploymentOperation
<1>3. \A w \in Workers : Claim(w) => UNCHANGED admitted
  BY DEF Claim, SelectCandidates, ClaimNextDeploymentOperation, ClaimAnswerLost, ClaimNothing
<1>4. \A w \in Workers : Execute(w) => UNCHANGED admitted
  BY DEF Execute, Verify, SyncForWrite, PushFails, PatchApplication, UpdateApplicationImage
<1>5. \A w \in Workers : Mark(w) => UNCHANGED admitted
  BY DEF Mark, MarkDeploymentOperation, MarkFails
<1>6. \A w \in Workers : Crash(w) \/ Restart(w) => UNCHANGED admitted
  BY DEF Crash, Restart
<1>7. \A a \in Apps, e \in Envs : OtherWrite(a, e) => UNCHANGED admitted
  BY DEF OtherWrite
<1>8. Tick => UNCHANGED admitted
  BY DEF Tick
<1> QED
  BY <1>1, <1>2, <1>3, <1>4, <1>5, <1>6, <1>7, <1>8

\* Unless work may be slow, time does not pass a working lease.
LEMMA StepWorksUnderLease ==
    TypeOK /\ RowInv /\ WorksUnderLease /\ [Next]_vars => WorksUnderLease'
<1> SUFFICES ASSUME TypeOK, RowInv, WorksUnderLease, [Next]_vars, ~Admits("slow"),
                    NEW v \in Workers, Busy(v)'
             PROVE  until'[job'[v]] > 0
  BY AdmittedIsFixed DEF WorksUnderLease, Admits
<1> USE QueueAssumption DEF TypeOK, RowsTyped, WorkersTyped
<1>1. CASE QuietStep
  BY <1>1 DEF QuietStep, rowVars, WorksUnderLease
<1>2. ASSUME NEW r \in Requests, EnqueueDeploymentOperation(r) PROVE until'[job'[v]] > 0
  BY <1>2 DEF EnqueueDeploymentOperation, workerVars, WorksUnderLease, Busy
<1>3. ASSUME NEW w \in Workers, SelectCandidates(w) PROVE until'[job'[v]] > 0
  BY <1>3 DEF SelectCandidates, rowVars, WorksUnderLease, Busy, Executing
<1>4. ASSUME NEW w \in Workers, NEW i \in Ids, ClaimNextDeploymentOperation(w, i)
      PROVE until'[job'[v]] > 0
  <2>1. ClaimRow(w, i)
    BY <1>4 DEF ClaimNextDeploymentOperation
  <2>2. CASE v = w
    BY <1>4, <2>1, <2>2 DEF ClaimNextDeploymentOperation, ClaimRow
  <2>3. CASE v # w
    <3>1. Busy(v) /\ job'[v] = job[v]
      BY <1>4, <2>3 DEF ClaimNextDeploymentOperation, Busy
    <3>2. job[v] # i
      BY <2>1, <3>1, ClaimKeepsRowInv
    <3> QED
      BY <2>1, <3>1, <3>2 DEF ClaimRow, WorksUnderLease
  <2> QED
    BY <2>2, <2>3
<1>5. ASSUME NEW w \in Workers, NEW i \in Ids, ClaimAnswerLost(w, i)
      PROVE until'[job'[v]] > 0
  <2>1. ClaimRow(w, i)
    BY <1>5 DEF ClaimAnswerLost
  <2>2. Busy(v) /\ job'[v] = job[v]
    BY <1>5 DEF ClaimAnswerLost, Busy, Executing
  <2>3. job[v] # i
    BY <2>1, <2>2, ClaimKeepsRowInv
  <2> QED
    BY <2>1, <2>2, <2>3 DEF ClaimRow, WorksUnderLease
<1>6. ASSUME NEW w \in Workers, MarkDeploymentOperation(w) PROVE until'[job'[v]] > 0
  <2>1. v # w /\ Busy(v) /\ job'[v] = job[v]
    BY <1>6 DEF MarkDeploymentOperation, Forget, Busy, Executing
  <2>2. job[v] # job[w]
    BY <1>6, <2>1 DEF MarkDeploymentOperation, Busy, Executing, RowInv, WorkerHoldsRow
  <2>3. until'[job[v]] = until[job[v]]
    BY <1>6, <2>1, <2>2 DEF MarkDeploymentOperation
  <2> QED
    BY <2>1, <2>3 DEF WorksUnderLease
<1>7. CASE Tick
  <2>1. Busy(v) /\ job'[v] = job[v]
    BY <1>7 DEF Tick, workerVars, Busy
  <2>2. until[job[v]] > 1 /\ until'[job[v]] = Less(until[job[v]])
    BY <1>7, <2>1 DEF Tick
  <2> QED
    BY <2>1, <2>2 DEF Less
<1> QED
  BY <1>1, <1>2, <1>3, <1>4, <1>5, <1>6, <1>7, StepKinds DEF LoudStep

\* As long as work fits in its lease, at most one worker executes operations under
\* each lock, whatever else goes wrong.
THEOREM TimelyWorkersExclude == Spec => []SingleWriterIfTimely
<1>1. Init => TypeOK /\ RowInv /\ LeaseCoversLock /\ WorksUnderLease
  BY InitTypeOK, InitRowInv, InitLease, InitWorksUnderLease
<1>2. TypeOK /\ RowInv /\ LeaseCoversLock /\ WorksUnderLease /\ [Next]_vars
          => (TypeOK /\ RowInv /\ LeaseCoversLock /\ WorksUnderLease)'
  BY StepTypeOK, StepRowInv, StepLease, StepWorksUnderLease
<1>3. LeaseCoversLock /\ WorksUnderLease => SingleWriterIfTimely
  BY LeaseExcludes DEF WorksUnderLease, OneLiveLease, SingleWriterIfTimely, SingleWriter
<1> QED
  BY <1>1, <1>2, <1>3, PTL DEF Spec

-----------------------------------------------------------------------------
(* Attempts.                                                                *)

BudgetInv ==
    /\ AttemptsWithinBudget
    /\ \A i \in Ids : status[i] = "Absent" => attempts[i] = 0

\* Neither below nor above is equal.
LEMMA NatAntisymmetry ==
    ASSUME NEW a \in Nat, NEW m \in Nat, a <= m, a >= m
    PROVE  a = m
  OBVIOUS

\* An empty queue has used no attempt.
LEMMA InitBudget == Init => BudgetInv
  BY QueueAssumption DEF Init, BudgetInv, AttemptsWithinBudget, Pending

\* A claim uses an attempt that was left.
LEMMA ClaimKeepsBudget ==
    ASSUME TypeOK, RowInv, BudgetInv, NEW w \in Workers, NEW i \in Ids, ClaimRow(w, i)
    PROVE  BudgetInv'
<1>1. Pending(i)
  BY DEF ClaimRow, Claimable, RowInv, BatchesAreDisjoint
<1>2. attempts[i] < MaxAttempts
  BY <1>1 DEF BudgetInv, AttemptsWithinBudget
<1> QED
  BY <1>2, QueueAssumption
     DEF TypeOK, RowsTyped, ClaimRow, BudgetInv, AttemptsWithinBudget, Pending

\* A claim uses an attempt that is left, and a mark gives a row back only with one.
LEMMA StepBudget == TypeOK /\ RowInv /\ BudgetInv /\ [Next]_vars => BudgetInv'
<1> SUFFICES ASSUME TypeOK, RowInv, BudgetInv, [Next]_vars PROVE BudgetInv'
  OBVIOUS
<1> USE QueueAssumption DEF TypeOK, RowsTyped, WorkersTyped
<1>1. CASE QuietStep
  BY <1>1 DEF QuietStep, rowVars, BudgetInv, AttemptsWithinBudget, Pending
<1>2. ASSUME NEW r \in Requests, EnqueueDeploymentOperation(r) PROVE BudgetInv'
  BY <1>2 DEF EnqueueDeploymentOperation, BudgetInv, AttemptsWithinBudget, Pending
<1>3. ASSUME NEW w \in Workers, SelectCandidates(w) PROVE BudgetInv'
  BY <1>3 DEF SelectCandidates, rowVars, BudgetInv, AttemptsWithinBudget, Pending
<1>4. ASSUME NEW w \in Workers, NEW i \in Ids, ClaimNextDeploymentOperation(w, i)
      PROVE BudgetInv'
  BY <1>4, ClaimKeepsBudget DEF ClaimNextDeploymentOperation
<1>5. ASSUME NEW w \in Workers, NEW i \in Ids, ClaimAnswerLost(w, i) PROVE BudgetInv'
  BY <1>5, ClaimKeepsBudget DEF ClaimAnswerLost
<1>6. ASSUME NEW w \in Workers, MarkDeploymentOperation(w) PROVE BudgetInv'
  <2>1. job[w] \in Ids /\ owner[job[w]] = w /\ attempts[job[w]] = tries[w]
        /\ status[job[w]] = "Running"
    BY <1>6 DEF MarkDeploymentOperation, RowInv, WorkerHoldsRow, Busy, Executing
  <2>2. /\ status' = [status EXCEPT ![job[w]] = NextStatus(w)]
        /\ lastError' = [lastError EXCEPT ![job[w]] =
                             IF outcome[w] = "ok" THEN "none" ELSE outcome[w]]
        /\ UNCHANGED attempts
    BY <1>6, <2>1 DEF MarkDeploymentOperation
  <2>3. /\ NextStatus(w) \in {"Completed", "Retrying", "Failed"}
        /\ NextStatus(w) = "Retrying" => tries[w] < MaxAttempts
        /\ NextStatus(w) = "Failed" /\ outcome[w] = "retryable" => tries[w] >= MaxAttempts
    BY DEF NextStatus, Retryable
  <2>4. attempts[job[w]] <= MaxAttempts
    BY <2>1 DEF BudgetInv, AttemptsWithinBudget
  <2>5. \A i \in Ids \ {job[w]} : status'[i] = status[i] /\ lastError'[i] = lastError[i]
    BY <2>2
  <2>6. status'[job[w]] = NextStatus(w) /\ (lastError'[job[w]] = "retryable" => outcome[w] = "retryable")
    BY <2>1, <2>2
  <2>7. ASSUME NEW i \in Ids
        PROVE  /\ status'[i] \in {"Queued", "Retrying"} => attempts[i] < MaxAttempts
               /\ attempts[i] <= MaxAttempts
               /\ status'[i] = "Failed" /\ lastError'[i] = "retryable" =>
                      attempts[i] = MaxAttempts
               /\ status'[i] = "Absent" => attempts[i] = 0
    <3>1. CASE i # job[w]
      BY <2>5, <3>1 DEF BudgetInv, AttemptsWithinBudget, Pending
    <3>2. CASE i = job[w]
      <4>1. attempts[i] \in Nat /\ tries[w] \in Nat /\ MaxAttempts \in Nat
        OBVIOUS
      <4>2. status'[i] = NextStatus(w) /\ attempts[i] = tries[w] /\ attempts[i] <= MaxAttempts
        BY <2>1, <2>4, <2>6, <3>2
      <4>3. status'[i] = "Failed" /\ lastError'[i] = "retryable" => attempts[i] = MaxAttempts
        <5>1. SUFFICES ASSUME status'[i] = "Failed", lastError'[i] = "retryable"
                       PROVE  attempts[i] = MaxAttempts
          OBVIOUS
        <5>2. outcome[w] = "retryable" /\ NextStatus(w) = "Failed"
          BY <2>6, <3>2, <5>1
        <5>3. tries[w] >= MaxAttempts
          BY <2>3, <5>2
        <5> QED
          BY <4>1, <4>2, <5>3, NatAntisymmetry
      <4> QED
        BY <2>3, <4>1, <4>2, <4>3
    <3> QED
      BY <3>1, <3>2
  <2> QED
    BY <2>2, <2>7 DEF BudgetInv, AttemptsWithinBudget, Pending
<1>7. CASE Tick
  BY <1>7 DEF Tick, BudgetInv, AttemptsWithinBudget, Pending
<1> QED
  BY <1>1, <1>2, <1>3, <1>4, <1>5, <1>6, <1>7, StepKinds DEF LoudStep

\* Every operation is claimed at most MaxAttempts times, and one that fails for
\* transient errors has had them all.
THEOREM AttemptsAreBounded == Spec => []AttemptsWithinBudget
<1>1. Init => TypeOK /\ RowInv /\ BudgetInv
  BY InitTypeOK, InitRowInv, InitBudget
<1>2. TypeOK /\ RowInv /\ BudgetInv /\ [Next]_vars => (TypeOK /\ RowInv /\ BudgetInv)'
  BY StepTypeOK, StepRowInv, StepBudget
<1>3. BudgetInv => AttemptsWithinBudget
  BY DEF BudgetInv
<1> QED
  BY <1>1, <1>2, <1>3, PTL DEF Spec

-----------------------------------------------------------------------------
(* What Git holds.                                                          *)

RecordInv ==
    /\ CompletedIsRecorded
    /\ \A w \in Workers :
          phase[w] = "mark" /\ outcome[w] = "ok" => recordEnv[job[w]] # NoEnv

\* An empty queue has completed nothing.
LEMMA InitRecord == Init => RecordInv
  BY DEF Init, RecordInv, CompletedIsRecorded

\* No step removes a record, and only the push of one makes an outcome ok.
LEMMA RecordsStay ==
    ASSUME TypeOK, [Next]_vars
    PROVE  /\ \A i \in Ids : recordEnv[i] # NoEnv => recordEnv'[i] # NoEnv
           /\ \A v \in Workers : phase'[v] = "mark" /\ outcome'[v] = "ok" =>
                  \/ phase[v] = "mark" /\ outcome[v] = "ok" /\ job'[v] = job[v]
                  \/ UpdateApplicationImage(v)
<1> DEFINE Goal ==
        /\ \A i \in Ids : recordEnv[i] # NoEnv => recordEnv'[i] # NoEnv
        /\ \A v \in Workers : phase'[v] = "mark" /\ outcome'[v] = "ok" =>
              \/ phase[v] = "mark" /\ outcome[v] = "ok" /\ job'[v] = job[v]
              \/ UpdateApplicationImage(v)
<1> USE QueueAssumption DEF TypeOK, WorkersTyped, BranchTyped, Phases, Executing,
        workerVars, gitVars
<1>1. ASSUME NEW r \in Requests,
             prepareDeploymentOperation(r) \/ EnqueueDeploymentOperation(r)
      PROVE  Goal
  BY <1>1 DEF prepareDeploymentOperation, EnqueueDeploymentOperation
<1>2. ASSUME NEW w \in Workers, Claim(w) PROVE Goal
  BY <1>2 DEF Claim, SelectCandidates, ClaimNextDeploymentOperation, ClaimAnswerLost,
              ClaimNothing
<1>3. ASSUME NEW w \in Workers, Verify(w) \/ SyncForWrite(w) \/ PushFails(w) PROVE Goal
  BY <1>3 DEF Verify, SyncForWrite, PushFails, Fails, Return, AfterVerify
<1>4. ASSUME NEW w \in Workers, PatchApplication(w) PROVE Goal
  BY <1>4 DEF PatchApplication, PushAnswer, Return
<1>5. ASSUME NEW w \in Workers, UpdateApplicationImage(w) PROVE Goal
  <2>1. App(job[w]) \in Apps
    BY <1>5 DEF UpdateApplicationImage, App, Busy
  <2>2. env[App(job[w])] # NoEnv
    BY <2>1
  <2>3. \A i \in Ids : recordEnv[i] # NoEnv => recordEnv'[i] # NoEnv
    BY <1>5, <2>2 DEF UpdateApplicationImage
  <2>4. \A v \in Workers \ {w} :
            phase'[v] = phase[v] /\ outcome'[v] = outcome[v] /\ job'[v] = job[v]
    BY <1>5 DEF UpdateApplicationImage, PushAnswer, Return
  <2> QED
    BY <1>5, <2>3, <2>4
<1>6. ASSUME NEW w \in Workers, Mark(w) \/ Crash(w) \/ Restart(w) PROVE Goal
  BY <1>6 DEF Mark, MarkDeploymentOperation, MarkFails, Forget, Crash, Restart
<1>7. ASSUME NEW a \in Apps, NEW e \in Envs, OtherWrite(a, e) PROVE Goal
  BY <1>7 DEF OtherWrite
<1>8. CASE Tick
  BY <1>8 DEF Tick
<1>9. CASE UNCHANGED vars
  BY <1>9 DEF vars
<1> QED
  BY <1>1, <1>2, <1>3, <1>4, <1>5, <1>6, <1>7, <1>8, <1>9 DEF Next, Work, Execute

\* Pushing the deployment record leaves one in the branch.
LEMMA ImageIsRecorded ==
    ASSUME TypeOK, NEW w \in Workers, UpdateApplicationImage(w)
    PROVE  job'[w] = job[w] /\ recordEnv'[job[w]] # NoEnv
<1> USE QueueAssumption DEF TypeOK, WorkersTyped, BranchTyped
<1>1. job[w] \in Ids /\ App(job[w]) \in Apps
  BY DEF UpdateApplicationImage, App, Busy, Executing
<1>2. env[App(job[w])] # NoEnv
  BY <1>1
<1> QED
  BY <1>1, <1>2 DEF UpdateApplicationImage

\* An operation turns Completed only when a worker records an ok outcome for it.
LEMMA CompletedByMark ==
    ASSUME TypeOK, RowInv, [Next]_vars, NEW i \in Ids, status'[i] = "Completed"
    PROVE  \/ status[i] = "Completed"
           \/ \E w \in Workers : phase[w] = "mark" /\ outcome[w] = "ok" /\ job[w] = i
<1> USE QueueAssumption DEF TypeOK, RowsTyped
<1>1. CASE QuietStep
  BY <1>1 DEF QuietStep, rowVars
<1>2. ASSUME NEW r \in Requests, EnqueueDeploymentOperation(r), status[i] # "Completed"
      PROVE FALSE
  BY <1>2 DEF EnqueueDeploymentOperation
<1>3. ASSUME NEW w \in Workers, SelectCandidates(w) PROVE status[i] = "Completed"
  BY <1>3 DEF SelectCandidates, rowVars
<1>4. ASSUME NEW w \in Workers, NEW j \in Ids, ClaimRow(w, j) PROVE status[i] = "Completed"
  BY <1>4 DEF ClaimRow
<1>5. ASSUME NEW w \in Workers, MarkDeploymentOperation(w), status[i] # "Completed"
      PROVE phase[w] = "mark" /\ outcome[w] = "ok" /\ job[w] = i
  BY <1>5 DEF MarkDeploymentOperation, NextStatus
<1>6. CASE Tick
  BY <1>6 DEF Tick
<1> QED
  BY <1>1, <1>2, <1>3, <1>4, <1>5, <1>6, StepKinds
     DEF LoudStep, ClaimNextDeploymentOperation, ClaimAnswerLost

\* No step completes an operation whose record the branch does not hold.
LEMMA StepRecord == TypeOK /\ RowInv /\ RecordInv /\ [Next]_vars => RecordInv'
<1> SUFFICES ASSUME TypeOK, RowInv, RecordInv, [Next]_vars PROVE RecordInv'
  OBVIOUS
<1>1. \A w \in Workers : phase[w] = "mark" => job[w] \in Ids
  BY DEF TypeOK, WorkersTyped, Busy, Executing
<1>2. ASSUME NEW i \in Ids, status'[i] = "Completed" PROVE recordEnv'[i] # NoEnv
  BY <1>2, CompletedByMark, RecordsStay DEF RecordInv, CompletedIsRecorded
<1>3. ASSUME NEW w \in Workers, phase'[w] = "mark", outcome'[w] = "ok"
      PROVE  recordEnv'[job'[w]] # NoEnv
  BY <1>1, <1>3, RecordsStay, ImageIsRecorded DEF RecordInv
<1> QED
  BY <1>2, <1>3 DEF RecordInv, CompletedIsRecorded

\* An operation is reported Completed only when Git holds its deployment record,
\* through crashes, lost pushes and lost database answers.
THEOREM CompletedAreRecorded == Spec => []CompletedIsRecorded
<1>1. Init => TypeOK /\ RowInv /\ RecordInv
  BY InitTypeOK, InitRowInv, InitRecord
<1>2. TypeOK /\ RowInv /\ RecordInv /\ [Next]_vars => (TypeOK /\ RowInv /\ RecordInv)'
  BY StepTypeOK, StepRowInv, StepRecord
<1>3. RecordInv => CompletedIsRecorded
  BY DEF RecordInv
<1> QED
  BY <1>1, <1>2, <1>3, PTL DEF Spec
-----------------------------------------------------------------------------
(* The queue implements the ledger.                                         *)

\* Writing one row's status changes one deployment's standing.
LEMMA StandingFollows ==
    ASSUME TypeOK, NEW i \in Ids, NEW s, status' = [status EXCEPT ![i] = s]
    PROVE  Standing' = [Standing EXCEPT ![i] = StandingOf(s)]
  BY DEF TypeOK, RowsTyped, Standing

\* The step that writes the record of a deployment.
LEMMA ImageWrites ==
    ASSUME TypeOK, RowInv, NEW w \in Workers, UpdateApplicationImage(w)
    PROVE  Ledger!Write(job[w])
<1>1. job[w] \in Ids /\ App(job[w]) \in Apps
  BY QueueAssumption DEF UpdateApplicationImage, App, Busy, Executing, TypeOK, WorkersTyped
<1>2. env[App(job[w])] # NoEnv
  BY <1>1, QueueAssumption DEF TypeOK, BranchTyped
<1>3. status[job[w]] = "Running"
  BY DEF UpdateApplicationImage, RowInv, WorkerHoldsRow, Busy, Executing
<1>4. Standing[job[w]] = "pending"
  BY <1>1, <1>3 DEF Standing, StandingOf
<1>5. UNCHANGED Standing
  BY DEF UpdateApplicationImage, rowVars, Standing
<1>6. recordEnv' = [recordEnv EXCEPT ![job[w]] = env[App(job[w])]]
  BY DEF UpdateApplicationImage
<1>7. Recorded' = Recorded \cup {job[w]}
  BY <1>1, <1>2, <1>6 DEF Recorded, TypeOK, BranchTyped
<1> QED
  BY <1>4, <1>5, <1>7 DEF Ledger!Write

\* A claim leaves a pending deployment pending.
LEMMA ClaimIsSilent ==
    ASSUME TypeOK, RowInv, NEW w \in Workers, NEW i \in Ids, ClaimRow(w, i)
    PROVE  UNCHANGED Standing
<1>1. Pending(i)
  BY DEF ClaimRow, Claimable, RowInv, BatchesAreDisjoint
<1>2. StandingOf(status[i]) = "pending" /\ StandingOf("Running") = "pending"
  BY <1>1 DEF Pending, StandingOf
<1>3. Standing' = [Standing EXCEPT ![i] = "pending"]
  BY <1>2, StandingFollows DEF ClaimRow
<1> QED
  BY <1>2, <1>3 DEF Standing

\* Recording a result settles the deployment or leaves it pending.
LEMMA MarkSettles ==
    ASSUME TypeOK, RowInv, RecordInv, NEW w \in Workers, MarkDeploymentOperation(w)
    PROVE  \/ \E verdict \in {"done", "failed"} : Ledger!Settle(job[w], verdict)
           \/ UNCHANGED <<Standing, Recorded>>
<1>1. job[w] \in Ids /\ status[job[w]] = "Running" /\ owner[job[w]] = w
  BY DEF MarkDeploymentOperation, RowInv, WorkerHoldsRow, Busy, Executing, TypeOK, WorkersTyped
<1>2. status' = [status EXCEPT ![job[w]] = NextStatus(w)]
  BY <1>1 DEF MarkDeploymentOperation
<1>3. UNCHANGED Recorded
  BY DEF MarkDeploymentOperation, gitVars, Recorded
<1>4. Standing[job[w]] = "pending"
  BY <1>1 DEF Standing, StandingOf
<1>5. Standing' = [Standing EXCEPT ![job[w]] = StandingOf(NextStatus(w))]
  BY <1>1, <1>2, StandingFollows
<1>6. CASE outcome[w] = "ok"
  <2>1. StandingOf(NextStatus(w)) = "done"
    BY <1>6 DEF NextStatus, Retryable, StandingOf
  <2>2. job[w] \in Recorded
    BY <1>1, <1>6 DEF MarkDeploymentOperation, RecordInv, Recorded
  <2> QED
    BY <1>3, <1>4, <1>5, <2>1, <2>2 DEF Ledger!Settle
<1>7. CASE outcome[w] # "ok" /\ ~Retryable(w)
  <2>1. StandingOf(NextStatus(w)) = "failed"
    BY <1>7 DEF NextStatus, StandingOf
  <2> QED
    BY <1>3, <1>4, <1>5, <2>1 DEF Ledger!Settle
<1>8. CASE outcome[w] # "ok" /\ Retryable(w)
  <2>1. StandingOf(NextStatus(w)) = "pending"
    BY <1>8 DEF NextStatus, StandingOf
  <2>2. UNCHANGED Standing
    BY <1>1, <1>4, <1>5, <2>1 DEF Standing
  <2> QED
    BY <1>3, <2>2
<1> QED
  BY <1>6, <1>7, <1>8

\* Every step of the queue is a step of the ledger or leaves it as it is.
LEMMA StepLedger ==
    TypeOK /\ RowInv /\ RecordInv /\ [Next]_vars => [Ledger!Next]_Ledger!vars
<1> SUFFICES ASSUME TypeOK, RowInv, RecordInv, [Next]_vars
             PROVE  [Ledger!Next]_<<Standing, Recorded>>
  BY DEF Ledger!vars
<1>1. ASSUME NEW r \in Requests, EnqueueDeploymentOperation(r)
      PROVE  Ledger!Accept(IdOf[r]) \/ UNCHANGED <<Standing, Recorded>>
  <2>1. IdOf[r] \in Ids
    BY QueueAssumption
  <2>2. UNCHANGED Recorded
    BY <1>1 DEF EnqueueDeploymentOperation, gitVars, Recorded
  <2>3. CASE status[IdOf[r]] = "Absent"
    <3>1. Standing[IdOf[r]] = "none" /\ StandingOf("Queued") = "pending"
      BY <2>1, <2>3 DEF Standing, StandingOf
    <3>2. status' = [status EXCEPT ![IdOf[r]] = "Queued"]
      BY <1>1, <2>3 DEF EnqueueDeploymentOperation
    <3>3. Standing' = [Standing EXCEPT ![IdOf[r]] = "pending"]
      BY <2>1, <3>1, <3>2, StandingFollows
    <3> QED
      BY <2>2, <3>1, <3>3 DEF Ledger!Accept
  <2>4. CASE status[IdOf[r]] # "Absent"
    BY <1>1, <2>2, <2>4 DEF EnqueueDeploymentOperation, Standing
  <2> QED
    BY <2>3, <2>4
<1>2. ASSUME NEW w \in Workers, NEW i \in Ids,
             ClaimNextDeploymentOperation(w, i) \/ ClaimAnswerLost(w, i)
      PROVE  UNCHANGED <<Standing, Recorded>>
  <2>1. ClaimRow(w, i) /\ UNCHANGED gitVars
    BY <1>2 DEF ClaimNextDeploymentOperation, ClaimAnswerLost
  <2> QED
    BY <2>1, ClaimIsSilent DEF gitVars, Recorded
<1>3. ASSUME NEW w \in Workers,
             \/ SelectCandidates(w) \/ ClaimNothing(w) \/ Verify(w) \/ SyncForWrite(w)
             \/ PushFails(w) \/ PatchApplication(w) \/ MarkFails(w) \/ Crash(w) \/ Restart(w)
      PROVE  UNCHANGED <<Standing, Recorded>>
  <2>1. UNCHANGED <<status, recordEnv>>
    BY <1>3 DEF SelectCandidates, ClaimNothing, Verify, SyncForWrite, PushFails,
                PatchApplication, MarkFails, Crash, Restart, rowVars, gitVars
  <2> QED
    BY <2>1 DEF Standing, Recorded
<1>4. ASSUME NEW a \in Apps, NEW e \in Envs, OtherWrite(a, e)
      PROVE  UNCHANGED <<Standing, Recorded>>
  BY <1>4 DEF OtherWrite, rowVars, Standing, Recorded
<1>5. ASSUME Tick \/ UNCHANGED vars \/ \E r \in Requests : prepareDeploymentOperation(r)
      PROVE  UNCHANGED <<Standing, Recorded>>
  BY <1>5 DEF Tick, prepareDeploymentOperation, vars, rowVars, gitVars, Standing, Recorded
<1>6. ASSUME NEW w \in Workers, UpdateApplicationImage(w) PROVE Ledger!Next
  <2>1. job[w] \in Ids
    BY <1>6 DEF UpdateApplicationImage, Busy, Executing, TypeOK, WorkersTyped
  <2> QED
    BY <1>6, <2>1, ImageWrites DEF Ledger!Next
<1>7. ASSUME NEW w \in Workers, MarkDeploymentOperation(w)
      PROVE  Ledger!Next \/ UNCHANGED <<Standing, Recorded>>
  <2>1. job[w] \in Ids
    BY <1>7 DEF MarkDeploymentOperation, Busy, Executing, TypeOK, WorkersTyped
  <2> QED
    BY <1>7, <2>1, MarkSettles DEF Ledger!Next
<1>8. ASSUME NEW r \in Requests, EnqueueDeploymentOperation(r)
      PROVE  Ledger!Next \/ UNCHANGED <<Standing, Recorded>>
  <2>1. IdOf[r] \in Ids
    BY QueueAssumption
  <2> QED
    BY <1>1, <1>8, <2>1 DEF Ledger!Next
<1> QED
  BY <1>2, <1>3, <1>4, <1>5, <1>6, <1>7, <1>8 DEF Next, Work, Claim, Execute, Mark

\* The empty queue is an empty ledger.
LEMMA InitLedger == Init => Ledger!Init
  BY DEF Init, Ledger!Init, Standing, StandingOf, Recorded

\* The queue implements the ledger: whatever crashes, is lost or is tried again, a
\* deployment is written only while it is pending, is done only when it has been
\* written, and keeps its verdict.
THEOREM QueueImplementsLedger == Spec => ImplementsLedger
<1>1. Init => TypeOK /\ RowInv /\ RecordInv
  BY InitTypeOK, InitRowInv, InitRecord
<1>2. TypeOK /\ RowInv /\ RecordInv /\ [Next]_vars => (TypeOK /\ RowInv /\ RecordInv)'
  BY StepTypeOK, StepRowInv, StepRecord
<1> QED
  BY <1>1, <1>2, InitLedger, StepLedger, PTL DEF Spec, ImplementsLedger, Ledger!Spec
-----------------------------------------------------------------------------
(* What the steps do to rows, batches, workers and images, for the proofs below.     *)

\* An operation that was enqueued and has been claimed.
Claimed(i) == status[i] \notin {"Absent", "Queued"}

\* Once there, a row keeps its request and never is as new again.
RowsGoOn ==
    /\ UNCHANGED request
    /\ \A i \in Ids : /\ status'[i] = "Absent" <=> status[i] = "Absent"
                      /\ status'[i] = "Queued" => status[i] = "Queued"

\* A claim turns a row that waits into one that runs.
LEMMA ClaimGoesOn ==
    ASSUME TypeOK, RowInv, NEW w \in Workers, NEW i \in Ids, ClaimRow(w, i)
    PROVE  RowsGoOn
<1>1. Pending(i)
  BY DEF ClaimRow, Claimable, RowInv, BatchesAreDisjoint
<1> QED
  BY <1>1 DEF ClaimRow, RowsGoOn, TypeOK, RowsTyped, Pending

\* Only enqueueing adds a row.
LEMMA RowKinds ==
    ASSUME TypeOK, RowInv, [Next]_vars
    PROVE  RowsGoOn \/ \E r \in Requests : EnqueueDeploymentOperation(r)
<1>1. CASE QuietStep
  BY <1>1 DEF QuietStep, rowVars, RowsGoOn
<1>2. ASSUME NEW w \in Workers, SelectCandidates(w) PROVE RowsGoOn
  BY <1>2 DEF SelectCandidates, rowVars, RowsGoOn
<1>3. ASSUME NEW w \in Workers, MarkDeploymentOperation(w) PROVE RowsGoOn
  <2>1. job[w] \in Ids /\ status[job[w]] = "Running"
    BY <1>3 DEF MarkDeploymentOperation, RowInv, WorkerHoldsRow, Busy, Executing, TypeOK,
       WorkersTyped
  <2>2. NextStatus(w) \in {"Completed", "Retrying", "Failed"}
    BY DEF NextStatus
  <2>3. /\ UNCHANGED request
        /\ UNCHANGED status \/ status' = [status EXCEPT ![job[w]] = NextStatus(w)]
    BY <1>3 DEF MarkDeploymentOperation
  <2> QED
    BY <2>1, <2>2, <2>3 DEF RowsGoOn, TypeOK, RowsTyped
<1>4. CASE Tick
  BY <1>4 DEF Tick, RowsGoOn
<1> QED
  BY <1>1, <1>2, <1>3, <1>4, ClaimGoesOn, StepKinds
     DEF LoudStep, ClaimNextDeploymentOperation, ClaimAnswerLost

\* A row leaves Queued only by a claim.
LEMMA ClaimedByClaim ==
    ASSUME TypeOK, RowInv, [Next]_vars, NEW i \in Ids, status[i] = "Queued",
           status'[i] # "Queued"
    PROVE  \E w \in Workers : ClaimRow(w, i)
<1>1. CASE QuietStep
  BY <1>1 DEF QuietStep, rowVars
<1>2. ASSUME NEW r \in Requests, EnqueueDeploymentOperation(r) PROVE FALSE
  BY <1>2 DEF EnqueueDeploymentOperation, TypeOK, RowsTyped
<1>3. ASSUME NEW w \in Workers, SelectCandidates(w) PROVE FALSE
  BY <1>3 DEF SelectCandidates, rowVars
<1>4. ASSUME NEW w \in Workers, NEW j \in Ids, ClaimRow(w, j) PROVE j = i
  BY <1>4 DEF ClaimRow, TypeOK, RowsTyped
<1>5. ASSUME NEW w \in Workers, MarkDeploymentOperation(w) PROVE FALSE
  <2>1. job[w] \in Ids /\ status[job[w]] = "Running"
    BY <1>5 DEF MarkDeploymentOperation, RowInv, WorkerHoldsRow, Busy, Executing, TypeOK,
       WorkersTyped
  <2>2. UNCHANGED status \/ status' = [status EXCEPT ![job[w]] = NextStatus(w)]
    BY <1>5 DEF MarkDeploymentOperation
  <2> QED
    BY <2>1, <2>2 DEF TypeOK, RowsTyped
<1>6. CASE Tick
  BY <1>6 DEF Tick
<1> QED
  BY <1>1, <1>2, <1>3, <1>4, <1>5, <1>6, StepKinds
     DEF LoudStep, ClaimNextDeploymentOperation, ClaimAnswerLost

\* A worker becomes busy only by a claim, and keeps its operation while it is.
LEMMA BusyKinds ==
    ASSUME TypeOK, [Next]_vars, NEW v \in Workers, Busy(v)'
    PROVE  \/ Busy(v) /\ job'[v] = job[v]
           \/ \E i \in Ids : ClaimNextDeploymentOperation(v, i) /\ job'[v] = i
<1> USE DEF TypeOK, WorkersTyped
<1>1. CASE QuietStep
  BY <1>1 DEF QuietStep
<1>2. ASSUME NEW r \in Requests, EnqueueDeploymentOperation(r)
      PROVE  Busy(v) /\ job'[v] = job[v]
  BY <1>2 DEF EnqueueDeploymentOperation, workerVars, Busy
<1>3. ASSUME NEW w \in Workers, SelectCandidates(w) PROVE Busy(v) /\ job'[v] = job[v]
  BY <1>3 DEF SelectCandidates, Busy, Executing
<1>4. ASSUME NEW w \in Workers, NEW i \in Ids, ClaimNextDeploymentOperation(w, i)
      PROVE  IF v = w THEN job'[v] = i ELSE Busy(v) /\ job'[v] = job[v]
  BY <1>4 DEF ClaimNextDeploymentOperation, Busy
<1>5. ASSUME NEW w \in Workers, NEW i \in Ids, ClaimAnswerLost(w, i)
      PROVE  Busy(v) /\ job'[v] = job[v]
  BY <1>5 DEF ClaimAnswerLost, Busy, Executing
<1>6. ASSUME NEW w \in Workers, MarkDeploymentOperation(w) PROVE Busy(v) /\ job'[v] = job[v]
  BY <1>6 DEF MarkDeploymentOperation, Forget, Busy, Executing
<1>7. CASE Tick
  BY <1>7 DEF Tick, workerVars, Busy
<1> QED
  BY <1>1, <1>2, <1>3, <1>4, <1>5, <1>6, <1>7, StepKinds DEF LoudStep

\* Rows are locked by a selection only.
LEMMA BatchKinds ==
    ASSUME TypeOK, [Next]_vars, NEW v \in Workers
    PROVE  batch'[v] = batch[v] \/ batch'[v] = {} \/ SelectCandidates(v)
<1> USE DEF TypeOK, WorkersTyped
<1>1. CASE QuietStep
  BY <1>1 DEF QuietStep
<1>2. ASSUME NEW r \in Requests, EnqueueDeploymentOperation(r) PROVE batch'[v] = batch[v]
  BY <1>2 DEF EnqueueDeploymentOperation, workerVars
<1>3. ASSUME NEW w \in Workers, SelectCandidates(w), v # w PROVE batch'[v] = batch[v]
  BY <1>3 DEF SelectCandidates
<1>4. ASSUME NEW w \in Workers, NEW i \in Ids, ClaimRow(w, i)
      PROVE  batch'[v] = batch[v] \/ batch'[v] = {}
  BY <1>4 DEF ClaimRow
<1>5. ASSUME NEW w \in Workers, MarkDeploymentOperation(w) PROVE batch'[v] = batch[v]
  BY <1>5 DEF MarkDeploymentOperation
<1>6. CASE Tick
  BY <1>6 DEF Tick, workerVars
<1> QED
  BY <1>1, <1>2, <1>3, <1>4, <1>5, <1>6, StepKinds
     DEF LoudStep, ClaimNextDeploymentOperation, ClaimAnswerLost

\* The image of an application and the records change with one push.
LEMMA ImageKinds ==
    ASSUME [Next]_vars
    PROVE  UNCHANGED <<image, recordEnv>> \/ \E w \in Workers : UpdateApplicationImage(w)
<1> USE DEF gitVars
<1>1. ASSUME NEW w \in Workers, Claim(w) \/ Mark(w) \/ Crash(w) \/ Restart(w)
      PROVE  UNCHANGED <<image, recordEnv>>
  BY <1>1 DEF Claim, SelectCandidates, ClaimNextDeploymentOperation, ClaimAnswerLost,
     ClaimNothing, Mark, MarkDeploymentOperation, MarkFails, Crash, Restart
<1>2. ASSUME NEW w \in Workers, Execute(w), ~UpdateApplicationImage(w)
      PROVE  UNCHANGED <<image, recordEnv>>
  BY <1>2 DEF Execute, Verify, SyncForWrite, PushFails, PatchApplication
<1>3. ASSUME \/ \E r \in Requests : \/ prepareDeploymentOperation(r)
                                  \/ EnqueueDeploymentOperation(r)
             \/ \E a \in Apps, e \in Envs : OtherWrite(a, e)
             \/ Tick \/ UNCHANGED vars
      PROVE  UNCHANGED <<image, recordEnv>>
  BY <1>3 DEF prepareDeploymentOperation, EnqueueDeploymentOperation, OtherWrite, Tick, vars
<1> QED
  BY <1>1, <1>2, <1>3 DEF Next, Work

\* There is one lock, so that at most one worker executes an operation at a time ...
LEMMA OneWorks ==
    ASSUME TypeOK, LeaseCoversLock, WorksUnderLease, ~Admits("slow"),
           NEW v \in Workers, NEW w \in Workers, Busy(v), Busy(w)
    PROVE  v = w
<1>1. Key(job[v]) = Key(job[w])
  BY BranchAssumption DEF TypeOK, WorkersTyped, Key
<1> QED
  BY <1>1, LeaseExcludes DEF WorksUnderLease, OneLiveLease

\* ... and none does when another claims one.
LEMMA NoneWorksAtClaim ==
    ASSUME TypeOK, LeaseCoversLock, WorksUnderLease, ~Admits("slow"),
           NEW w \in Workers, NEW i \in Ids, ClaimRow(w, i), NEW v \in Workers
    PROVE  ~Busy(v)
<1> SUFFICES ASSUME Busy(v) PROVE FALSE
  OBVIOUS
<1>1. i \in batch[w] /\ LockFree(Key(i), w) /\ phase[w] = "select"
  BY DEF ClaimRow, Claimable
<1>2. Key(job[v]) = Key(i)
  BY <1>1, BranchAssumption DEF TypeOK, WorkersTyped, Key
<1>3. until[job[v]] > 0 /\ until[job[v]] \in Nat
  BY DEF WorksUnderLease, TypeOK, WorkersTyped, RowsTyped
<1>4. lockOwner[Key(i)] = v /\ lockLeft[Key(i)] = until[job[v]]
  BY <1>2, <1>3 DEF LeaseCoversLock
<1>5. v = w
  BY <1>1, <1>3, <1>4 DEF LockFree
<1> QED
  BY <1>1, <1>5 DEF Busy, Executing
-----------------------------------------------------------------------------
(* Where a deployment is recorded.                                          *)

Agreed == admitted \cap {"slow", "edit", "oldread"} = {}

\* Worker v is to write an image, and found or made the environment its own.
Placed(v) == phase[v] \in {"image", "imagePush"} => env[App(job[v])] = Env(job[v])

\* A worker that goes on to write the image does so in the environment of its request.
PlacedInv ==
    Agreed =>
       /\ \A i \in Ids : recordEnv[i] # NoEnv => status[i] # "Absent" /\ recordEnv[i] = Env(i)
       /\ \A v \in Workers : Placed(v)

\* A row that is there keeps its request.
LEMMA RequestsStay ==
    ASSUME TypeOK, RowInv, [Next]_vars, NEW i \in Ids, status[i] # "Absent"
    PROVE  /\ status'[i] # "Absent" /\ request'[i] = request[i]
           /\ App(i)' = App(i) /\ Env(i)' = Env(i)
<1>1. status'[i] # "Absent" /\ request'[i] = request[i]
  <2>1. CASE RowsGoOn
    BY <2>1 DEF RowsGoOn
  <2>2. ASSUME NEW r \in Requests, EnqueueDeploymentOperation(r)
        PROVE  status'[i] # "Absent" /\ request'[i] = request[i]
    BY <2>2 DEF EnqueueDeploymentOperation, TypeOK, RowsTyped
  <2> QED
    BY <2>1, <2>2, RowKinds
<1> QED
  BY <1>1 DEF App, Env

\* A step that writes no environment and sends no worker on to its image.
LEMMA PlacedKept ==
    ASSUME TypeOK, RowInv, [Next]_vars, Agreed, PlacedInv,
           NEW w, UNCHANGED env,
           \A v \in Workers \ {w} : phase'[v] \in {"image", "imagePush"} =>
               phase[v] \in {"image", "imagePush"} /\ job'[v] = job[v],
           NEW v \in Workers, v # w
    PROVE  Placed(v)'
<1> SUFFICES ASSUME phase'[v] \in {"image", "imagePush"}
             PROVE  env'[AppOf[request'[job'[v]]]] = EnvOf[request'[job'[v]]]
  BY DEF Placed, App, Env
<1>1. phase[v] \in {"image", "imagePush"} /\ job'[v] = job[v]
  OBVIOUS
<1>2. job[v] \in Ids /\ status[job[v]] = "Running"
  BY <1>1 DEF RowInv, WorkerHoldsRow, Busy, Executing, TypeOK, WorkersTyped
<1>3. env[App(job[v])] = Env(job[v])
  BY <1>1 DEF PlacedInv, Placed
<1>4. request'[job[v]] = request[job[v]]
  BY <1>2, RequestsStay
<1> QED
  BY <1>1, <1>3, <1>4 DEF App, Env

LEMMA StepPlaced ==
    TypeOK /\ RowInv /\ LeaseCoversLock /\ WorksUnderLease /\ PlacedInv /\ [Next]_vars
        => PlacedInv'
<1> SUFFICES ASSUME TypeOK, RowInv, LeaseCoversLock, WorksUnderLease, PlacedInv,
                    [Next]_vars, Agreed
             PROVE  /\ \A i \in Ids : recordEnv'[i] # NoEnv =>
                          status'[i] # "Absent" /\ recordEnv'[i] = Env(i)'
                    /\ \A v \in Workers : Placed(v)'
  BY AdmittedIsFixed DEF PlacedInv, Agreed
<1>1. ~Admits("slow") /\ ~Admits("edit") /\ ~Admits("oldread")
  BY DEF Agreed, Admits
<1>2. ASSUME NEW v \in Workers, Busy(v)
      PROVE  /\ job[v] \in Ids /\ App(job[v]) \in Apps /\ status[job[v]] # "Absent"
             /\ request'[job[v]] = request[job[v]]
  <2>1. job[v] \in Ids /\ status[job[v]] # "Absent" /\ request[job[v]] \in Requests
    BY <1>2 DEF RowInv, WorkerHoldsRow, TypeOK, WorkersTyped
  <2> QED
    BY <2>1, RequestsStay, QueueAssumption DEF App
<1>3. ASSUME NEW i \in Ids, recordEnv'[i] # NoEnv
      PROVE  status'[i] # "Absent" /\ recordEnv'[i] = Env(i)'
  <2>1. CASE UNCHANGED <<image, recordEnv>>
    BY <1>3, <2>1, RequestsStay DEF PlacedInv
  <2>2. ASSUME NEW w \in Workers, UpdateApplicationImage(w)
        PROVE  status'[i] # "Absent" /\ recordEnv'[i] = Env(i)'
    <3>1. Busy(w) /\ env[App(job[w])] = Env(job[w])
      BY <2>2 DEF UpdateApplicationImage, PlacedInv, Placed, Busy, Executing
    <3>2. recordEnv' = [recordEnv EXCEPT ![job[w]] = env[App(job[w])]]
      BY <2>2 DEF UpdateApplicationImage
    <3>3. CASE i = job[w]
      BY <1>2, <3>1, <3>2, <3>3, RequestsStay DEF TypeOK, BranchTyped
    <3>4. CASE i # job[w]
      BY <1>3, <3>2, <3>4, RequestsStay DEF PlacedInv, TypeOK, BranchTyped
    <3> QED
      BY <3>3, <3>4
  <2> QED
    BY <2>1, <2>2, ImageKinds
<1>4. ASSUME UNCHANGED env,
             \A v \in Workers : phase'[v] \in {"image", "imagePush"} =>
                phase[v] \in {"image", "imagePush"} /\ job'[v] = job[v]
      PROVE  \A v \in Workers : Placed(v)'
  <2> SUFFICES ASSUME NEW v \in Workers PROVE Placed(v)'
    OBVIOUS
  <2>1. NoWorker \notin Workers
    BY QueueAssumption
  <2> QED
    BY <1>4, <2>1, PlacedKept
<1> USE DEF TypeOK, WorkersTyped
<1>5. ASSUME NEW w \in Workers, Verify(w) PROVE \A v \in Workers : Placed(v)'
  <2>1. UNCHANGED <<env, job, request>>
    BY <1>5 DEF Verify, gitVars, rowVars
  <2>2. \A v \in Workers \ {w} : phase'[v] = phase[v]
    BY <1>5 DEF Verify, Fails, Return
  <2>3. \A v \in Workers \ {w} : Placed(v)'
    BY <2>1, <2>2, PlacedKept
  <2>4. phase'[w] \in {"image", "imagePush"} => env[App(job[w])] = Env(job[w])
    BY <1>1, <1>5 DEF Verify, Fails, Return, AfterVerify
  <2>5. Placed(w)'
    BY <2>1, <2>4 DEF Placed, App, Env
  <2> QED
    BY <2>3, <2>5
<1>6. ASSUME NEW w \in Workers, SyncForWrite(w) PROVE \A v \in Workers : Placed(v)'
  <2>1. UNCHANGED <<env, job>>
    BY <1>6 DEF SyncForWrite, gitVars
  <2>2. \A v \in Workers : phase'[v] \in {"image", "imagePush"} =>
           phase[v] \in {"image", "imagePush"}
    BY <1>6 DEF SyncForWrite, Fails, Return
  <2> QED
    BY <1>4, <2>1, <2>2
<1>7. ASSUME NEW w \in Workers, PatchApplication(w) PROVE \A v \in Workers : Placed(v)'
  <2>1. /\ Busy(w) /\ UNCHANGED <<job, request>>
        /\ env' = [env EXCEPT ![App(job[w])] = Env(job[w])]
        /\ \A v \in Workers \ {w} : phase'[v] = phase[v]
    BY <1>7 DEF PatchApplication, PushAnswer, Return, rowVars, Busy, Executing
  <2>2. \A v \in Workers \ {w} : phase[v] \notin {"image", "imagePush"}
    BY <1>1, <2>1, OneWorks DEF Busy, Executing
  <2>3. env'[App(job[w])] = Env(job[w])
    BY <1>2, <2>1 DEF BranchTyped
  <2>4. Placed(w)'
    BY <2>1, <2>3 DEF Placed, App, Env
  <2> QED
    BY <2>1, <2>2, <2>4 DEF Placed
<1>8. ASSUME NEW w \in Workers,
             Claim(w) \/ PushFails(w) \/ UpdateApplicationImage(w) \/ Mark(w)
             \/ Crash(w) \/ Restart(w)
      PROVE  \A v \in Workers : Placed(v)'
  <2>1. UNCHANGED env
    BY <1>8 DEF Claim, SelectCandidates, ClaimNextDeploymentOperation, ClaimAnswerLost,
       ClaimNothing, PushFails, UpdateApplicationImage, Mark, MarkDeploymentOperation,
       MarkFails, Crash, Restart, gitVars
  <2>2. \A v \in Workers : phase'[v] \in {"image", "imagePush"} =>
           phase[v] \in {"image", "imagePush"} /\ job'[v] = job[v]
    <3>1. CASE Claim(w)
      BY <3>1 DEF Claim, SelectCandidates, ClaimNextDeploymentOperation, ClaimAnswerLost,
         ClaimNothing
    <3>2. CASE PushFails(w) \/ UpdateApplicationImage(w)
      BY <3>2 DEF PushFails, UpdateApplicationImage, PushAnswer, Return
    <3>3. CASE Mark(w) \/ Crash(w) \/ Restart(w)
      BY <3>3 DEF Mark, MarkDeploymentOperation, MarkFails, Forget, Crash, Restart
    <3> QED
      BY <1>8, <3>1, <3>2, <3>3
  <2> QED
    BY <1>4, <2>1, <2>2
<1>9. ASSUME \/ \E r \in Requests : \/ prepareDeploymentOperation(r)
                                  \/ EnqueueDeploymentOperation(r)
             \/ Tick \/ UNCHANGED vars
      PROVE  \A v \in Workers : Placed(v)'
  <2>1. UNCHANGED <<env, job, phase>>
    BY <1>9 DEF prepareDeploymentOperation, EnqueueDeploymentOperation, Tick, vars, workerVars, gitVars
  <2> QED
    BY <1>4, <2>1
<1>10. \A v \in Workers : Placed(v)'
  BY <1>1, <1>5, <1>6, <1>7, <1>8, <1>9 DEF Next, Work, Execute, OtherWrite
<1> QED
  BY <1>3, <1>10

\* What the queue's invariants say together of rows, locks and leases.
LeaseInv == TypeOK /\ RowInv /\ LeaseCoversLock /\ WorksUnderLease

LEMMA LeaseInvHolds == Spec => []LeaseInv
<1>1. Init => LeaseInv
  BY InitTypeOK, InitRowInv, InitLease, InitWorksUnderLease DEF LeaseInv
<1>2. TypeOK' /\ RowInv' /\ LeaseCoversLock' /\ WorksUnderLease' => LeaseInv'
  BY DEF LeaseInv
<1>3. LeaseInv /\ [Next]_vars => LeaseInv'
  BY <1>2, StepTypeOK, StepRowInv, StepLease, StepWorksUnderLease DEF LeaseInv
<1> QED
  BY <1>1, <1>3, PTL DEF Spec

\* A deployment is recorded in the environment its request asked for, when work fits in
\* its lease, nobody else switches environments and workers see what others switched:
\* only the worker that writes the image could switch the environment before it does.
THEOREM RecordsAreWhereRequested == Spec => []RecordedWhereRequested
<1>1. Init => PlacedInv
  BY DEF Init, PlacedInv, Placed
<1>2. LeaseInv /\ PlacedInv /\ [Next]_vars => PlacedInv'
  BY StepPlaced DEF LeaseInv
<1>3. PlacedInv => RecordedWhereRequested
  BY DEF PlacedInv, Agreed, RecordedWhereRequested
<1> QED
  BY <1>1, <1>2, <1>3, LeaseInvHolds, PTL DEF Spec
-----------------------------------------------------------------------------
(* The order in which an application's images are written.                  *)

\* The rows that were in the queue when the operation in row i was prepared.
Before(i) == {j \in Rows : status[i] # "Absent" /\ request[j] \in before[request[i]]}

\* Each row holds the request that names it, what was in the queue before a request stays
\* there, and an application runs the request of a row that was claimed.
ArrivalInv ==
    /\ \A i \in Ids : status[i] # "Absent" => IdOf[request[i]] = i
    /\ \A q \in Requests : \A p \in before[q] :
          p # q /\ status[IdOf[p]] # "Absent" /\ request[IdOf[p]] = p
    /\ \A a \in Apps : image[a] # NoRequest =>
          /\ IdOf[image[a]] \in Ids
          /\ request[IdOf[image[a]]] = image[a] /\ Claimed(IdOf[image[a]])

LEMMA StepArrival == TypeOK /\ RowInv /\ ArrivalInv /\ [Next]_vars => ArrivalInv'
<1> SUFFICES ASSUME TypeOK, RowInv, ArrivalInv, [Next]_vars PROVE ArrivalInv'
  OBVIOUS
<1> DEFINE Went(i) == status'[i] \notin {"Absent", "Queued"}
<1> DEFINE Shows(a) == /\ IdOf[image'[a]] \in Ids
                       /\ request'[IdOf[image'[a]]] = image'[a]
                       /\ Went(IdOf[image'[a]])
<1>1. ASSUME NEW i \in Ids, Claimed(i) PROVE Went(i) /\ request'[i] = request[i]
  <2>1. CASE RowsGoOn
    BY <1>1, <2>1, StepTypeOK DEF RowsGoOn, Claimed
  <2>2. ASSUME NEW r \in Requests, EnqueueDeploymentOperation(r)
        PROVE  Went(i) /\ request'[i] = request[i]
    BY <1>1, <2>2 DEF EnqueueDeploymentOperation, Claimed, TypeOK, RowsTyped
  <2> QED
    BY <2>1, <2>2, RowKinds
<1>2. ASSUME NEW a \in Apps, image'[a] # NoRequest PROVE Shows(a)
  <2>1. CASE image'[a] = image[a]
    <3>1. /\ IdOf[image[a]] \in Ids /\ request[IdOf[image[a]]] = image[a]
          /\ Claimed(IdOf[image[a]])
      BY <1>2, <2>1 DEF ArrivalInv
    <3>2. Went(IdOf[image[a]]) /\ request'[IdOf[image[a]]] = image[a]
      BY <3>1, <1>1
    <3> QED
      BY <2>1, <3>1, <3>2
  <2>2. ASSUME NEW w \in Workers, UpdateApplicationImage(w), image'[a] # image[a]
        PROVE  Shows(a)
    <3>1. Busy(w) /\ image' = [image EXCEPT ![App(job[w])] = request[job[w]]]
      BY <2>2 DEF UpdateApplicationImage, Busy, Executing
    <3>2. image'[a] = request[job[w]]
      BY <2>2, <3>1 DEF TypeOK, BranchTyped
    <3>3. job[w] \in Ids /\ status[job[w]] = "Running" /\ UNCHANGED <<status, request>>
      BY <2>2, <3>1 DEF RowInv, WorkerHoldsRow, TypeOK, WorkersTyped,
         UpdateApplicationImage, rowVars
    <3>4. IdOf[request[job[w]]] = job[w]
      BY <3>3 DEF ArrivalInv
    <3> QED
      BY <3>2, <3>3, <3>4
  <2> QED
    BY <1>2, <2>1, <2>2, ImageKinds
<1>a. \A a \in Apps : image'[a] # NoRequest =>
         /\ IdOf[image'[a]] \in Ids
         /\ request'[IdOf[image'[a]]] = image'[a] /\ Claimed(IdOf[image[a]])'
  BY <1>2 DEF Claimed
<1> HIDE DEF Went, Shows
<1> USE QueueAssumption DEF TypeOK, RowsTyped
<1>3. \A i \in Ids : status'[i] # "Absent" => IdOf[request'[i]] = i
  <2>1. CASE RowsGoOn
    BY <2>1 DEF ArrivalInv, RowsGoOn
  <2>2. ASSUME NEW r \in Requests, EnqueueDeploymentOperation(r)
        PROVE  \A i \in Ids : status'[i] # "Absent" => IdOf[request'[i]] = i
    BY <2>2 DEF EnqueueDeploymentOperation, ArrivalInv
  <2> QED
    BY <2>1, <2>2, RowKinds
<1>4. ASSUME NEW q \in Requests, NEW p \in before'[q]
      PROVE  p # q /\ status'[IdOf[p]] # "Absent" /\ request'[IdOf[p]] = p
  <2>1. p \in Requests /\ p # q /\ status[IdOf[p]] # "Absent" /\ request[IdOf[p]] = p
    <3>1. CASE p \in before[q]
      BY <3>1 DEF ArrivalInv, CallsTyped
    <3>2. CASE p \notin before[q]
      <4>1. ASSUME NEW r \in Requests, EnqueueDeploymentOperation(r) PROVE FALSE
        BY <1>4, <3>2, <4>1 DEF EnqueueDeploymentOperation
      <4>2. PICK r \in Requests : prepareDeploymentOperation(r)
        BY <1>4, <3>2, <4>1, CallKinds DEF callVars
      <4>3. status[IdOf[r]] = "Absent" /\ before' = [before EXCEPT ![r] = {request[i] : i \in Rows}]
        BY <4>2 DEF prepareDeploymentOperation
      <4>4. q = r /\ p \in {request[i] : i \in Rows}
        BY <1>4, <3>2, <4>3 DEF CallsTyped
      <4>5. PICK i \in Rows : p = request[i]
        BY <4>4
      <4> QED
        BY <4>3, <4>4, <4>5 DEF Rows, ArrivalInv
    <3> QED
      BY <3>1, <3>2
  <2>2. IdOf[p] \in Ids
    BY <2>1
  <2> QED
    BY <2>1, <2>2, RequestsStay
<1> QED
  BY <1>a, <1>3, <1>4 DEF ArrivalInv

\* What was in the queue before a row's request was made stays what it was.
LEMMA BeforeStays ==
    ASSUME TypeOK, RowInv, ArrivalInv, [Next]_vars, NEW i \in Ids, status[i] # "Absent"
    PROVE  Before(i)' = Before(i)
<1> USE QueueAssumption DEF TypeOK, RowsTyped
<1>1. status'[i] # "Absent" /\ request'[i] = request[i] /\ request[i] \in Requests
  BY RequestsStay
<1>2. before'[request[i]] = before[request[i]]
  <2>1. ASSUME NEW r \in Requests, prepareDeploymentOperation(r)
        PROVE  before'[request[i]] = before[request[i]]
    <3>1. status[IdOf[r]] = "Absent" /\ before' = [before EXCEPT ![r] = {request[j] : j \in Rows}]
      BY <2>1 DEF prepareDeploymentOperation
    <3>2. request[i] # r
      BY <3>1 DEF ArrivalInv
    <3> QED
      BY <1>1, <3>1, <3>2 DEF CallsTyped
  <2>2. ASSUME NEW r \in Requests, EnqueueDeploymentOperation(r)
        PROVE  before'[request[i]] = before[request[i]]
    BY <2>2 DEF EnqueueDeploymentOperation
  <2> QED
    BY <2>1, <2>2, CallKinds DEF callVars
<1>3. ASSUME NEW j \in Ids, status[j] # "Absent"
      PROVE  status'[j] # "Absent" /\ request'[j] = request[j]
  BY <1>3, RequestsStay
<1>4. ASSUME NEW j \in Ids, status'[j] # "Absent", request'[j] \in before[request[i]]
      PROVE  status[j] # "Absent"
  <2>1. IdOf[request'[j]] = j
    BY <1>4, StepArrival DEF ArrivalInv
  <2> QED
    BY <1>1, <1>4, <2>1 DEF ArrivalInv
<1>5. Before(i) = {j \in Ids : status[j] # "Absent" /\ request[j] \in before[request[i]]}
  BY DEF Before, Rows
<1>6. Before(i)' = {j \in Ids : status'[j] # "Absent" /\ request'[j] \in before[request[i]]}
  BY <1>1, <1>2 DEF Before, Rows
<1> QED
  BY <1>3, <1>4, <1>5, <1>6

Calm == admitted \subseteq {"permanent", "db", "crash"}

\* Nothing is tried again: no attempt fails for a transient error, and none is refused
\* because the branch has moved, as only the one that works moves it.
CalmInv ==
    Calm =>
       /\ \A i \in Ids : status[i] # "Retrying" /\ wait[i] = 0
       /\ \A w \in Workers :
             /\ outcome[w] # "retryable"
             /\ phase[w] \in {"patchPush", "imagePush"} => ~stale[w]

LEMMA StepCalm ==
    TypeOK /\ RowInv /\ LeaseCoversLock /\ WorksUnderLease /\ CalmInv /\ [Next]_vars
        => CalmInv'
<1> SUFFICES ASSUME TypeOK, RowInv, LeaseCoversLock, WorksUnderLease, CalmInv,
                    [Next]_vars, Calm
             PROVE  /\ \A i \in Ids : status'[i] # "Retrying" /\ wait'[i] = 0
                    /\ \A w \in Workers :
                          /\ outcome'[w] # "retryable"
                          /\ phase'[w] \in {"patchPush", "imagePush"} => ~stale'[w]
  BY AdmittedIsFixed DEF CalmInv, Calm
<1>1. ~Admits("slow") /\ ~Admits("edit") /\ ~Admits("retryable") /\ ~Admits("pushlost")
  BY DEF Calm, Admits
<1>2. /\ \A i \in Ids : status[i] # "Retrying" /\ wait[i] = 0
      /\ \A w \in Workers :
            /\ outcome[w] # "retryable"
            /\ phase[w] \in {"patchPush", "imagePush"} => ~stale[w]
  BY DEF CalmInv
<1> USE DEF TypeOK, RowsTyped, WorkersTyped
<1>3. \A i \in Ids : status'[i] # "Retrying" /\ wait'[i] = 0
  <2>1. CASE QuietStep
    BY <1>2, <2>1 DEF QuietStep, rowVars
  <2>2. ASSUME NEW r \in Requests, EnqueueDeploymentOperation(r)
        PROVE  \A i \in Ids : status'[i] # "Retrying" /\ wait'[i] = 0
    BY <1>2, <2>2 DEF EnqueueDeploymentOperation
  <2>3. ASSUME NEW w \in Workers, SelectCandidates(w)
        PROVE  \A i \in Ids : status'[i] # "Retrying" /\ wait'[i] = 0
    BY <1>2, <2>3 DEF SelectCandidates, rowVars
  <2>4. ASSUME NEW w \in Workers, NEW j \in Ids, ClaimRow(w, j)
        PROVE  \A i \in Ids : status'[i] # "Retrying" /\ wait'[i] = 0
    BY <1>2, <2>4 DEF ClaimRow
  <2>5. ASSUME NEW w \in Workers, MarkDeploymentOperation(w)
        PROVE  \A i \in Ids : status'[i] # "Retrying" /\ wait'[i] = 0
    <3>1. ~Retryable(w) /\ NextStatus(w) \in {"Completed", "Failed"}
      BY <1>2 DEF Retryable, NextStatus
    <3>2. UNCHANGED status \/ status' = [status EXCEPT ![job[w]] = NextStatus(w)]
      BY <2>5 DEF MarkDeploymentOperation
    <3>3. UNCHANGED wait \/ wait' = [wait EXCEPT ![job[w]] = wait[job[w]]]
      BY <2>5, <3>1 DEF MarkDeploymentOperation
    <3> QED
      BY <1>2, <3>1, <3>2, <3>3
  <2>6. CASE Tick
    BY <1>2, <2>6 DEF Tick, Less
  <2> QED
    BY <2>1, <2>2, <2>3, <2>4, <2>5, <2>6, StepKinds
       DEF LoudStep, ClaimNextDeploymentOperation, ClaimAnswerLost
<1> DEFINE Goal == \A v \in Workers :
               /\ outcome'[v] # "retryable"
               /\ phase'[v] \in {"patchPush", "imagePush"} => ~stale'[v]
<1>4. ASSUME NEW w \in Workers, Claim(w) \/ Mark(w) \/ Crash(w) \/ Restart(w) PROVE Goal
  <2>1. CASE Claim(w)
    BY <1>2, <2>1 DEF Claim, SelectCandidates, ClaimNextDeploymentOperation,
       ClaimAnswerLost, ClaimNothing
  <2>2. CASE Mark(w) \/ Crash(w) \/ Restart(w)
    BY <1>2, <2>2 DEF Mark, MarkDeploymentOperation, MarkFails, Crash, Restart, Forget
  <2> QED
    BY <1>4, <2>1, <2>2
<1>5. ASSUME NEW w \in Workers, Verify(w) \/ SyncForWrite(w) PROVE Goal
  <2>1. CASE Verify(w)
    BY <1>1, <1>2, <2>1 DEF Verify, Fails, Return, AfterVerify
  <2>2. CASE SyncForWrite(w)
    BY <1>1, <1>2, <2>2 DEF SyncForWrite, Fails, Return
  <2> QED
    BY <1>5, <2>1, <2>2
<1>6. ASSUME NEW w \in Workers, PushFails(w) PROVE FALSE
  BY <1>1, <1>2, <1>6 DEF PushFails
<1>7. ASSUME NEW w \in Workers, PatchApplication(w) \/ UpdateApplicationImage(w) PROVE Goal
  <2>1. /\ Busy(w)
        /\ \E next \in {"image", "mark"}, result \in {"none", "ok"} :
              phase' = [phase EXCEPT ![w] = next] /\ outcome' = [outcome EXCEPT ![w] = result]
    BY <1>1, <1>7 DEF PatchApplication, UpdateApplicationImage, PushAnswer, Busy, Executing
  <2>2. \A v \in Workers \ {w} : phase[v] \notin {"patchPush", "imagePush"}
    BY <1>1, <2>1, OneWorks DEF Busy, Executing
  <2> QED
    BY <1>2, <2>1, <2>2
<1>8. ASSUME \/ \E r \in Requests : \/ prepareDeploymentOperation(r)
                                  \/ EnqueueDeploymentOperation(r)
             \/ Tick \/ UNCHANGED vars
      PROVE  Goal
  BY <1>2, <1>8 DEF prepareDeploymentOperation, EnqueueDeploymentOperation, Tick, vars, workerVars
<1> HIDE DEF Goal
<1>9. Goal
  BY <1>1, <1>4, <1>5, <1>6, <1>7, <1>8 DEF Next, Work, Execute, OtherWrite
<1> QED
  BY <1>3, <1>9 DEF Goal

\* Unless claims overlap, a transaction that holds a row holds the ones before it
\* that wait, a row is not claimed before those, and what came after the operation that is
\* worked on still waits.
TurnInv ==
    Calm =>
       /\ \A w \in Workers : \A i \in batch[w] : \A j \in Before(i) :
             Pending(j) => j \in batch[w]
       /\ \A i \in Ids : Claimed(i) => \A j \in Before(i) : status[j] # "Queued"
       /\ \A w \in Workers : Busy(w) =>
             \A k \in Ids : job[w] \in Before(k) => status[k] = "Queued"

\* Rows are selected in the order of their times.
LEMMA SelectsInTurn ==
    ASSUME TypeOK, CalmInv, Calm, NEW w \in Workers, SelectCandidates(w),
           NEW i \in batch'[w], NEW j \in Before(i), Pending(j)
    PROVE  j \in batch'[w]
<1>1. Locked = {}
  BY DEF SelectCandidates, Calm, Admits
<1>2. PICK B \in SUBSET {k \in Ids \ Locked : Due(k)} :
         /\ IsOldest(B, {k \in Ids \ Locked : Due(k)})
         /\ batch' = [batch EXCEPT ![w] = B]
  BY DEF SelectCandidates
<1>3. batch'[w] = B
  BY <1>2 DEF TypeOK, WorkersTyped
<1>4. i \in Ids /\ j \in Ids /\ j \in Earlier(i)
  BY <1>2, <1>3 DEF Before, Earlier, Rows
<1>5. Due(j)
  BY <1>4 DEF CalmInv, Due
<1> QED
  BY <1>1, <1>2, <1>3, <1>4, <1>5 DEF IsOldest

\* Nor is a row claimed before one that was there before it.
LEMMA ClaimsInTurn ==
    ASSUME TypeOK, RowInv, ArrivalInv, Calm, TurnInv,
           NEW w \in Workers, NEW i \in Ids, ClaimRow(w, i), NEW j \in Before(i)
    PROVE  status[j] # "Queued"
<1> SUFFICES ASSUME status[j] = "Queued" PROVE FALSE
  OBVIOUS
<1>1. i \in batch[w] /\ LockFree(Key(i), w) /\ j \notin Claimable(w)
  BY DEF ClaimRow, Claimable, Before, Earlier
<1>2. j \in batch[w]
  BY <1>1 DEF TurnInv, Pending
<1>3. Key(j) = Key(i)
  BY <1>1, <1>2, BranchAssumption DEF TypeOK, WorkersTyped, Key
<1> QED
  BY <1>1, <1>2, <1>3 DEF Claimable

LEMMA StepTurn ==
    TypeOK /\ RowInv /\ LeaseCoversLock /\ WorksUnderLease /\ ArrivalInv /\ CalmInv
    /\ TurnInv /\ [Next]_vars
        => TurnInv'
<1> SUFFICES ASSUME TypeOK, RowInv, LeaseCoversLock, WorksUnderLease, ArrivalInv, CalmInv,
                    TurnInv, [Next]_vars, Calm
             PROVE  /\ \A w \in Workers : \A i \in batch'[w] : \A j \in Before(i)' :
                          Pending(j)' => j \in batch'[w]
                    /\ \A i \in Ids : Claimed(i)' =>
                          \A j \in Before(i)' : status'[j] # "Queued"
                    /\ \A w \in Workers : Busy(w)' =>
                          \A k \in Ids : job'[w] \in Before(k)' => status'[k] = "Queued"
  BY AdmittedIsFixed DEF TurnInv, Calm
<1>1. ~Admits("slow")
  BY DEF Calm, Admits
<1>2. \A i \in Ids : \A j \in Before(i) :
         j \in Ids /\ j # i /\ status[i] # "Absent" /\ status[j] # "Absent"
  BY DEF ArrivalInv, Before, Rows, TypeOK, RowsTyped
<1>3. \A w \in Workers : \A i \in batch[w] : i \in Ids /\ status[i] \in {"Queued", "Retrying"}
  BY DEF RowInv, BatchesAreDisjoint, Pending, TypeOK, WorkersTyped
<1>4. \A i \in Ids : status[i] # "Retrying" /\ status'[i] # "Retrying"
  BY StepCalm, AdmittedIsFixed DEF CalmInv, Calm
<1>5. ASSUME NEW r \in Requests, EnqueueDeploymentOperation(r)
      PROVE  /\ UNCHANGED <<job, phase, batch>>
             /\ \A i \in Ids : \/ status'[i] = status[i]
                              \/ (status[i] = "Absent" /\ status'[i] = "Queued")
  BY <1>5 DEF EnqueueDeploymentOperation, workerVars, TypeOK, RowsTyped
<1>b. \A i \in Ids : status[i] # "Absent" => Before(i)' = Before(i)
  BY BeforeStays
<1>w. ASSUME NEW j \in Ids, status[j] # "Absent", status'[j] = "Queued"
      PROVE  status[j] = "Queued"
  BY <1>w, <1>5, RowKinds DEF RowsGoOn
<1>6. ASSUME NEW w \in Workers, NEW i \in batch'[w], NEW j \in Before(i)', Pending(j)'
      PROVE  j \in batch'[w]
  <2>1. i \in Ids /\ status[i] # "Absent"
    <3>1. CASE SelectCandidates(w)
      BY <3>1 DEF SelectCandidates, Due, Pending, TypeOK, WorkersTyped
    <3>2. CASE batch'[w] = batch[w]
      BY <1>3, <3>2
    <3> QED
      BY <3>1, <3>2, BatchKinds
  <2>2. j \in Before(i) /\ j \in Ids /\ status[j] # "Absent"
    BY <1>2, <1>b, <2>1
  <2>3. status'[j] = "Queued"
    BY <1>4, <1>6, <2>2 DEF Pending
  <2>4. Pending(j)
    BY <1>w, <2>2, <2>3 DEF Pending
  <2>5. CASE SelectCandidates(w)
    BY <2>2, <2>4, <2>5, SelectsInTurn
  <2>6. CASE batch'[w] = batch[w]
    BY <2>2, <2>4, <2>6 DEF TurnInv
  <2> QED
    BY <2>5, <2>6, BatchKinds
<1>7. ASSUME NEW i \in Ids, Claimed(i)', NEW j \in Before(i)'
      PROVE  status'[j] # "Queued"
  <2>1. status'[i] \notin {"Absent", "Queued"}
    BY <1>7 DEF Claimed
  <2>2. status[i] # "Absent"
    BY <1>5, <2>1, RowKinds DEF RowsGoOn
  <2>3. j \in Before(i) /\ j \in Ids /\ status[j] # "Absent"
    BY <1>2, <1>b, <2>2
  <2>4. CASE status[i] = "Queued"
    <3>1. PICK w \in Workers : ClaimRow(w, i)
      BY <2>1, <2>4, ClaimedByClaim
    <3>2. status[j] # "Queued"
      BY <2>3, <3>1, ClaimsInTurn
    <3> QED
      BY <1>w, <2>3, <3>2
  <2>5. CASE status[i] # "Queued"
    <3>1. status[j] # "Queued"
      BY <2>2, <2>3, <2>5 DEF TurnInv, Claimed
    <3> QED
      BY <1>w, <2>3, <3>1
  <2> QED
    BY <2>4, <2>5
<1>8. ASSUME NEW w \in Workers, Busy(w)', NEW k \in Ids, job'[w] \in Before(k)'
      PROVE  status'[k] = "Queued"
  <2>1. CASE status[k] = "Absent"
    <3>1. status'[k] # "Absent"
      BY <1>8 DEF Before, Rows
    <3> QED
      BY <1>5, <2>1, <3>1, RowKinds DEF RowsGoOn
  <2>2. CASE status[k] # "Absent"
    <3>1. job'[w] \in Before(k)
      BY <1>8, <1>b, <2>2
    <3>2. CASE Busy(w) /\ job'[w] = job[w]
      <4>1. status[k] = "Queued"
        BY <3>1, <3>2 DEF TurnInv
      <4>2. ASSUME NEW v \in Workers, ClaimRow(v, k) PROVE FALSE
        BY <1>1, <3>2, <4>2, NoneWorksAtClaim
      <4> QED
        BY <4>1, <4>2, ClaimedByClaim
    <3>3. ASSUME NEW i \in Ids, ClaimNextDeploymentOperation(w, i), job'[w] = i
          PROVE  status'[k] = "Queued"
      <4>1. ClaimRow(w, i) /\ status' = [status EXCEPT ![i] = "Running"]
        BY <3>3 DEF ClaimNextDeploymentOperation, ClaimRow
      <4>2. i \in Before(k) /\ k # i
        BY <1>2, <3>1, <3>3
      <4>3. status[i] = "Queued"
        BY <1>3, <1>4, <4>1 DEF ClaimRow, Claimable
      <4>4. status[k] = "Queued"
        BY <2>2, <4>2, <4>3 DEF TurnInv, Claimed
      <4> QED
        BY <4>1, <4>2, <4>4 DEF TypeOK, RowsTyped
    <3> QED
      BY <1>8, <3>2, <3>3, BusyKinds
  <2> QED
    BY <2>1, <2>2
<1> QED
  BY <1>6, <1>7, <1>8

\* What decides the order of an application's images.
OrderInv == ArrivalInv /\ CalmInv /\ TurnInv

\* Only the worker at work writes an image, and the requests that were made when its own
\* was in the queue are still to be claimed.
LEMMA NoneOvertakes ==
    LeaseInv /\ OrderInv /\ Calm /\ [Next]_vars => ~Overtakes
<1> SUFFICES ASSUME LeaseInv, OrderInv, Calm, [Next]_vars, Overtakes PROVE FALSE
  OBVIOUS
<1>1. PICK a \in Apps : /\ image'[a] # image[a] /\ image[a] # NoRequest
                        /\ image'[a] \in before[image[a]]
  BY DEF Overtakes
<1>2. PICK w \in Workers : UpdateApplicationImage(w)
  BY <1>1, ImageKinds
<1> DEFINE i == job[w]
           j == IdOf[image[a]]
<1>3. /\ Busy(w) /\ i \in Ids /\ status[i] = "Running"
      /\ image' = [image EXCEPT ![App(i)] = request[i]]
  BY <1>2 DEF UpdateApplicationImage, Busy, Executing, LeaseInv, RowInv, WorkerHoldsRow,
     TypeOK, WorkersTyped
<1>4. image'[a] = request[i] /\ IdOf[request[i]] = i
  BY <1>1, <1>3 DEF LeaseInv, OrderInv, ArrivalInv, TypeOK, BranchTyped
<1>5. j \in Ids /\ request[j] = image[a] /\ Claimed(j)
  BY <1>1 DEF OrderInv, ArrivalInv
<1>7. i \in Before(j)
  BY <1>1, <1>3, <1>4, <1>5 DEF Before, Rows, Claimed
<1>8. status[j] = "Queued"
  BY <1>3, <1>5, <1>7 DEF OrderInv, TurnInv
<1> QED
  BY <1>5, <1>8 DEF Claimed

\* The desired state of an application does not go back to a request that was in the queue
\* before the one it runs was made, when no attempt is retried, work fits in its lease and
\* claims do not overlap: one worker works at a time, on the oldest request that waits, and
\* what is inserted late (deployment_operations_mariadb.go:94) was in no queue before.
THEOREM ImagesKeepOrder == Spec => WritesKeepOrderIfUndisturbed
<1>1. Init => OrderInv
  BY DEF Init, OrderInv, ArrivalInv, CalmInv, TurnInv, Claimed, Busy, Executing
<1>2. ArrivalInv' /\ CalmInv' /\ TurnInv' => OrderInv'
  BY DEF OrderInv
<1>3. LeaseInv /\ OrderInv /\ [Next]_vars => OrderInv'
  BY <1>2, StepArrival, StepCalm, StepTurn DEF LeaseInv, OrderInv
<1>4. LeaseInv /\ OrderInv /\ [Next]_vars
         => (admitted \subseteq {"permanent", "db", "crash"} => ~Overtakes)
  BY NoneOvertakes DEF Calm
<1> QED
  BY <1>1, <1>3, <1>4, LeaseInvHolds, PTL DEF Spec, WritesKeepOrderIfUndisturbed
-----------------------------------------------------------------------------
(* Which rows are worked on.                                                *)

\* A worker at work stays so until it records the result, unless it stops or the
\* database does not answer.
LEMMA BusyStays ==
    ASSUME TypeOK, [Next]_vars, ~Admits("db"), ~Admits("crash"),
           NEW v \in Workers, Busy(v), ~MarkDeploymentOperation(v)
    PROVE  Busy(v)' /\ job'[v] = job[v]
<1> USE DEF TypeOK, WorkersTyped
<1>1. ASSUME NEW w \in Workers, Claim(w) PROVE Busy(v)' /\ job'[v] = job[v]
  <2>1. w # v
    BY <1>1 DEF Claim, SelectCandidates, ClaimNextDeploymentOperation, ClaimAnswerLost,
       ClaimRow, ClaimNothing, Busy, Executing
  <2>2. phase'[v] = phase[v] /\ job'[v] = job[v]
    BY <1>1, <2>1 DEF Claim, SelectCandidates, ClaimNextDeploymentOperation,
       ClaimAnswerLost, ClaimNothing
  <2> QED
    BY <2>2 DEF Busy
<1>2. ASSUME NEW w \in Workers, Execute(w) PROVE Busy(v)' /\ job'[v] = job[v]
  <2>1. UNCHANGED job /\ \E p \in Executing : phase' = [phase EXCEPT ![w] = p]
    BY <1>2 DEF Execute, Verify, AfterVerify, SyncForWrite, PushFails, PatchApplication,
       UpdateApplicationImage, PushAnswer, Fails, Return, Executing
  <2> QED
    BY <2>1 DEF Busy
<1>3. ASSUME NEW w \in Workers, Mark(w) PROVE Busy(v)' /\ job'[v] = job[v]
  <2>1. MarkDeploymentOperation(w) /\ w # v
    BY <1>3 DEF Mark, MarkFails, FaultLeft
  <2> QED
    BY <2>1 DEF MarkDeploymentOperation, Forget, Busy
<1>4. ASSUME NEW w \in Workers, Crash(w) \/ Restart(w) PROVE Busy(v)' /\ job'[v] = job[v]
  BY <1>4 DEF Crash, FaultLeft, Restart, Busy, Executing
<1>5. ASSUME \/ \E r \in Requests : \/ prepareDeploymentOperation(r)
                                  \/ EnqueueDeploymentOperation(r)
             \/ \E a \in Apps, e \in Envs : OtherWrite(a, e)
             \/ Tick \/ UNCHANGED vars
      PROVE  Busy(v)' /\ job'[v] = job[v]
  BY <1>5 DEF prepareDeploymentOperation, EnqueueDeploymentOperation, OtherWrite, Tick, vars, workerVars, Busy
<1> QED
  BY <1>1, <1>2, <1>3, <1>4, <1>5 DEF Next, Work

\* Nothing but a claim makes a row Running.
LEMMA RunningByClaim ==
    ASSUME TypeOK, [Next]_vars, ~Admits("db"), NEW i \in Ids,
           status'[i] = "Running", status[i] # "Running"
    PROVE  \E w \in Workers : ClaimNextDeploymentOperation(w, i)
<1> USE DEF TypeOK, RowsTyped
<1>1. CASE QuietStep
  BY <1>1 DEF QuietStep, rowVars
<1>2. ASSUME NEW r \in Requests, EnqueueDeploymentOperation(r) PROVE FALSE
  BY <1>2 DEF EnqueueDeploymentOperation
<1>3. ASSUME NEW w \in Workers, SelectCandidates(w) PROVE FALSE
  BY <1>3 DEF SelectCandidates, rowVars
<1>4. ASSUME NEW w \in Workers, NEW j \in Ids, ClaimNextDeploymentOperation(w, j)
      PROVE  j = i
  BY <1>4 DEF ClaimNextDeploymentOperation, ClaimRow
<1>5. ASSUME NEW w \in Workers, NEW j \in Ids, ClaimAnswerLost(w, j) PROVE FALSE
  BY <1>5 DEF ClaimAnswerLost, FaultLeft
<1>6. ASSUME NEW w \in Workers, MarkDeploymentOperation(w) PROVE FALSE
  <2>1. UNCHANGED status \/ status' = [status EXCEPT ![job[w]] = NextStatus(w)]
    BY <1>6 DEF MarkDeploymentOperation
  <2>2. NextStatus(w) # "Running"
    BY DEF NextStatus
  <2> QED
    BY <2>1, <2>2
<1>7. CASE Tick
  BY <1>7 DEF Tick
<1> QED
  BY <1>1, <1>2, <1>3, <1>4, <1>5, <1>6, <1>7, StepKinds DEF LoudStep

LEMMA StepWorkedOn ==
    TypeOK /\ RowInv /\ RunningIsWorkedOn /\ [Next]_vars => RunningIsWorkedOn'
<1> SUFFICES ASSUME TypeOK, RowInv, RunningIsWorkedOn, [Next]_vars,
                    admitted \cap {"db", "crash"} = {},
                    NEW i \in Ids, status'[i] = "Running"
             PROVE  \E w \in Workers : Busy(w)' /\ job'[w] = i
  BY AdmittedIsFixed DEF RunningIsWorkedOn
<1>1. ~Admits("db") /\ ~Admits("crash")
  BY DEF Admits
<1>2. CASE status[i] = "Running"
  <2>1. PICK w \in Workers : Busy(w) /\ job[w] = i
    BY <1>2 DEF RunningIsWorkedOn
  <2>2. ASSUME MarkDeploymentOperation(w) PROVE FALSE
    <3>1. owner[i] = w
      BY <2>1 DEF RowInv, WorkerHoldsRow
    <3>2. status' = [status EXCEPT ![i] = NextStatus(w)]
      BY <2>1, <2>2, <3>1 DEF MarkDeploymentOperation
    <3>3. NextStatus(w) # "Running"
      BY DEF NextStatus
    <3> QED
      BY <3>2, <3>3 DEF TypeOK, RowsTyped
  <2> QED
    BY <1>1, <2>1, <2>2, BusyStays
<1>3. CASE status[i] # "Running"
  <2>1. PICK w \in Workers : ClaimNextDeploymentOperation(w, i)
    BY <1>1, <1>3, RunningByClaim
  <2> QED
    BY <2>1 DEF ClaimNextDeploymentOperation, Busy, Executing, TypeOK, WorkersTyped
<1> QED
  BY <1>2, <1>3

\* While no process stops and the database answers, every operation that is Running is
\* worked on: errors, refused pushes and leases that run out leave none behind.
THEOREM RunningAreWorkedOn == Spec => []RunningIsWorkedOn
<1>1. Init => RunningIsWorkedOn
  BY DEF Init, RunningIsWorkedOn
<1>2. LeaseInv /\ RunningIsWorkedOn /\ [Next]_vars => RunningIsWorkedOn'
  BY StepWorkedOn DEF LeaseInv
<1> QED
  BY <1>1, <1>2, LeaseInvHolds, PTL DEF Spec
=============================================================================
