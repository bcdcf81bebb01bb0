----------------------- MODULE DeploymentHistoryProofs -----------------------
(***************************************************************************)
(* The reads of the history leave the queue alone, and what a finished     *)
(* read has told stays true of the operations that were there before it.   *)
(***************************************************************************)
EXTENDS DeploymentHistory, DeploymentQueueProofs

\* A step of a read is none of the queue's.
LEMMA ReadsLeaveTheQueue ==
    ASSUME [HistoryNext]_<<vars, readVars>>
    PROVE  [Next]_vars
<1>1. CASE RefreshWorktree \/ ReadsGitFirst
  BY <1>1 DEF RefreshWorktree, ReadsGitFirst, BeginRead
<1>2. CASE ListDeployments \/ GetDeployment \/ ReturnAnswer
  BY <1>2 DEF ListDeployments, GetDeployment, EndRead, ReturnAnswer
<1> QED
  BY <1>1, <1>2 DEF HistoryNext

\* Under the reads the queue does what it does alone, so that every theorem about it
\* holds beside them (ListDeployments, service.go:1685, and GetDeployment only read).
THEOREM ReadsOnlyRead == HistorySpec => Spec
<1>1. HistoryInit => Init
  BY DEF HistoryInit
<1>2. [HistoryNext]_<<vars, readVars>> => [Next]_vars
  BY ReadsLeaveTheQueue
<1> QED
  BY <1>1, <1>2, PTL DEF HistorySpec, Spec

\* A row that is there stays there, and what the queue has completed stays completed.
LEMMA CompletedStays ==
    ASSUME TypeOK, RowInv, [Next]_vars, NEW i \in Ids
    PROVE  /\ status[i] # "Absent" => status'[i] # "Absent"
           /\ status[i] = "Completed" => status'[i] = "Completed"
<1>1. status[i] # "Absent" => status'[i] # "Absent"
  BY RequestsStay
<1>2. ASSUME status[i] = "Completed" PROVE status'[i] = "Completed"
  <2>1. CASE QuietStep
    BY <1>2, <2>1 DEF QuietStep, rowVars
  <2>2. ASSUME NEW r \in Requests, EnqueueDeploymentOperation(r)
        PROVE  status'[i] = "Completed"
    BY <1>2, <2>2 DEF EnqueueDeploymentOperation, TypeOK, RowsTyped
  <2>3. ASSUME NEW w \in Workers, SelectCandidates(w) PROVE status'[i] = "Completed"
    BY <1>2, <2>3 DEF SelectCandidates, rowVars
  <2>4. ASSUME NEW w \in Workers, NEW j \in Ids, ClaimRow(w, j)
        PROVE  status'[i] = "Completed"
    <3>1. Pending(j) /\ status' = [status EXCEPT ![j] = "Running"]
      BY <2>4 DEF ClaimRow, Claimable, RowInv, BatchesAreDisjoint
    <3> QED
      BY <1>2, <3>1 DEF Pending, TypeOK, RowsTyped
  <2>5. ASSUME NEW w \in Workers, MarkDeploymentOperation(w)
        PROVE  status'[i] = "Completed"
    <3>1. job[w] \in Ids /\ status[job[w]] = "Running"
      BY <2>5 DEF MarkDeploymentOperation, RowInv, WorkerHoldsRow, Busy, Executing, TypeOK,
         WorkersTyped
    <3>2. UNCHANGED status \/ status' = [status EXCEPT ![job[w]] = NextStatus(w)]
      BY <2>5 DEF MarkDeploymentOperation
    <3> QED
      BY <1>2, <3>1, <3>2 DEF TypeOK, RowsTyped
  <2>6. CASE Tick
    BY <1>2, <2>6 DEF Tick
  <2> QED
    BY <2>1, <2>2, <2>3, <2>4, <2>5, <2>6, StepKinds
       DEF LoudStep, ClaimNextDeploymentOperation, ClaimAnswerLost
<1> QED
  BY <1>1, <1>2

\* A read that has begun remembers rows that are still there, and asks for one of them
\* or for all.
ReadInv ==
    /\ known \subseteq Enqueued
    /\ reading \in {"none", "list", "get", "done"}
    /\ reading = "list" => asked = NoId
    /\ reading = "get" => asked \in Ids
    /\ AnswersAreComplete

LEMMA StepRead ==
    TypeOK /\ RowInv /\ ReadInv /\ [HistoryNext]_<<vars, readVars>> => ReadInv'
<1> SUFFICES ASSUME TypeOK, RowInv, ReadInv, [HistoryNext]_<<vars, readVars>>
             PROVE  ReadInv'
  OBVIOUS
<1>1. \A i \in Ids : /\ status[i] # "Absent" => status'[i] # "Absent"
                     /\ status[i] = "Completed" => status'[i] = "Completed"
  BY CompletedStays, ReadsLeaveTheQueue
<1>2. known \subseteq Ids
  BY DEF ReadInv, Enqueued
<1>3. CASE UNCHANGED readVars
  <2>1. known' \subseteq Enqueued'
    BY <1>1, <1>2, <1>3 DEF ReadInv, Enqueued, readVars
  <2>2. AnswersAreComplete'
    BY <1>1, <1>2, <1>3 DEF ReadInv, AnswersAreComplete, readVars
  <2> QED
    BY <1>3, <2>1, <2>2 DEF ReadInv, readVars
<1>4. CASE RefreshWorktree
  <2>1. UNCHANGED <<status, reading, known, asked, answer>>
    BY <1>4 DEF RefreshWorktree, vars, rowVars
  <2>2. known' \subseteq Enqueued' /\ AnswersAreComplete'
    BY <2>1 DEF ReadInv, AnswersAreComplete, Enqueued
  <2> QED
    BY <2>1, <2>2 DEF ReadInv
<1>5. CASE ReadsGitFirst
  <2>1. /\ known' = Enqueued /\ UNCHANGED status
        /\ \/ reading' = "list" /\ asked' = NoId
           \/ reading' = "get" /\ asked' \in Ids
    BY <1>5 DEF ReadsGitFirst, BeginRead, vars, rowVars
  <2>2. known' \subseteq Enqueued' /\ AnswersAreComplete'
    BY <2>1 DEF AnswersAreComplete, Enqueued
  <2> QED
    BY <2>1, <2>2, QueueAssumption DEF ReadInv
<1>6. CASE ListDeployments
  <2>1. /\ reading' = "done" /\ asked' = NoId /\ UNCHANGED <<status, known>>
        /\ answer' = fromGit \cup {i \in Enqueued : status[i] # "Completed"}
    BY <1>6 DEF ListDeployments, ListDeploymentOperationRecords, EndRead, ReadInv, vars,
       rowVars
  <2>2. known' \subseteq Enqueued'
    BY <2>1 DEF ReadInv, Enqueued
  <2>3. \A i \in known' \ answer' : status'[i] = "Completed"
    BY <2>1 DEF ReadInv
  <2> QED
    BY <2>1, <2>2, <2>3 DEF ReadInv, AnswersAreComplete
<1>7. CASE GetDeployment
  <2>1. /\ reading' = "done" /\ asked' = asked /\ asked \in Ids
        /\ UNCHANGED <<status, known>>
        /\ answer' = IF asked \in fromGit THEN {asked} ELSE Enqueued \cap {asked}
    BY <1>7 DEF GetDeployment, GetDeploymentOperationRecord, EndRead, ReadInv, vars, rowVars
  <2>2. known' \subseteq Enqueued' /\ asked' # NoId
    BY <2>1, QueueAssumption DEF ReadInv, Enqueued
  <2>3. asked' \in known' => answer' = {asked'}
    BY <2>1 DEF ReadInv
  <2> QED
    BY <2>1, <2>2, <2>3 DEF ReadInv, AnswersAreComplete
<1>8. CASE ReturnAnswer
  <2>1. reading' = "none" /\ known' = {}
    BY <1>8 DEF ReturnAnswer
  <2> QED
    BY <2>1 DEF ReadInv, AnswersAreComplete
<1> QED
  BY <1>3, <1>4, <1>5, <1>6, <1>7, <1>8 DEF HistoryNext

\* A read finds the operation it asks for, and a listing tells of each that is not done,
\* whatever the queue does between its two steps and however old the worktree is
\* (service.go:1715): rows are never deleted, and one that a listing left out as
\* completed is never taken up again.
THEOREM ReadsAreComplete == HistorySpec => []AnswersAreComplete
<1>1. HistoryInit => ReadInv
  BY DEF HistoryInit, ReadInv, AnswersAreComplete
<1>2. LeaseInv /\ ReadInv /\ [HistoryNext]_<<vars, readVars>> => ReadInv'
  BY StepRead DEF LeaseInv
<1>3. ReadInv => AnswersAreComplete
  BY DEF ReadInv
<1> QED
  BY <1>1, <1>2, <1>3, ReadsOnlyRead, LeaseInvHolds, PTL DEF HistorySpec
=============================================================================
