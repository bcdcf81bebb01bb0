-------------------------- MODULE DeploymentHistory --------------------------
(***************************************************************************)
(* The reads behind an application's deployment history, composed with the *)
(* queue.  A process reads Git records from its own worktree, which trails *)
(* the branch until a sync, and then, in a second step, the queue's rows.  *)
(***************************************************************************)
EXTENDS DeploymentQueue

CONSTANT ReadIn     \* bound: the scenarios in which somebody reads the history

VARIABLES
    worktree,   \* the records in the worktree of the process that reads
    reading,    \* "none", or the read that is between its two steps
    fromGit,    \* what its first step returned
    known,      \* the operations enqueued before it began
    asked,      \* the operation a "get" asks for
    answer      \* the ids the last finished read returned

readVars == <<worktree, reading, fromGit, known, asked, answer>>

Enqueued == {i \in Ids : status[i] # "Absent"}

HistoryInit ==
    /\ Init
    /\ worktree = {}
    /\ reading = "none"
    /\ fromGit = {}
    /\ known = {}
    /\ asked = NoId
    /\ answer = {}

\* A background sync resets the worktree to the branch.
RefreshWorktree ==
    /\ worktree' = Recorded
    /\ UNCHANGED <<vars, reading, fromGit, known, asked, answer>>

BeginRead(kind, i) ==
    /\ admitted \in ReadIn
    /\ reading = "none"
    /\ reading' = kind
    /\ asked' = i
    /\ fromGit' = worktree
    /\ known' = Enqueued
    /\ answer' = {}
    /\ UNCHANGED <<vars, worktree>>

ReadsGitFirst == BeginRead("list", NoId) \/ \E i \in Ids : BeginRead("get", i)

EndRead(ids) ==
    /\ reading' = "done"
    /\ answer' = ids
    /\ UNCHANGED <<vars, worktree, fromGit, known, asked>>

ListDeploymentOperationRecords == {i \in Enqueued : status[i] # "Completed"}

\* mergeDeploymentRecords: a union, in which the Git record of an id wins.
ListDeployments ==
    /\ reading = "list"
    /\ EndRead(fromGit \cup ListDeploymentOperationRecords)

\* Mutant: as in a listing, completed operations are left to Git.
UncompletedRecord(i) == {j \in Enqueued \cap {i} : status[j] # "Completed"}

GetDeploymentOperationRecord(i) == Enqueued \cap {i}

\* The queue is asked only when Git has no record of the deployment.
GetDeployment ==
    /\ reading = "get"
    /\ EndRead(IF asked \in fromGit THEN {asked} ELSE GetDeploymentOperationRecord(asked))

ReturnAnswer ==
    /\ reading = "done"
    /\ reading' = "none"
    /\ fromGit' = {}
    /\ known' = {}
    /\ asked' = NoId
    /\ answer' = {}
    /\ UNCHANGED <<vars, worktree>>

HistoryNext ==
    \/ Next /\ UNCHANGED readVars
    \/ RefreshWorktree
    \/ ReadsGitFirst
    \/ ListDeployments
    \/ GetDeployment
    \/ ReturnAnswer

\* The queue works on beside the reads (see Fairness there); reads need not happen.
HistorySpec == HistoryInit /\ [][HistoryNext]_<<vars, readVars>> /\ Fairness

-----------------------------------------------------------------------------

\* A finished read tells of every operation that was enqueued before it: asking for one
\* finds it, at every moment of its life and however old the worktree that is read
\* (service.go:1715), and a listing leaves out only what the queue has completed, so that
\* no request is invisible while it waits, runs or has failed.
AnswersAreComplete ==
    reading = "done" =>
        IF asked = NoId
        THEN \A i \in known \ answer : status[i] = "Completed"
        ELSE asked \in known => answer = {asked}
=============================================================================
