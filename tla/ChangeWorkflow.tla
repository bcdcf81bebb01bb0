---------------------------- MODULE ChangeWorkflow ----------------------------
(***************************************************************************)
(* Reviewed changes: a change is drafted, submitted, approved and merged,  *)
(* and merging it carries out the operation it asks for.                   *)
(*                                                                         *)
(* Every call is handled by a goroutine of its own that reads the change's *)
(* file, decides, and later overwrites the file with its own copy of the   *)
(* record: nothing checks that the file is still the one it read.  A read  *)
(* from an outdated worktree counts as a read made earlier.  A change's id *)
(* is that of the call that drafts it, which a client may send again: then *)
(* the change is drafted anew, and may ask for something else.             *)
(***************************************************************************)
EXTENDS Naturals

CONSTANTS
    Changes,        \* change ids
    Handlers,       \* calls that may be handled at the same time
    Requests,       \* what changes ask for
    RequestsOf,     \* the requests that each change may be drafted with
    OperationOf,    \* the operation of each request
    Envs, EnvOf,    \* environments, and the one each request is for
    RequiresPR,     \* prodPRRequired in the policies that a request asks for
    Prod,           \* the environment called prod
    Declared,       \* each environment's writeMode in platform/projects.yaml
    NoChange, NoRequest

Operations == {"CreateApplication", "UpdateApplication", "Redeploy", "UpdatePolicies"}
WriteModes == {"direct", "pull_request"}
Roles      == {"viewer", "deployer", "admin"}
Statuses   == {"None", "Draft", "Submitted", "Approved", "Merged"}
Disturbances == {"overlap", "resend"}

\* An environment may be declared without a mode, or a project's policies may allow
\* one that its environments do not list.
ASSUME ChangeAssumption ==
    /\ RequestsOf \in [Changes -> SUBSET Requests]
    /\ OperationOf \in [Requests -> Operations]
    /\ EnvOf \in [Requests -> Envs]
    /\ RequiresPR \in [Requests -> BOOLEAN]
    /\ Declared \in [Envs -> WriteModes \cup {"", "unlisted"}]
    /\ NoChange \notin Changes
    /\ NoRequest \notin Requests

VARIABLES
    record,         \* the file of each change: its status, write mode and request
    prodPRRequired, \* the project's policy
    exists,         \* has the application been created?
    queued,         \* deployments in the queue: their ids and requests
    effects,        \* the drafts whose operation took effect
    approved,       \* the drafts whose approval was stored
    (* each handler *)
    phase, subject, copy,
    byAdmin,        \* does an administrator merge the change?
    admitted        \* "overlap" if calls for one change may be handled at the same
                    \* time, "resend" if clients may draft a change again

handlerVars == <<phase, subject, copy, byAdmin>>
effectVars  == <<prodPRRequired, exists, queued, effects>>
vars == <<record, effectVars, approved, handlerVars, admitted>>

Records == [status : Statuses, mode : WriteModes, request : Requests \cup {NoRequest}]
Absent  == [status |-> "None", mode |-> "direct", request |-> NoRequest]

Drafts == [change : Changes, mode : WriteModes, request : Requests]
Draft(c, q) == [change |-> c, mode |-> q.mode, request |-> q.request]

Admits(f) == f \in admitted

-----------------------------------------------------------------------------
(* Which environments are protected.                                       *)

\* The mode of an environment once the catalog's defaults are filled in.
WriteMode(e) == IF Declared[e] = "" THEN "direct" ELSE Declared[e]

\* Mutant: the catalog's mode, though it may list no such environment.
DeclaredWriteMode(e) == WriteMode(e)

\* How change requests see it.
ResolveWriteMode(e) ==
    IF WriteMode(e) \in WriteModes THEN WriteMode(e)
    ELSE IF e = Prod /\ prodPRRequired THEN "pull_request" ELSE "direct"

\* How direct writes see it: those to such an environment are refused.
RequiresChangeFlow(e) ==
    WriteMode(e) = "pull_request" \/ (e = Prod /\ prodPRRequired)

CanDeploy(r) == r \in {"deployer", "admin"}
CanAdmin(r)  == r = "admin"

-----------------------------------------------------------------------------

Init ==
    /\ record = [c \in Changes |-> Absent]
    /\ prodPRRequired \in BOOLEAN
    /\ exists \in BOOLEAN
    /\ queued = {}
    /\ effects = {}
    /\ approved = {}
    /\ phase = [h \in Handlers |-> "idle"]
    /\ subject = [h \in Handlers |-> NoChange]
    /\ copy = [h \in Handlers |-> Absent]
    /\ byAdmin = [h \in Handlers |-> FALSE]
    /\ admitted \in SUBSET Disturbances

\* A handler of c has read or made the record new, and goes on to the given phase.
Begin(h, c, new, next) ==
    /\ phase[h] = "idle"
    /\ Admits("overlap") \/ \A g \in Handlers : subject[g] # c
    /\ phase' = [phase EXCEPT ![h] = next]
    /\ subject' = [subject EXCEPT ![h] = c]
    /\ copy' = [copy EXCEPT ![h] = new]
    /\ UNCHANGED <<record, effectVars, approved, admitted>>

\* Nothing looks for a change of that id; the image of a redeployment is validated,
\* for which its application must exist.
Create(h, c, r, q) ==
    /\ CanDeploy(r)
    /\ \/ record[c].status = "None" /\ \A g \in Handlers : subject[g] # c
       \/ Admits("resend")
    /\ OperationOf[q] = "Redeploy" => exists
    /\ Begin(h, c,
             [status |-> "Draft", mode |-> ResolveWriteMode(EnvOf[q]), request |-> q], "store")
    /\ UNCHANGED byAdmin

Submittable(q) == q.status = "Draft"

Submit(h, c, r) ==
    /\ CanDeploy(r)
    /\ Submittable(record[c])
    /\ Begin(h, c, [record[c] EXCEPT !.status = "Submitted"], "store")
    /\ UNCHANGED byAdmin

Approve(h, c, r) ==
    /\ CanAdmin(r)
    /\ record[c].status = "Submitted"
    /\ Begin(h, c, [record[c] EXCEPT !.status = "Approved"], "store")
    /\ UNCHANGED byAdmin

\* Mutant: a pull request needs no approval.
MergeableOnceSubmitted(q) == q.status \in {"Submitted", "Approved"}

Mergeable(q) ==
    IF q.mode = "pull_request" THEN q.status = "Approved"
    ELSE q.status \in {"Submitted", "Approved"}

\* Mutant: the change is recorded as Merged without its operation being carried out.
MergeOnlyRecorded(h, c, r) ==
    /\ CanDeploy(r)
    /\ Mergeable(record[c])
    /\ Begin(h, c, [record[c] EXCEPT !.status = "Merged"], "store")
    /\ UNCHANGED byAdmin

Merge(h, c, r) ==
    /\ CanDeploy(r)
    /\ Mergeable(record[c])
    /\ Begin(h, c, record[c], "apply")
    /\ byAdmin' = [byAdmin EXCEPT ![h] = CanAdmin(r)]

Operation(h) == OperationOf[copy[h].request]

\* What the services that carry out the operation require.
Accepted(h) ==
    CASE Operation(h) = "CreateApplication" -> ~exists
      [] Operation(h) = "UpdatePolicies"    -> byAdmin[h]
      [] OTHER                              -> exists

\* Mutant: the deployment is named after the call that merges the change.
OperationIdOfCall(h) == h

\* The id of the deployment that a merge asks for: that of the change.
OperationId(h) == subject[h]

\* A deployment of that id is in the queue, whatever it deploys: the insert does nothing,
\* and the caller is not told.
Dropped(h) == Operation(h) = "Redeploy" /\ \E d \in queued : d.id = OperationId(h)

Enqueue(h) ==
    queued' = queued \cup
        {[id |-> OperationId(h), change |-> subject[h], request |-> copy[h].request]}

TakeEffect(h) ==
    /\ effects' = IF Dropped(h) THEN effects
                  ELSE effects \cup {Draft(subject[h], copy[h])}
    /\ exists' = (exists \/ Operation(h) = "CreateApplication")
    /\ prodPRRequired' = IF Operation(h) = "UpdatePolicies"
                         THEN RequiresPR[copy[h].request] ELSE prodPRRequired
    /\ IF Operation(h) = "Redeploy" /\ ~Dropped(h) THEN Enqueue(h) ELSE UNCHANGED queued

Finish(h) ==
    /\ phase' = [phase EXCEPT ![h] = "idle"]
    /\ subject' = [subject EXCEPT ![h] = NoChange]
    /\ copy' = [copy EXCEPT ![h] = Absent]
    /\ byAdmin' = [byAdmin EXCEPT ![h] = FALSE]

\* The operation is carried out, and its answer arrives or is lost.
ApplyOperation(h) ==
    /\ phase[h] = "apply"
    /\ Accepted(h)
    /\ TakeEffect(h)
    /\ \/ /\ phase' = [phase EXCEPT ![h] = "store"]
          /\ copy' = [copy EXCEPT ![h].status = "Merged"]
          /\ byAdmin' = [byAdmin EXCEPT ![h] = FALSE]
          /\ UNCHANGED subject
       \/ Finish(h)
    /\ UNCHANGED <<record, approved, admitted>>

\* The whole record is written, over whatever the file holds by now.
Update(h) ==
    /\ phase[h] = "store"
    /\ record' = [record EXCEPT ![subject[h]] = copy[h]]
    /\ approved' = IF copy[h].status = "Approved"
                   THEN approved \cup {Draft(subject[h], copy[h])} ELSE approved
    /\ Finish(h)
    /\ UNCHANGED <<effectVars, admitted>>

\* A step of a handler fails, its client goes away, or its process stops.
HandlerFails(h) ==
    /\ phase[h] # "idle"
    /\ Finish(h)
    /\ UNCHANGED <<record, effectVars, approved, admitted>>

\* An administrator may also set the policies without a change.
UpdatePolicies(required) ==
    /\ prodPRRequired' = required
    /\ UNCHANGED <<record, exists, queued, effects, approved, handlerVars, admitted>>

Next ==
    \/ \E h \in Handlers, c \in Changes, r \in Roles :
          \/ \E q \in RequestsOf[c] : Create(h, c, r, q)
          \/ Submit(h, c, r)
          \/ Approve(h, c, r)
          \/ Merge(h, c, r)
    \/ \E h \in Handlers : ApplyOperation(h) \/ Update(h) \/ HandlerFails(h)
    \/ \E required \in BOOLEAN : UpdatePolicies(required)

Spec == Init /\ [][Next]_vars

-----------------------------------------------------------------------------
(* Properties. *)

\* The records, copies and sets have the types of the code's structures.
TypeOK ==
    /\ record \in [Changes -> Records]
    /\ \A c \in Changes : record[c].status # "None" => record[c].request \in Requests
    /\ prodPRRequired \in BOOLEAN
    /\ exists \in BOOLEAN
    /\ \A d \in queued : d.change \in Changes /\ d.request \in Requests
    /\ effects \subseteq Drafts
    /\ approved \subseteq Drafts
    /\ phase \in [Handlers -> {"idle", "apply", "store"}]
    /\ subject \in [Handlers -> Changes \cup {NoChange}]
    /\ copy \in [Handlers -> Records]
    /\ \A h \in Handlers :
          phase[h] # "idle" => subject[h] \in Changes /\ copy[h].request \in Requests
    /\ byAdmin \in [Handlers -> BOOLEAN]
    /\ admitted \subseteq Disturbances

\* What takes effect in pull_request mode is what an administrator approved: the same
\* draft, however calls interleave, whatever stale copies they write back, and even
\* when a change is drafted again (future-phases-roadmap.md:309).
ApprovedBeforeApplied ==
    \A d \in effects : d.mode = "pull_request" => d \in approved

InEffect(c, q) == \E d \in effects : d.change = c /\ d.request = q

\* The change was drafted again after it had deployed something else.
DeploysAnother(c, q) ==
    /\ Admits("resend")
    /\ OperationOf[q] = "Redeploy"
    /\ \E d \in queued : d.change = c /\ d.request # q

\* What a change that is reported as Merged asks for has taken effect, though the merge is
\* recorded in a step of its own that others may come before, unless it asks for another
\* deployment than the one it has in the queue already (deployment_operations_mariadb.go:94).
MergedIsApplied ==
    \A c \in Changes : record[c].status = "Merged" =>
        InEffect(c, record[c].request) \/ DeploysAnother(c, record[c].request)

\* However often a change is drafted and merged, by calls that overlap or after an
\* answer was lost, it enqueues one deployment.
DeploysOnce == \A d, e \in queued : d.change = e.change => d = e

\* A request to an environment whose direct writes are refused, since policy requires
\* review, takes effect only after it was approved.
ReviewedWhereRequired ==
    [][\A d \in effects' \ effects :
          RequiresChangeFlow(EnvOf[d.request]) => d \in approved]_vars
=============================================================================
