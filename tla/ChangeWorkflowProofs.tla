------------------------- MODULE ChangeWorkflowProofs -------------------------
(* Proofs about ChangeWorkflow, for every value of its constants. *)
EXTENDS ChangeWorkflow, TLAPS

\* A change is always drafted with one of the two write modes (resolveWriteMode).
LEMMA ModeType ==
    ASSUME NEW e \in Envs
    PROVE  ResolveWriteMode(e) \in WriteModes
  BY DEF ResolveWriteMode, WriteModes

\* A handler that begins with a record keeps the types of the variables.
LEMMA BeginTyped ==
    ASSUME TypeOK, NEW h \in Handlers, NEW c \in Changes,
           NEW new \in Records, new.request \in Requests,
           NEW next \in {"apply", "store"}, Begin(h, c, new, next),
           byAdmin' \in [Handlers -> BOOLEAN]
    PROVE  TypeOK'
<1>1. /\ phase' = [phase EXCEPT ![h] = next]
      /\ subject' = [subject EXCEPT ![h] = c]
      /\ copy' = [copy EXCEPT ![h] = new]
      /\ UNCHANGED <<record, prodPRRequired, exists, queued, effects, approved, admitted>>
  BY DEF Begin, effectVars
<1>2. phase' \in [Handlers -> {"idle", "apply", "store"}]
  BY <1>1 DEF TypeOK
<1>3. subject' \in [Handlers -> Changes \cup {NoChange}]
  BY <1>1 DEF TypeOK
<1>4. copy' \in [Handlers -> Records]
  BY <1>1 DEF TypeOK
<1>5. \A g \in Handlers :
         phase'[g] # "idle" => subject'[g] \in Changes /\ copy'[g].request \in Requests
  BY <1>1 DEF TypeOK
<1> QED
  BY <1>1, <1>2, <1>3, <1>4, <1>5 DEF TypeOK

\* A handler that ends keeps the types of the handlers' variables.
LEMMA FinishTyped ==
    ASSUME TypeOK, NEW h \in Handlers, Finish(h)
    PROVE  /\ phase' \in [Handlers -> {"idle", "apply", "store"}]
           /\ subject' \in [Handlers -> Changes \cup {NoChange}]
           /\ copy' \in [Handlers -> Records]
           /\ byAdmin' \in [Handlers -> BOOLEAN]
           /\ \A g \in Handlers : phase'[g] # "idle" =>
                 g # h /\ phase'[g] = phase[g] /\ subject'[g] = subject[g] /\ copy'[g] = copy[g]
<1>1. Absent \in Records
  BY DEF Absent, Records, Statuses, WriteModes
<1> QED
  BY <1>1 DEF Finish, TypeOK

\* Drafting, submitting, approving and merging begin with a record of the right type.
LEMMA CallTyped ==
    ASSUME TypeOK, NEW h \in Handlers, NEW c \in Changes, NEW r \in Roles,
           \/ \E q \in RequestsOf[c] : Create(h, c, r, q)
           \/ Submit(h, c, r) \/ Approve(h, c, r) \/ Merge(h, c, r)
    PROVE  TypeOK'
<1>1. CASE \E q \in RequestsOf[c] : Create(h, c, r, q)
  <2>1. PICK q \in RequestsOf[c] : Create(h, c, r, q)
    BY <1>1
  <2>2. q \in Requests /\ EnvOf[q] \in Envs
    BY ChangeAssumption
  <2> DEFINE new == [status |-> "Draft", mode |-> ResolveWriteMode(EnvOf[q]), request |-> q]
  <2>3. new \in Records /\ new.request \in Requests
    BY <2>2, ModeType DEF Records, Statuses
  <2>4. Begin(h, c, new, "store") /\ UNCHANGED byAdmin
    BY <2>1 DEF Create
  <2> HIDE DEF new
  <2> QED
    BY <2>3, <2>4, BeginTyped DEF TypeOK
<1>2. CASE Submit(h, c, r)
  <2> DEFINE new == [record[c] EXCEPT !.status = "Submitted"]
  <2>1. new \in Records /\ new.request \in Requests
    BY <1>2 DEF Submit, Submittable, TypeOK, Records, Statuses
  <2>2. Begin(h, c, new, "store") /\ UNCHANGED byAdmin
    BY <1>2 DEF Submit
  <2> HIDE DEF new
  <2> QED
    BY <2>1, <2>2, BeginTyped DEF TypeOK
<1>3. CASE Approve(h, c, r)
  <2> DEFINE new == [record[c] EXCEPT !.status = "Approved"]
  <2>1. new \in Records /\ new.request \in Requests
    BY <1>3 DEF Approve, TypeOK, Records, Statuses
  <2>2. Begin(h, c, new, "store") /\ UNCHANGED byAdmin
    BY <1>3 DEF Approve
  <2> HIDE DEF new
  <2> QED
    BY <2>1, <2>2, BeginTyped DEF TypeOK
<1>4. CASE Merge(h, c, r)
  <2>1. record[c] \in Records /\ record[c].request \in Requests
    BY <1>4 DEF Merge, Mergeable, TypeOK
  <2>2. Begin(h, c, record[c], "apply") /\ byAdmin' \in [Handlers -> BOOLEAN]
    BY <1>4 DEF Merge, TypeOK, CanAdmin
  <2> QED
    BY <2>1, <2>2, BeginTyped
<1> QED
  BY <1>1, <1>2, <1>3, <1>4

\* Carrying out an operation keeps the types of the variables.
LEMMA ApplyTyped ==
    ASSUME TypeOK, NEW h \in Handlers, ApplyOperation(h)
    PROVE  TypeOK'
<1>1. subject[h] \in Changes /\ copy[h] \in Records /\ copy[h].request \in Requests
  BY DEF ApplyOperation, TypeOK
<1>2. effects' \subseteq Drafts /\ UNCHANGED <<record, approved, admitted>>
  BY <1>1 DEF ApplyOperation, TakeEffect, TypeOK, Draft, Drafts, Records
<1>3. exists' \in BOOLEAN
  BY DEF ApplyOperation, TakeEffect, TypeOK
<1>4. prodPRRequired' \in BOOLEAN
  BY <1>1, ChangeAssumption DEF ApplyOperation, TakeEffect, TypeOK
<1>5. \A d \in queued' : d.change \in Changes /\ d.request \in Requests
  BY <1>1 DEF ApplyOperation, TakeEffect, Enqueue, TypeOK
<1>6. CASE Finish(h)
  BY <1>2, <1>3, <1>4, <1>5, <1>6, FinishTyped DEF TypeOK
<1>7. CASE /\ phase' = [phase EXCEPT ![h] = "store"]
           /\ copy' = [copy EXCEPT ![h].status = "Merged"]
           /\ byAdmin' = [byAdmin EXCEPT ![h] = FALSE]
           /\ UNCHANGED subject
  <2>1. copy' \in [Handlers -> Records] /\ \A g \in Handlers : copy'[g].request = copy[g].request
    BY <1>7 DEF TypeOK, Records, Statuses
  <2>2. phase' \in [Handlers -> {"idle", "apply", "store"}] /\ byAdmin' \in [Handlers -> BOOLEAN]
    BY <1>7 DEF TypeOK
  <2>3. \A g \in Handlers : phase'[g] # "idle" =>
           subject'[g] \in Changes /\ copy'[g].request \in Requests
    BY <1>1, <1>7, <2>1 DEF TypeOK
  <2>4. subject' \in [Handlers -> Changes \cup {NoChange}]
    BY <1>7 DEF TypeOK
  <2> QED
    BY <1>2, <1>3, <1>4, <1>5, <2>1, <2>2, <2>3, <2>4 DEF TypeOK
<1> QED
  BY <1>6, <1>7 DEF ApplyOperation

\* Every action keeps the types of the variables.
LEMMA StepTypeOK == TypeOK /\ [Next]_vars => TypeOK'
<1> SUFFICES ASSUME TypeOK, [Next]_vars PROVE TypeOK'
  OBVIOUS
<1>1. ASSUME NEW h \in Handlers, Update(h) PROVE TypeOK'
  <2>1. subject[h] \in Changes /\ copy[h] \in Records /\ copy[h].request \in Requests
    BY <1>1 DEF Update, TypeOK
  <2>2. /\ record' \in [Changes -> Records]
        /\ \A c \in Changes : record'[c].status # "None" => record'[c].request \in Requests
    BY <1>1, <2>1 DEF Update, TypeOK
  <2>3. approved' \subseteq Drafts
    BY <1>1, <2>1 DEF Update, TypeOK, Draft, Drafts, Records
  <2>4. UNCHANGED <<prodPRRequired, exists, queued, effects, admitted>> /\ Finish(h)
    BY <1>1 DEF Update, effectVars
  <2> QED
    BY <2>2, <2>3, <2>4, FinishTyped DEF TypeOK
<1>2. ASSUME NEW h \in Handlers, HandlerFails(h) PROVE TypeOK'
  BY <1>2, FinishTyped DEF HandlerFails, TypeOK, effectVars
<1>3. ASSUME NEW required \in BOOLEAN, UpdatePolicies(required) PROVE TypeOK'
  BY <1>3 DEF UpdatePolicies, TypeOK, handlerVars
<1>4. CASE UNCHANGED vars
  BY <1>4 DEF vars, effectVars, handlerVars, TypeOK
<1> QED
  BY <1>1, <1>2, <1>3, <1>4, CallTyped, ApplyTyped DEF Next

\* No change, no queue and idle handlers have their types.
LEMMA InitTypeOK == Init => TypeOK
<1>1. Absent \in Records /\ Absent.status = "None"
  BY DEF Absent, Records, Statuses, WriteModes
<1> QED
  BY <1>1 DEF Init, TypeOK

\* Every variable always has its type.
THEOREM TypeCorrect == Spec => []TypeOK
  BY InitTypeOK, StepTypeOK, PTL DEF Spec

-----------------------------------------------------------------------------
(* One deployment for each change: the id of a deployment is that of its change. *)

NamedAfterChange ==
    /\ \A d \in queued : d.id = d.change
    /\ \A d, e \in queued : d.id = e.id => d = e

\* Every action keeps the queue's ids: an id that is in it is not added again.
LEMMA StepNamed == NamedAfterChange /\ [Next]_vars => NamedAfterChange'
<1> SUFFICES ASSUME NamedAfterChange, [Next]_vars PROVE NamedAfterChange'
  OBVIOUS
<1>1. ASSUME NEW h \in Handlers, ApplyOperation(h) PROVE NamedAfterChange'
  <2>1. CASE UNCHANGED queued
    BY <2>1 DEF NamedAfterChange
  <2>2. CASE Enqueue(h) /\ Operation(h) = "Redeploy" /\ ~Dropped(h)
    <3>1. /\ \A d \in queued : d.id # subject[h]
          /\ queued' = queued \cup {[id |-> subject[h], change |-> subject[h],
                                     request |-> copy[h].request]}
      BY <2>2 DEF Enqueue, Dropped, OperationId
    <3> QED
      BY <3>1 DEF NamedAfterChange
  <2> QED
    BY <1>1, <2>1, <2>2 DEF ApplyOperation, TakeEffect
<1>2. CASE UNCHANGED queued
  BY <1>2 DEF NamedAfterChange
<1> QED
  BY <1>1, <1>2 DEF Next, Create, Submit, Approve, Merge, Begin, Update, HandlerFails,
     UpdatePolicies, vars, effectVars

\* However often a change is drafted and merged, it enqueues one deployment.
THEOREM EachDeploysOnce == Spec => []DeploysOnce
<1>1. Init => NamedAfterChange
  BY DEF Init, NamedAfterChange
<1>2. NamedAfterChange => DeploysOnce
  BY DEF NamedAfterChange, DeploysOnce
<1> QED
  BY <1>1, <1>2, StepNamed, PTL DEF Spec

-----------------------------------------------------------------------------
(* One request for each change, unless clients draft changes again: a handler    *)
(* holds the request of the change's file, or is the one that makes the file.    *)

HoldsItsRequest(h) ==
    /\ copy[h].status # "None"
    /\ record[subject[h]].status # "None" => copy[h].request = record[subject[h]].request
    /\ record[subject[h]].status = "None" =>
          /\ phase[h] = "store" /\ copy[h].status = "Draft"
          /\ \A g \in Handlers : phase[g] # "idle" /\ subject[g] = subject[h] => g = h

OneRequest ==
    /\ \A h \in Handlers : phase[h] # "idle" => HoldsItsRequest(h)
    /\ \A d \in queued : record[d.change].status # "None"
                       /\ record[d.change].request = d.request

RequestInv == TypeOK /\ (Admits("resend") \/ OneRequest)

\* Beginning a call keeps the invariant, if the new copy agrees with the file.
LEMMA BeginOneRequest ==
    ASSUME TypeOK, TypeOK', OneRequest,
           NEW h \in Handlers, NEW c \in Changes, NEW new, NEW next, next # "idle",
           Begin(h, c, new, next),
           new.status # "None",
           \/ /\ record[c].status # "None"
              /\ new.request = record[c].request
           \/ /\ record[c].status = "None"
              /\ next = "store" /\ new.status = "Draft"
              /\ \A g \in Handlers : subject[g] # c
    PROVE  OneRequest'
<1>1. /\ phase' = [phase EXCEPT ![h] = next]
      /\ subject' = [subject EXCEPT ![h] = c]
      /\ copy' = [copy EXCEPT ![h] = new]
      /\ UNCHANGED <<record, queued>>
  BY DEF Begin, effectVars
<1>2. \A g \in Handlers \ {h} :
         phase'[g] = phase[g] /\ subject'[g] = subject[g] /\ copy'[g] = copy[g]
  BY <1>1 DEF TypeOK
<1>3. phase'[h] = next /\ subject'[h] = c /\ copy'[h] = new
  BY <1>1 DEF TypeOK
<1>4. HoldsItsRequest(h)'
  BY <1>1, <1>2, <1>3 DEF HoldsItsRequest
<1>5. ASSUME NEW g \in Handlers \ {h}, phase[g] # "idle" PROVE HoldsItsRequest(g)'
  <2>1. HoldsItsRequest(g)
    BY <1>5 DEF OneRequest
  <2>2. record[subject[g]].status = "None" => subject[g] # c
    BY <1>5
  <2> QED
    BY <1>1, <1>2, <1>3, <1>5, <2>1, <2>2 DEF HoldsItsRequest
<1> QED
  BY <1>1, <1>2, <1>4, <1>5 DEF OneRequest

\* A handler that ends leaves the others as they were.
LEMMA OthersHoldTheirs ==
    ASSUME TypeOK, OneRequest, NEW h \in Handlers, Finish(h), UNCHANGED record
    PROVE  \A g \in Handlers : phase'[g] # "idle" => HoldsItsRequest(g)'
<1>1. \A g \in Handlers : phase'[g] # "idle" =>
         g # h /\ phase'[g] = phase[g] /\ subject'[g] = subject[g] /\ copy'[g] = copy[g]
  BY FinishTyped
<1> QED
  BY <1>1 DEF OneRequest, HoldsItsRequest

\* Every action keeps one request for each change.
LEMMA StepOneRequest == RequestInv /\ [Next]_vars => RequestInv'
<1> SUFFICES ASSUME RequestInv, [Next]_vars PROVE RequestInv'
  OBVIOUS
<1>1. TypeOK /\ TypeOK'
  BY StepTypeOK DEF RequestInv
<1>2. UNCHANGED admitted
  BY DEF Next, Create, Submit, Approve, Merge, Begin, ApplyOperation, Update, HandlerFails,
     UpdatePolicies, vars
<1> SUFFICES ASSUME ~Admits("resend"), OneRequest PROVE OneRequest'
  BY <1>1, <1>2 DEF RequestInv, Admits
<1>3. ASSUME NEW h \in Handlers, NEW c \in Changes, NEW r \in Roles,
             NEW q \in RequestsOf[c], Create(h, c, r, q)
      PROVE OneRequest'
  <2> DEFINE new == [status |-> "Draft", mode |-> ResolveWriteMode(EnvOf[q]), request |-> q]
  <2>1. /\ record[c].status = "None" /\ \A g \in Handlers : subject[g] # c
        /\ Begin(h, c, new, "store")
    BY <1>3 DEF Create
  <2>2. new.status = "Draft"
    OBVIOUS
  <2> HIDE DEF new
  <2> QED
    BY <1>1, <2>1, <2>2, BeginOneRequest
<1>4. ASSUME NEW h \in Handlers, NEW c \in Changes, NEW s \in {"Submitted", "Approved"},
             record[c].status \in {"Draft", "Submitted"},
             Begin(h, c, [record[c] EXCEPT !.status = s], "store")
      PROVE OneRequest'
  <2> DEFINE new == [record[c] EXCEPT !.status = s]
  <2>1. new.status = s /\ new.request = record[c].request
    BY <1>1 DEF TypeOK, Records
  <2> HIDE DEF new
  <2> QED
    BY <1>1, <1>4, <2>1, BeginOneRequest DEF new
<1>5. ASSUME NEW h \in Handlers, NEW c \in Changes, NEW r \in Roles, Merge(h, c, r)
      PROVE OneRequest'
  BY <1>1, <1>5, BeginOneRequest DEF Merge, Mergeable
<1>6. ASSUME NEW h \in Handlers, ApplyOperation(h) PROVE OneRequest'
  <2>1. /\ record[subject[h]].status # "None"
        /\ copy[h].request = record[subject[h]].request
    BY <1>6 DEF ApplyOperation, OneRequest, HoldsItsRequest
  <2>2. UNCHANGED record
    BY <1>6 DEF ApplyOperation
  <2>3. \A d \in queued' :
           d \in queued \/ (d.change = subject[h] /\ d.request = copy[h].request)
    BY <1>6 DEF ApplyOperation, TakeEffect, Enqueue
  <2>4. \A d \in queued' : record'[d.change].status # "None"
                        /\ record'[d.change].request = d.request
    BY <2>1, <2>2, <2>3 DEF OneRequest
  <2>5. CASE Finish(h)
    BY <1>1, <2>2, <2>4, <2>5, OthersHoldTheirs DEF OneRequest
  <2>6. CASE /\ phase' = [phase EXCEPT ![h] = "store"]
             /\ copy' = [copy EXCEPT ![h].status = "Merged"]
             /\ UNCHANGED subject
    <3>1. \A g \in Handlers \ {h} : phase'[g] = phase[g] /\ copy'[g] = copy[g]
      BY <1>1, <2>6 DEF TypeOK
    <3>2. copy'[h].status = "Merged" /\ copy'[h].request = copy[h].request
      BY <1>1, <2>6 DEF TypeOK, Records
    <3>3. HoldsItsRequest(h)'
      BY <2>1, <2>2, <2>6, <3>2 DEF HoldsItsRequest
    <3>4. ASSUME NEW g \in Handlers \ {h}, phase[g] # "idle" PROVE HoldsItsRequest(g)'
      <4>1. HoldsItsRequest(g)
        BY <3>4 DEF OneRequest
      <4>2. record[subject[g]].status = "None" => subject[g] # subject[h]
        BY <2>1
      <4> QED
        BY <2>2, <2>6, <3>1, <3>4, <4>1, <4>2 DEF HoldsItsRequest
    <3> QED
      BY <2>4, <3>1, <3>3, <3>4 DEF OneRequest
  <2> QED
    BY <1>6, <2>5, <2>6 DEF ApplyOperation
<1>7. ASSUME NEW h \in Handlers, Update(h) PROVE OneRequest'
  <2> DEFINE c == subject[h]
  <2>1. /\ phase[h] = "store" /\ c \in Changes
        /\ record' = [record EXCEPT ![c] = copy[h]]
        /\ UNCHANGED queued /\ Finish(h)
    BY <1>1, <1>7 DEF Update, TypeOK, effectVars
  <2>2. HoldsItsRequest(h)
    BY <2>1 DEF OneRequest
  <2>3. record'[c] = copy[h] /\ \A b \in Changes \ {c} : record'[b] = record[b]
    BY <1>1, <2>1 DEF TypeOK
  <2>4. \A g \in Handlers : phase'[g] # "idle" =>
           g # h /\ phase'[g] = phase[g] /\ subject'[g] = subject[g] /\ copy'[g] = copy[g]
    BY <1>1, <2>1, FinishTyped
  <2>5. ASSUME NEW g \in Handlers, phase'[g] # "idle" PROVE HoldsItsRequest(g)'
    <3>1. HoldsItsRequest(g) /\ subject[g] \in Changes /\ g # h
      BY <1>1, <2>4, <2>5 DEF OneRequest, TypeOK
    <3>2. CASE subject[g] = c
      <4>1. record[c].status # "None" /\ copy[h].status # "None"
        BY <2>1, <2>2, <2>4, <2>5, <3>1, <3>2 DEF HoldsItsRequest
      <4>2. copy[g].request = copy[h].request
        BY <2>2, <3>1, <3>2, <4>1 DEF HoldsItsRequest
      <4> QED
        BY <2>3, <2>4, <2>5, <3>1, <3>2, <4>1, <4>2 DEF HoldsItsRequest
    <3>3. CASE subject[g] # c
      BY <2>3, <2>4, <2>5, <3>1, <3>3 DEF HoldsItsRequest
    <3> QED
      BY <3>2, <3>3
  <2>6. ASSUME NEW d \in queued PROVE record'[d.change].status # "None"
                                   /\ record'[d.change].request = d.request
    <3>1. d.change \in Changes /\ record[d.change].status # "None"
          /\ record[d.change].request = d.request
      BY <1>1 DEF OneRequest, TypeOK
    <3> QED
      BY <2>2, <2>3, <3>1 DEF HoldsItsRequest
  <2> QED
    BY <2>1, <2>5, <2>6 DEF OneRequest
<1>8. ASSUME NEW h \in Handlers, HandlerFails(h) PROVE OneRequest'
  <2>1. Finish(h) /\ UNCHANGED <<record, queued>>
    BY <1>8 DEF HandlerFails, effectVars
  <2> QED
    BY <1>1, <2>1, OthersHoldTheirs DEF OneRequest
<1>9. CASE UNCHANGED <<record, queued, handlerVars>>
  BY <1>9 DEF OneRequest, HoldsItsRequest, handlerVars
<1> QED
  BY <1>3, <1>4, <1>5, <1>6, <1>7, <1>8, <1>9
     DEF Next, Submit, Submittable, Approve, UpdatePolicies, vars, effectVars

-----------------------------------------------------------------------------
(* Approval before effect.  A file that says Approved, and a merge's copy that *)
(* says so, have their approval stored; a copy to be stored as Merged has had  *)
(* its effect, or another deployment of its change was in the queue.  A copy   *)
(* that overwrites a newer file keeps all of it.                               *)

ApprovalsStored ==
    /\ \A c \in Changes : record[c].status = "Approved" => Draft(c, record[c]) \in approved
    /\ \A h \in Handlers : phase[h] = "apply" =>
          /\ Mergeable(copy[h])
          /\ copy[h].status = "Approved" => Draft(subject[h], copy[h]) \in approved

Settled(c, q) == InEffect(c, q) \/ DeploysAnother(c, q)

QueuedInEffect == \A d \in queued : InEffect(d.change, d.request)

MergesApplied ==
    \A h \in Handlers : phase[h] = "store" /\ copy[h].status = "Merged" =>
        Settled(subject[h], copy[h].request)

ReviewInv ==
    /\ RequestInv
    /\ NamedAfterChange
    /\ ApprovalsStored
    /\ QueuedInEffect
    /\ MergesApplied
    /\ ApprovedBeforeApplied
    /\ MergedIsApplied

\* Where nothing is stored, approved or carried out, the invariant is about handlers only.
LEMMA StoredStays ==
    ASSUME ReviewInv, RequestInv', NamedAfterChange', ApprovalsStored', MergesApplied',
           UNCHANGED <<record, effects, queued, approved, admitted>>
    PROVE  ReviewInv'
<1>1. \A c, q : InEffect(c, q) <=> InEffect(c, q)'
  BY DEF InEffect
<1>2. \A c, q : Settled(c, q) <=> Settled(c, q)'
  BY DEF Settled, InEffect, DeploysAnother, Admits
<1>3. QueuedInEffect'
  BY <1>1 DEF ReviewInv, QueuedInEffect
<1>4. ApprovedBeforeApplied'
  BY DEF ReviewInv, ApprovedBeforeApplied
<1>5. MergedIsApplied'
  BY <1>2 DEF ReviewInv, MergedIsApplied, Settled
<1> QED
  BY <1>3, <1>4, <1>5 DEF ReviewInv

\* Beginning a call keeps the invariant, if the new copy satisfies it.
LEMMA BeginReviewed ==
    ASSUME ReviewInv, RequestInv', NamedAfterChange',
           NEW h \in Handlers, NEW c \in Changes, NEW new, NEW next,
           Begin(h, c, new, next),
           next = "apply" => new = record[c] /\ Mergeable(new),
           next = "store" => new.status # "Merged"
    PROVE  ReviewInv'
<1>1. /\ phase' = [phase EXCEPT ![h] = next]
      /\ subject' = [subject EXCEPT ![h] = c]
      /\ copy' = [copy EXCEPT ![h] = new]
      /\ UNCHANGED <<record, effects, queued, approved, admitted>>
  BY DEF Begin, effectVars
<1>2. \A g \in Handlers \ {h} :
         phase'[g] = phase[g] /\ subject'[g] = subject[g] /\ copy'[g] = copy[g]
  BY <1>1 DEF ReviewInv, RequestInv, TypeOK
<1>3. phase'[h] = next /\ subject'[h] = c /\ copy'[h] = new
  BY <1>1 DEF ReviewInv, RequestInv, TypeOK
<1>4. ApprovalsStored'
  BY <1>1, <1>2, <1>3 DEF ReviewInv, ApprovalsStored, Draft, Mergeable
<1>5. MergesApplied'
  <2>1. \A g \in Handlers : phase'[g] = "store" /\ copy'[g].status = "Merged" =>
           g # h /\ Settled(subject[g], copy[g].request)
    BY <1>2, <1>3 DEF ReviewInv, MergesApplied
  <2> QED
    BY <1>1, <1>2, <2>1 DEF MergesApplied, Settled, InEffect, DeploysAnother, Admits
<1> QED
  BY <1>1, <1>4, <1>5, StoredStays

\* Carrying out an operation keeps the invariant: a deployment that the queue drops is
\* in effect already, or is another than the one in the queue.
LEMMA ApplyReviewed ==
    ASSUME ReviewInv, RequestInv', NamedAfterChange', NEW h \in Handlers, ApplyOperation(h)
    PROVE  ReviewInv'
<1>0. TypeOK /\ subject[h] \in Changes /\ copy[h].request \in Requests
  BY DEF ApplyOperation, ReviewInv, RequestInv, TypeOK
<1>1. PICK c \in Changes, q \in Requests : c = subject[h] /\ q = copy[h].request
  BY <1>0
<1> DEFINE d == Draft(c, copy[h])
<1>2. /\ effects \subseteq effects' /\ effects' \subseteq effects \cup {d}
      /\ queued \subseteq queued'
      /\ UNCHANGED <<record, approved, admitted>>
  BY <1>1 DEF ApplyOperation, TakeEffect, Enqueue
<1>3. d.change = c /\ d.request = q
  BY <1>1 DEF Draft
<1>4. InEffect(c, q)' \/ Settled(c, q)'
  <2>1. CASE Dropped(h)
    <3>1. PICK e \in queued : e.change = c /\ OperationOf[q] = "Redeploy"
      BY <1>1, <2>1 DEF Dropped, OperationId, Operation, ReviewInv, NamedAfterChange
    <3>2. InEffect(c, e.request)
      BY <3>1 DEF ReviewInv, QueuedInEffect
    <3>3. e.request # q => Admits("resend")
      BY <1>0, <1>1, <3>1 DEF ApplyOperation, ReviewInv, RequestInv, OneRequest, HoldsItsRequest
    <3>4. Settled(c, q)
      BY <3>1, <3>2, <3>3 DEF Settled, DeploysAnother
    <3> QED
      BY <1>2, <3>4 DEF Settled, InEffect, DeploysAnother, Admits
  <2>2. CASE ~Dropped(h)
    <3>1. d \in effects'
      BY <1>1, <2>2 DEF ApplyOperation, TakeEffect
    <3> QED
      BY <1>3, <3>1 DEF InEffect
  <2> QED
    BY <2>1, <2>2
<1>5. QueuedInEffect'
  <2>1. CASE UNCHANGED queued
    BY <1>2, <2>1 DEF ReviewInv, QueuedInEffect, InEffect
  <2>2. CASE Enqueue(h) /\ ~Dropped(h)
    <3>1. d \in effects'
      BY <1>1, <2>2 DEF ApplyOperation, TakeEffect
    <3>2. \A e \in queued' : e \in queued \/ (e.change = c /\ e.request = q)
      BY <1>1, <2>2 DEF Enqueue
    <3> QED
      BY <1>2, <1>3, <3>1, <3>2 DEF ReviewInv, QueuedInEffect, InEffect
  <2> QED
    BY <2>1, <2>2 DEF ApplyOperation, TakeEffect
<1>6. \A g \in Handlers \ {h} :
         phase'[g] = phase[g] /\ subject'[g] = subject[g] /\ copy'[g] = copy[g]
  BY <1>0 DEF ApplyOperation, Finish, TypeOK
<1>7. \/ phase'[h] = "idle"
      \/ phase'[h] = "store" /\ subject'[h] = c /\ copy'[h].request = q
  BY <1>0, <1>1 DEF ApplyOperation, Finish, TypeOK, Records
<1>8. ApprovalsStored'
  BY <1>2, <1>6, <1>7 DEF ReviewInv, ApprovalsStored, Draft, Mergeable
<1>9. MergesApplied'
  <2>1. \A g \in Handlers \ {h} : phase[g] = "store" /\ copy[g].status = "Merged" =>
           Settled(subject[g], copy[g].request)
    BY DEF ReviewInv, MergesApplied
  <2> QED
    BY <1>2, <1>4, <1>6, <1>7, <2>1 DEF MergesApplied, Settled, InEffect, DeploysAnother, Admits
<1>10. ApprovedBeforeApplied'
  <2>1. d.mode = "pull_request" => d \in approved
    BY <1>1 DEF ReviewInv, ApprovalsStored, ApplyOperation, Mergeable, Draft
  <2> QED
    BY <1>2, <2>1 DEF ReviewInv, ApprovedBeforeApplied
<1>11. MergedIsApplied'
  BY <1>2 DEF ReviewInv, MergedIsApplied, InEffect, DeploysAnother, Admits
<1> QED
  BY <1>5, <1>8, <1>9, <1>10, <1>11 DEF ReviewInv

\* Storing a record keeps the invariant.
LEMMA UpdateReviewed ==
    ASSUME ReviewInv, RequestInv', NamedAfterChange', NEW h \in Handlers, Update(h)
    PROVE  ReviewInv'
<1>1. TypeOK
  BY DEF ReviewInv, RequestInv
<1>2. /\ phase[h] = "store" /\ subject[h] \in Changes
      /\ record' = [record EXCEPT ![subject[h]] = copy[h]]
      /\ approved \subseteq approved'
      /\ copy[h].status = "Approved" => Draft(subject[h], copy[h]) \in approved'
      /\ UNCHANGED <<effects, queued, admitted>>
      /\ Finish(h)
  BY <1>1 DEF Update, TypeOK, effectVars
<1>3. \A g \in Handlers : phase'[g] # "idle" =>
         phase'[g] = phase[g] /\ subject'[g] = subject[g] /\ copy'[g] = copy[g]
  BY <1>1, <1>2, FinishTyped
<1>4. ASSUME NEW c \in Changes PROVE
        /\ record'[c].status = "Approved" => Draft(c, record'[c]) \in approved'
        /\ record'[c].status = "Merged" => Settled(c, record'[c].request)
  <2>1. CASE c = subject[h]
    <3>1. record'[c] = copy[h]
      BY <1>1, <1>2, <2>1 DEF TypeOK
    <3> QED
      BY <1>2, <2>1, <3>1 DEF ReviewInv, MergesApplied
  <2>2. CASE c # subject[h]
    <3>1. record'[c] = record[c]
      BY <1>1, <1>2, <2>2 DEF TypeOK
    <3> QED
      BY <1>2, <3>1 DEF ReviewInv, ApprovalsStored, MergedIsApplied, Settled
  <2> QED
    BY <2>1, <2>2
<1>5. ApprovalsStored'
  BY <1>2, <1>3, <1>4 DEF ReviewInv, ApprovalsStored, Draft, Mergeable
<1>6. QueuedInEffect'
  BY <1>2 DEF ReviewInv, QueuedInEffect, InEffect
<1>7. MergesApplied'
  BY <1>2, <1>3 DEF ReviewInv, MergesApplied, Settled, InEffect, DeploysAnother, Admits
<1>8. ApprovedBeforeApplied'
  BY <1>2 DEF ReviewInv, ApprovedBeforeApplied
<1>9. MergedIsApplied'
  BY <1>2, <1>4 DEF MergedIsApplied, Settled, InEffect, DeploysAnother, Admits
<1> QED
  BY <1>5, <1>6, <1>7, <1>8, <1>9 DEF ReviewInv

\* Every action keeps the invariant.
LEMMA StepReviewed == ReviewInv /\ [Next]_vars => ReviewInv'
<1> SUFFICES ASSUME ReviewInv, [Next]_vars PROVE ReviewInv'
  OBVIOUS
<1>1. TypeOK /\ RequestInv' /\ NamedAfterChange'
  BY StepOneRequest, StepNamed DEF ReviewInv, RequestInv
<1>2. ASSUME NEW h \in Handlers, NEW c \in Changes, NEW r \in Roles,
             NEW q \in RequestsOf[c], Create(h, c, r, q)
      PROVE ReviewInv'
  BY <1>1, <1>2, BeginReviewed DEF Create
<1>3. ASSUME NEW h \in Handlers, NEW c \in Changes, NEW r \in Roles,
             Submit(h, c, r) \/ Approve(h, c, r)
      PROVE ReviewInv'
  <2>1. \A s : [record[c] EXCEPT !.status = s].status = s
    BY <1>1 DEF TypeOK, Records
  <2>2. CASE Submit(h, c, r)
    BY <1>1, <2>1, <2>2, BeginReviewed DEF Submit
  <2>3. CASE Approve(h, c, r)
    BY <1>1, <2>1, <2>3, BeginReviewed DEF Approve
  <2> QED
    BY <1>3, <2>2, <2>3
<1>4. ASSUME NEW h \in Handlers, NEW c \in Changes, NEW r \in Roles, Merge(h, c, r)
      PROVE ReviewInv'
  BY <1>1, <1>4, BeginReviewed DEF Merge
<1>5. ASSUME NEW h \in Handlers, ApplyOperation(h) PROVE ReviewInv'
  BY <1>1, <1>5, ApplyReviewed
<1>6. ASSUME NEW h \in Handlers, Update(h) PROVE ReviewInv'
  BY <1>1, <1>6, UpdateReviewed
<1>7. ASSUME NEW h \in Handlers, HandlerFails(h) PROVE ReviewInv'
  <2>1. \A g \in Handlers : phase'[g] # "idle" =>
           phase'[g] = phase[g] /\ subject'[g] = subject[g] /\ copy'[g] = copy[g]
    BY <1>1, <1>7, FinishTyped DEF HandlerFails
  <2>2. UNCHANGED <<record, effects, queued, approved, admitted>>
    BY <1>7 DEF HandlerFails, effectVars
  <2>3. ApprovalsStored'
    BY <2>1, <2>2 DEF ReviewInv, ApprovalsStored, Draft, Mergeable
  <2>4. MergesApplied'
    BY <2>1, <2>2 DEF ReviewInv, MergesApplied, Settled, InEffect, DeploysAnother, Admits
  <2> QED
    BY <1>1, <2>2, <2>3, <2>4, StoredStays
<1>8. CASE UNCHANGED <<record, effects, queued, approved, handlerVars, admitted>>
  <2>1. ApprovalsStored'
    BY <1>8 DEF ReviewInv, ApprovalsStored, Draft, Mergeable, handlerVars
  <2>2. MergesApplied'
    BY <1>8 DEF ReviewInv, MergesApplied, Settled, InEffect, DeploysAnother, Admits,
       handlerVars
  <2> QED
    BY <1>1, <1>8, <2>1, <2>2, StoredStays
<1> QED
  BY <1>2, <1>3, <1>4, <1>5, <1>6, <1>7, <1>8
     DEF Next, UpdatePolicies, vars, effectVars

\* The invariant holds before any change is drafted.
LEMMA InitReviewed == Init => ReviewInv
<1> SUFFICES ASSUME Init PROVE ReviewInv
  OBVIOUS
<1>1. TypeOK /\ OneRequest /\ NamedAfterChange /\ QueuedInEffect
  BY InitTypeOK DEF Init, OneRequest, NamedAfterChange, QueuedInEffect
<1>2. ApprovalsStored /\ MergesApplied /\ ApprovedBeforeApplied /\ MergedIsApplied
  BY DEF Init, ApprovalsStored, MergesApplied, ApprovedBeforeApplied, MergedIsApplied, Absent
<1> QED
  BY <1>1, <1>2 DEF ReviewInv, RequestInv

\* What handlers hold, what is stored and what took effect stay consistent however calls
\* interleave, and even if a change is drafted again.
THEOREM ReviewInvariantHolds == Spec => []ReviewInv
  BY InitReviewed, StepReviewed, PTL DEF Spec

\* However calls interleave, and even if a change is drafted again, what takes effect
\* in pull_request mode is what an administrator approved.
THEOREM ReviewIsHonoured == Spec => []ApprovedBeforeApplied
<1>1. ReviewInv => ApprovedBeforeApplied
  BY DEF ReviewInv
<1> QED
  BY <1>1, ReviewInvariantHolds, PTL

\* What is reported as Merged has taken effect, though the merge is recorded in a step
\* of its own that others may come before, unless the change was drafted again and has
\* another deployment in the queue under its id.
THEOREM MergesAreReal == Spec => []MergedIsApplied
<1>1. ReviewInv => MergedIsApplied
  BY DEF ReviewInv
<1> QED
  BY <1>1, ReviewInvariantHolds, PTL
=============================================================================
