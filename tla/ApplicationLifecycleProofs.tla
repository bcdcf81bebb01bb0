---------------------- MODULE ApplicationLifecycleProofs ----------------------
(* Proofs about ApplicationLifecycle, for every value of its constants. *)
EXTENDS ApplicationLifecycle, FiniteSetTheorems, TLAPS

-----------------------------------------------------------------------------
(* The parts of TypeOK. *)

GitTyped ==
    /\ app \in {"absent", "live", "archived"}
    /\ refs \subseteq Kinds
    /\ dir \in BOOLEAN
    /\ app = "absent" => refs = {}
    /\ app # "absent" => dir

VaultTyped ==
    /\ final \in [Kinds -> SUBSET Keys]
    /\ versions \subseteq (SUBSET Keys) \ {{}}
    /\ staged \subseteq Handlers \X Kinds
    /\ old \subseteq staged

AtMostOne(S) == S \subseteq BOOLEAN /\ (S = {} \/ \E x : S = {x})

CallsTyped ==
    /\ op \in [Handlers -> Operations \cup {"none"}]
    /\ phase \in [Handlers -> Phases]
    /\ \A h \in Handlers : op[h] = "none" <=> phase[h] = "idle"
    /\ kinds \in [Handlers -> SUBSET Kinds]
    /\ todo \in [Handlers -> SUBSET Kinds]
    /\ \A h \in Handlers : phase[h] \in {"stage", "final", "unstage", "purge"} => todo[h] # {}
    /\ data \in [Handlers -> SUBSET Keys]
    /\ had \in [Handlers -> BOOLEAN]

\* A call of a kind writes what it began with, and no empty document.
CallInv ==
    \A h \in Handlers :
       /\ op[h] \in {"update", "restore"} => kinds[h] = {"env"}
       /\ op[h] \in {"create", "update", "restore"} => todo[h] \subseteq kinds[h]
       /\ phase[h] = "read" => todo[h] = {"env"}
       /\ phase[h] = "stage" => op[h] \in {"create", "update", "restore"}
       /\ op[h] = "create" => ("env" \in kinds[h] <=> data[h] # {})
       /\ op[h] # "create" /\ phase[h] \in {"stage", "final", "unstage"} => data[h] # {}

TypeInv ==
    /\ GitTyped
    /\ VaultTyped
    /\ AtMostOne(cached) /\ AtMostOne(projection)
    /\ CallsTyped
    /\ CallInv
    /\ admitted \subseteq Disturbances

LEMMA TypeInvImpliesTypeOK == TypeInv => TypeOK
<1>1. ASSUME NEW S, AtMostOne(S) PROVE S \subseteq BOOLEAN /\ Cardinality(S) <= 1
  <2>1. S \subseteq BOOLEAN /\ (S = {} \/ \E x : S = {x})
    BY <1>1 DEF AtMostOne
  <2>2. Cardinality({}) = 0
    BY FS_EmptySet, Zenon
  <2>3. CASE S = {}
    BY <2>1, <2>2, <2>3
  <2>4. CASE \E x : S = {x}
    <3>1. Cardinality(S) = 1
      BY <2>4, FS_Singleton, Zenon
    <3> QED
      BY <2>1, <3>1
  <2> QED
    BY <2>1, <2>3, <2>4
<1> QED
  BY <1>1 DEF TypeInv, GitTyped, VaultTyped, CallsTyped, TypeOK

\* A loop has a next kind while any is left.
LEMMA NextIsLeft ==
    ASSUME NEW S \in SUBSET Kinds, S # {}
    PROVE  NextOf(S) \in S
<1>1. S \subseteq {"env", "repository", "registry"}
  BY LifecycleAssumption DEF Position
<1>2. /\ Position["env"] = 1 /\ Position["repository"] = 2 /\ Position["registry"] = 3
  BY DEF Position
<1>3. \E k \in S : \A j \in S : Position[k] <= Position[j]
  <2>1. CASE "env" \in S
    BY <1>1, <1>2, <2>1
  <2>2. CASE "env" \notin S /\ "repository" \in S
    BY <1>1, <1>2, <2>2
  <2>3. CASE S = {"registry"}
    BY <1>2, <2>3
  <2> QED
    BY <1>1, <2>1, <2>2, <2>3
<1> QED
  BY <1>3 DEF NextOf

LEMMA ListingIsOne == ASSUME NEW a, NEW r PROVE AtMostOne(Listing(a, r))
<1>1. CASE a = "live"
  <2>1. Listing(a, r) = {"env" \in r} /\ ("env" \in r) \in BOOLEAN
    BY <1>1 DEF Listing
  <2> QED
    BY <2>1, Zenon DEF AtMostOne
<1>2. CASE a # "live"
  BY <1>2 DEF Listing, AtMostOne
<1> QED
  BY <1>1, <1>2

-----------------------------------------------------------------------------
(* What beginning, going on and ending change of the calls. *)

KeepsOthers(h) ==
    \A g \in Handlers \ {h} :
       /\ op'[g] = op[g] /\ phase'[g] = phase[g] /\ kinds'[g] = kinds[g]
       /\ todo'[g] = todo[g] /\ data'[g] = data[g] /\ had'[g] = had[g]

LEMMA BeginAt ==
    ASSUME CallsTyped, NEW h \in Handlers, NEW o \in Operations, NEW next \in Phases \ {"idle"},
           NEW K \in SUBSET Kinds, NEW D \in SUBSET Keys, NEW c \in BOOLEAN,
           next \in {"stage", "final", "unstage", "purge"} => K # {},
           Begin(h, o, next, K, D, c)
    PROVE  /\ CallsTyped'
           /\ op'[h] = o /\ phase'[h] = next /\ kinds'[h] = K /\ todo'[h] = K
           /\ data'[h] = D /\ had'[h] = c
           /\ KeepsOthers(h)
  BY DEF CallsTyped, Begin, Operations, KeepsOthers

LEMMA GoOnAt ==
    ASSUME CallsTyped, NEW h \in Handlers, NEW next \in Phases \ {"idle"},
           NEW S \in SUBSET Kinds, phase[h] # "idle",
           next \in {"stage", "final", "unstage", "purge"} => S # {},
           GoOn(h, next, S)
    PROVE  /\ CallsTyped'
           /\ phase'[h] = next /\ todo'[h] = S
           /\ op'[h] = op[h] /\ kinds'[h] = kinds[h] /\ data'[h] = data[h] /\ had'[h] = had[h]
           /\ KeepsOthers(h)
  BY DEF CallsTyped, GoOn, KeepsOthers

LEMMA FinishAt ==
    ASSUME CallsTyped, NEW h \in Handlers, Finish(h)
    PROVE  /\ CallsTyped'
           /\ op'[h] = "none" /\ phase'[h] = "idle" /\ kinds'[h] = {} /\ todo'[h] = {}
           /\ data'[h] = {} /\ had'[h] = FALSE
           /\ KeepsOthers(h)
  BY DEF CallsTyped, Finish, Phases, KeepsOthers

\* A call that ends has nothing more to respect.
LEMMA FinishKeepsCallInv ==
    ASSUME CallsTyped, CallInv, NEW h \in Handlers, Finish(h)
    PROVE  CallInv'
<1>1. /\ op'[h] = "none" /\ phase'[h] = "idle" /\ KeepsOthers(h)
  BY FinishAt
<1> SUFFICES ASSUME NEW g \in Handlers
    PROVE /\ op'[g] \in {"update", "restore"} => kinds'[g] = {"env"}
          /\ op'[g] \in {"create", "update", "restore"} => todo'[g] \subseteq kinds'[g]
          /\ phase'[g] = "read" => todo'[g] = {"env"}
          /\ phase'[g] = "stage" => op'[g] \in {"create", "update", "restore"}
          /\ op'[g] = "create" => ("env" \in kinds'[g] <=> data'[g] # {})
          /\ op'[g] # "create" /\ phase'[g] \in {"stage", "final", "unstage"} => data'[g] # {}
  BY Zenon DEF CallInv
<1>2. CASE g = h
  BY <1>1, <1>2
<1>3. CASE g # h
  BY <1>1, <1>3 DEF CallInv, KeepsOthers
<1> QED
  BY <1>2, <1>3

\* A failed call leaves everything else as it is.
LEMMA FailTyped == ASSUME TypeInv, NEW h \in Handlers, Fail(h) PROVE TypeInv'
<1>1. CallsTyped /\ Finish(h)
  BY DEF TypeInv, Fail
<1>2. CallInv'
  BY <1>1, FinishKeepsCallInv DEF TypeInv
<1>3. GitTyped' /\ VaultTyped'
  BY DEF TypeInv, Fail, gitVars, vaultVars, GitTyped, VaultTyped
<1> QED
  BY <1>1, <1>2, <1>3, FinishAt DEF TypeInv, Fail, cacheVars, AtMostOne

\* A commit leaves the repository and the catalog well typed.
LEMMA CommitTyped ==
    ASSUME TypeInv, NEW a \in {"absent", "live", "archived"}, NEW r \in SUBSET Kinds,
           NEW d \in BOOLEAN, a = "absent" => r = {}, a # "absent" => d,
           Commit(a, r, d)
    PROVE  /\ GitTyped' /\ VaultTyped'
           /\ AtMostOne(cached') /\ AtMostOne(projection')
           /\ admitted' \subseteq Disturbances
<1>1. GitTyped' /\ VaultTyped'
  BY DEF Commit, TypeInv, GitTyped, VaultTyped, vaultVars
<1>2. AtMostOne(cached')
  BY ListingIsOne DEF Commit, AtMostOne
<1> QED
  BY <1>1, <1>2 DEF Commit, TypeInv

\* A new call is well typed.
LEMMA CallTyped == ASSUME TypeInv, NEW h \in Handlers, Call(h) PROVE TypeInv'
<1>1. ASSUME NEW o \in Operations, NEW next \in {"read", "stage", "commit", "event"},
             NEW K \in SUBSET Kinds, NEW D \in SUBSET Keys, NEW c \in BOOLEAN,
             Begin(h, o, next, K, D, c), next = "stage" => K # {} /\ o = "create",
             next = "read" => o \in {"update", "restore"}, o \in {"update", "restore"} => K = {"env"},
             o = "create" => ("env" \in K <=> D # {})
      PROVE  TypeInv'
  <2>1. CallsTyped /\ next \in Phases \ {"idle"}
    BY DEF TypeInv, Phases
  <2>2. /\ CallsTyped'
        /\ op'[h] = o /\ phase'[h] = next /\ kinds'[h] = K /\ todo'[h] = K
        /\ data'[h] = D /\ had'[h] = c
        /\ KeepsOthers(h)
    BY <1>1, <2>1, BeginAt
  <2>3. CallInv'
    BY <1>1, <2>2 DEF TypeInv, CallInv, KeepsOthers
  <2>4. GitTyped' /\ VaultTyped' /\ UNCHANGED <<cacheVars, admitted>>
    BY <1>1 DEF TypeInv, Begin, gitVars, vaultVars, GitTyped, VaultTyped
  <2> QED
    BY <2>2, <2>3, <2>4 DEF TypeInv, cacheVars, AtMostOne
<1>2. {"env"} \in SUBSET Kinds /\ {} \in SUBSET Kinds /\ {} \in SUBSET Keys
  BY LifecycleAssumption
<1>3. ASSUME NEW K \in SUBSET Kinds, NEW D \in SUBSET Keys, CreateApplication(h, K, D)
      PROVE  TypeInv'
  <2>1. CASE K = {}
    <3>1. Begin(h, "create", "commit", K, D, FALSE) /\ ("env" \in K <=> D # {})
      BY <1>3, <2>1 DEF CreateApplication
    <3> QED
      BY <3>1, <1>1 DEF Operations
  <2>2. CASE K # {}
    <3>1. Begin(h, "create", "stage", K, D, FALSE) /\ ("env" \in K <=> D # {})
      BY <1>3, <2>2 DEF CreateApplication
    <3> QED
      BY <2>2, <3>1, <1>1 DEF Operations
  <2> QED
    BY <2>1, <2>2
<1>4. CASE UpdateApplicationSecrets(h)
  <2>1. PICK c \in BOOLEAN : Begin(h, "update", "read", {"env"}, {}, c)
    BY <1>4 DEF UpdateApplicationSecrets
  <2> QED
    BY <2>1, <1>1, <1>2 DEF Operations
<1>5. CASE RestoreApplicationSecretVersion(h)
  <2>1. Begin(h, "restore", "read", {"env"}, {}, TRUE)
    BY <1>5 DEF RestoreApplicationSecretVersion
  <2> QED
    BY <2>1, <1>1, <1>2 DEF Operations
<1>6. CASE ArchiveApplication(h)
  <2>1. Begin(h, "archive", "commit", {}, {}, FALSE)
    BY <1>6 DEF ArchiveApplication
  <2> QED
    BY <2>1, <1>1, <1>2 DEF Operations
<1>7. CASE DeleteApplication(h)
  <2>1. Begin(h, "delete", "commit", {}, {}, FALSE)
    BY <1>7 DEF DeleteApplication
  <2> QED
    BY <2>1, <1>1, <1>2 DEF Operations
<1>8. CASE OtherCall(h)
  <2>1. Begin(h, "other", "event", {}, {}, FALSE)
    BY <1>8 DEF OtherCall
  <2> QED
    BY <2>1, <1>1, <1>2 DEF Operations
<1> QED
  BY <1>3, <1>4, <1>5, <1>6, <1>7, <1>8 DEF Call
\* Reading the environment, or one of its versions.
LEMMA ReadTyped ==
    ASSUME TypeInv, NEW h \in Handlers, NEW S \in SUBSET Keys, NEW D \in SUBSET Keys,
           ReadValues(h, S, D) \/ ReadVersion(h)
    PROVE  TypeInv'
<1>1. ASSUME NEW next \in SUBSET Keys, NEW p \in {"commit", "stage", "event"},
             phase[h] = "read", op[h] \in {"update", "restore"},
             p = "stage" => next # {},
             data' = [data EXCEPT ![h] = next], phase' = [phase EXCEPT ![h] = p],
             UNCHANGED <<gitVars, vaultVars, cacheVars, op, kinds, todo, had, admitted>>
      PROVE  TypeInv'
  <2>1. /\ CallsTyped /\ todo[h] = {"env"}
        /\ UNCHANGED <<op, kinds, todo, had, admitted>>
    BY <1>1 DEF TypeInv, CallInv
  <2>2. phase' \in [Handlers -> Phases] /\ data' \in [Handlers -> SUBSET Keys]
    BY <1>1, <2>1 DEF CallsTyped, Phases
  <2>3. CallsTyped'
    BY <1>1, <2>1, <2>2 DEF CallsTyped
  <2>4. CallInv'
    BY <1>1, <2>1 DEF TypeInv, CallsTyped, CallInv
  <2>5. GitTyped' /\ VaultTyped' /\ UNCHANGED <<cacheVars, admitted>>
    BY <1>1 DEF TypeInv, gitVars, vaultVars, GitTyped, VaultTyped
  <2> QED
    BY <2>3, <2>4, <2>5 DEF TypeInv, cacheVars, AtMostOne
<1>2. CASE ReadValues(h, S, D)
  <2> DEFINE next == (CurrentValues(h) \ D) \cup S
             p == IF (next # {}) # had[h] THEN "commit"
                  ELSE IF next # {} THEN "stage" ELSE "event"
  <2>1. next \in SUBSET Keys
    BY LifecycleAssumption DEF CurrentValues, Get, TypeInv, VaultTyped
  <2>2. /\ phase[h] = "read" /\ op[h] = "update"
        /\ data' = [data EXCEPT ![h] = next] /\ phase' = [phase EXCEPT ![h] = p]
        /\ UNCHANGED <<gitVars, vaultVars, cacheVars, op, kinds, todo, had, admitted>>
    BY <1>2 DEF ReadValues
  <2>3. p \in {"commit", "stage", "event"} /\ (p = "stage" => next # {})
    OBVIOUS
  <2> HIDE DEF next, p
  <2> QED
    BY <1>1, <2>1, <2>2, <2>3
<1>3. CASE ReadVersion(h) /\ ~Fail(h)
  <2>1. /\ phase[h] = "read" /\ op[h] = "restore"
        /\ \E v \in versions :
              /\ data' = [data EXCEPT ![h] = v] /\ phase' = [phase EXCEPT ![h] = "stage"]
              /\ UNCHANGED <<gitVars, vaultVars, cacheVars, op, kinds, todo, had, admitted>>
    BY <1>3 DEF ReadVersion
  <2>2. PICK v \in versions :
              /\ data' = [data EXCEPT ![h] = v] /\ phase' = [phase EXCEPT ![h] = "stage"]
              /\ UNCHANGED <<gitVars, vaultVars, cacheVars, op, kinds, todo, had, admitted>>
    BY <2>1
  <2>3. v \in SUBSET Keys /\ v # {}
    BY DEF TypeInv, VaultTyped
  <2> QED
    BY <1>1, <2>1, <2>2, <2>3
<1> QED
  BY <1>2, <1>3, FailTyped

\* Going on with a loop: what a step of the secret store leaves well typed.
LEMMA GoOnTyped ==
    ASSUME TypeInv, NEW h \in Handlers, NEW next \in Phases \ {"idle", "read"},
           NEW S \in SUBSET Kinds, phase[h] # "idle", GoOn(h, next, S),
           next \in {"stage", "final", "unstage", "purge"} => S # {},
           op[h] \in {"create", "update", "restore"} => S \subseteq kinds[h],
           next = "stage" => op[h] \in {"create", "update", "restore"},
           op[h] # "create" /\ next \in {"stage", "final", "unstage"} => data[h] # {}
    PROVE  CallsTyped' /\ CallInv'
<1>1. CallsTyped /\ next \in Phases \ {"idle"}
  BY DEF TypeInv
<1>2. /\ CallsTyped'
      /\ phase'[h] = next /\ todo'[h] = S
      /\ op'[h] = op[h] /\ kinds'[h] = kinds[h] /\ data'[h] = data[h] /\ had'[h] = had[h]
      /\ KeepsOthers(h)
  BY <1>1, GoOnAt
<1> QED
  BY <1>2 DEF TypeInv, CallInv, KeepsOthers

\* The loops over secrets.
LEMMA LoopTyped ==
    ASSUME TypeInv, NEW h \in Handlers,
           StageAt(h) \/ Finalize(h) \/ DeleteStaged(h) \/ DeleteSecret(h)
    PROVE  TypeInv'
<1> DEFINE k == NextOf(todo[h])
           rest == todo[h] \ {k}
<1>1. /\ phase[h] \in {"stage", "final", "unstage", "purge"}
      /\ todo[h] \in SUBSET Kinds /\ todo[h] # {} /\ kinds[h] \in SUBSET Kinds
      /\ phase[h] # "idle" /\ op[h] \in Operations
  BY DEF StageAt, Finalize, DeleteStaged, DeleteSecret, TypeInv, CallsTyped
<1>2. k \in todo[h] /\ k \in Kinds /\ rest \in SUBSET Kinds /\ todo[h] \in SUBSET Kinds
  BY <1>1, NextIsLeft
<1>3. UNCHANGED <<gitVars, cacheVars, admitted>>
  BY DEF StageAt, Finalize, DeleteStaged, DeleteSecret
<1>4. /\ op[h] \in {"create", "update", "restore"} => todo[h] \subseteq kinds[h] /\ kinds[h] # {}
      /\ phase[h] = "stage" => op[h] \in {"create", "update", "restore"}
      /\ op[h] # "create" /\ phase[h] \in {"stage", "final", "unstage"} => data[h] # {}
      /\ op[h] = "create" => ("env" \in kinds[h] <=> data[h] # {})
  BY <1>1 DEF TypeInv, CallInv
<1>5. GitTyped' /\ AtMostOne(cached') /\ AtMostOne(projection') /\ admitted' \subseteq Disturbances
  BY <1>3 DEF TypeInv, gitVars, cacheVars, GitTyped
<1>6. CASE StageAt(h)
  <2>1. CallsTyped' /\ CallInv'
    <3>1. CASE rest # {}
      BY <1>1, <1>2, <1>4, <1>6, <3>1, GoOnTyped DEF StageAt, Phases
    <3>2. CASE rest = {} /\ op[h] = "create"
      <4>1. GoOn(h, "commit", kinds[h])
        BY <1>6, <3>2 DEF StageAt
      <4> QED
        BY <1>1, <1>4, <3>2, <4>1, GoOnTyped DEF Phases
    <3>3. CASE rest = {} /\ op[h] # "create"
      <4>1. GoOn(h, "final", kinds[h]) /\ phase[h] = "stage"
        BY <1>6, <3>3 DEF StageAt
      <4> QED
        BY <1>1, <1>4, <3>3, <4>1, GoOnTyped DEF Phases
    <3> QED
      BY <3>1, <3>2, <3>3
  <2>2. VaultTyped'
    BY <1>2, <1>6 DEF StageAt, TypeInv, VaultTyped
  <2> QED
    BY <1>5, <2>1, <2>2 DEF TypeInv
<1>7. CASE Finalize(h)
  <2>1. GoOn(h, "unstage", todo[h]) /\ phase[h] = "final"
    BY <1>7 DEF Finalize
  <2>2. CallsTyped' /\ CallInv'
    BY <1>1, <1>4, <2>1, GoOnTyped DEF Phases
  <2>3. Payload(h, k) \in SUBSET Keys /\ data[h] \in SUBSET Keys
    BY DEF TypeInv, CallsTyped, Payload
  <2>4. k = "env" => data[h] # {}
    <3>1. CASE op[h] = "create"
      BY <1>2, <1>4, <3>1
    <3> QED
      BY <1>4, <2>1, <3>1
  <2>5. final' \in [Kinds -> SUBSET Keys]
    BY <1>2, <1>7, <2>3 DEF Finalize, TypeInv, VaultTyped
  <2>6. versions' \subseteq (SUBSET Keys) \ {{}}
    BY <1>7, <2>3, <2>4 DEF Finalize, TypeInv, VaultTyped
  <2>7. VaultTyped'
    BY <1>7, <2>5, <2>6 DEF Finalize, TypeInv, VaultTyped
  <2> QED
    BY <1>5, <2>2, <2>7 DEF TypeInv
<1>8. CASE DeleteStaged(h)
  <2>1. CallsTyped' /\ CallInv'
    <3>1. CASE rest # {}
      <4>1. GoOn(h, "final", rest) /\ phase[h] = "unstage"
        BY <1>8, <3>1 DEF DeleteStaged
      <4> QED
        BY <1>1, <1>2, <1>4, <3>1, <4>1, GoOnTyped DEF Phases
    <3>2. CASE rest = {}
      <4>1. GoOn(h, "event", {})
        BY <1>8, <3>2 DEF DeleteStaged
      <4> QED
        BY <1>1, <4>1, GoOnTyped DEF Phases
    <3> QED
      BY <3>1, <3>2
  <2>2. VaultTyped'
    BY <1>2, <1>8 DEF DeleteStaged, TypeInv, VaultTyped
  <2> QED
    BY <1>5, <2>1, <2>2 DEF TypeInv
<1>9. CASE DeleteSecret(h)
  <2>1. CallsTyped' /\ CallInv'
    <3>1. CASE rest # {}
      <4>1. GoOn(h, "purge", rest)
        BY <1>9, <3>1 DEF DeleteSecret
      <4> QED
        BY <1>1, <1>2, <1>4, <3>1, <4>1, GoOnTyped DEF Phases
    <3>2. CASE rest = {} /\ op[h] # "delete"
      <4>1. GoOn(h, "event", {})
        BY <1>9, <3>2 DEF DeleteSecret
      <4> QED
        BY <1>1, <4>1, GoOnTyped DEF Phases
    <3>3. CASE Finish(h)
      <4>1. CallsTyped /\ CallInv
        BY DEF TypeInv
      <4> QED
        BY <3>3, <4>1, FinishAt, FinishKeepsCallInv
    <3> QED
      BY <1>9, <3>1, <3>2, <3>3 DEF DeleteSecret
  <2>2. VaultTyped'
    BY <1>2, <1>9 DEF DeleteSecret, TypeInv, VaultTyped
  <2> QED
    BY <1>5, <2>1, <2>2 DEF TypeInv
<1> QED
  BY <1>6, <1>7, <1>8, <1>9
\* The commits.
LEMMA CommitsTyped ==
    ASSUME TypeInv, NEW h \in Handlers,
           \/ CommitCreate(h) \/ SaveApplicationSecretPath(h)
           \/ CommitArchive(h) \/ CommitDelete(h)
    PROVE  TypeInv'
<1>1. /\ phase[h] = "commit" /\ kinds[h] \in SUBSET Kinds /\ refs \in SUBSET Kinds
      /\ op[h] = "create" => ("env" \in kinds[h] <=> data[h] # {})
      /\ op[h] = "update" => kinds[h] = {"env"}
      /\ {"env"} \in SUBSET Kinds /\ {} \in SUBSET Kinds
  BY LifecycleAssumption
     DEF CommitCreate, SaveApplicationSecretPath, CommitArchive, CommitDelete, TypeInv,
         GitTyped, CallsTyped, CallInv
<1>2. CASE CommitCreate(h) /\ ~Fail(h)
  <2>1. /\ op[h] = "create" /\ Commit("live", kinds[h], TRUE)
        /\ IF kinds[h] = {} THEN GoOn(h, "event", {}) ELSE GoOn(h, "final", kinds[h])
    BY <1>2 DEF CommitCreate
  <2>2. CallsTyped' /\ CallInv'
    BY <1>1, <2>1, GoOnTyped DEF Phases
  <2> QED
    BY <1>1, <2>1, <2>2, CommitTyped DEF TypeInv
<1>3. CASE SaveApplicationSecretPath(h) /\ ~Fail(h)
  <2>1. op[h] = "update"
    BY <1>3 DEF SaveApplicationSecretPath
  <2>2. CASE data[h] # {}
    <3>1. Commit("live", refs \cup {"env"}, TRUE) /\ GoOn(h, "stage", {"env"})
      BY <1>3, <2>2 DEF SaveApplicationSecretPath
    <3>2. CallsTyped' /\ CallInv'
      BY <1>1, <2>1, <2>2, <3>1, GoOnTyped DEF Phases
    <3> QED
      BY <1>1, <3>1, <3>2, CommitTyped DEF TypeInv
  <2>3. CASE data[h] = {}
    <3>1. Commit("live", refs \ {"env"}, TRUE) /\ GoOn(h, "purge", {"env"})
      BY <1>3, <2>3 DEF SaveApplicationSecretPath
    <3>2. CallsTyped' /\ CallInv'
      BY <1>1, <2>1, <3>1, GoOnTyped DEF Phases
    <3> QED
      BY <1>1, <3>1, <3>2, CommitTyped DEF TypeInv
  <2> QED
    BY <2>2, <2>3
<1>4. CASE CommitArchive(h) /\ ~Fail(h)
  <2>1. Commit("archived", refs, TRUE) /\ GoOn(h, "event", {})
    BY <1>4 DEF CommitArchive
  <2>2. CallsTyped' /\ CallInv'
    BY <1>1, <2>1, GoOnTyped DEF Phases
  <2> QED
    BY <1>1, <2>1, <2>2, CommitTyped DEF TypeInv
<1>5. CASE CommitDelete(h) /\ ~Fail(h)
  <2>1. /\ op[h] = "delete" /\ Commit("absent", {}, FALSE)
        /\ IF refs = {} THEN Finish(h) ELSE GoOn(h, "purge", refs)
    BY <1>5 DEF CommitDelete, CollectSecretPaths
  <2>2. CallsTyped' /\ CallInv'
    <3>1. CASE refs = {}
      <4>1. CallsTyped /\ CallInv /\ Finish(h)
        BY <2>1, <3>1 DEF TypeInv
      <4> QED
        BY <4>1, FinishAt, FinishKeepsCallInv
    <3>2. CASE refs # {}
      BY <1>1, <2>1, <3>2, GoOnTyped DEF Phases
    <3> QED
      BY <3>1, <3>2
  <2> QED
    BY <1>1, <2>1, <2>2, CommitTyped DEF TypeInv
<1> QED
  BY <1>2, <1>3, <1>4, <1>5, FailTyped

\* The event, and the steps in the background.
LEMMA EventTyped == ASSUME TypeInv, NEW h \in Handlers, AppendEvent(h) PROVE TypeInv'
<1>1. CallsTyped /\ Finish(h) /\ UNCHANGED <<app, refs, vaultVars, cacheVars, admitted>>
  BY DEF TypeInv, AppendEvent
<1>2. GitTyped' /\ VaultTyped'
  <2>1. dir' = dir \/ dir' = TRUE
    BY DEF AppendEvent
  <2>2. GitTyped'
    BY <1>1, <2>1 DEF TypeInv, GitTyped
  <2> QED
    BY <1>1, <2>2 DEF TypeInv, VaultTyped, vaultVars
<1>3. CallInv'
  BY <1>1, FinishKeepsCallInv DEF TypeInv
<1> QED
  BY <1>1, <1>2, <1>3, FinishAt DEF TypeInv, cacheVars

LEMMA BackgroundTyped == ASSUME TypeInv, Background PROVE TypeInv'
<1>1. UNCHANGED <<gitVars, callVars, admitted>> /\ UNCHANGED <<final, versions>>
  BY DEF Background, ListApplications, ReplaceProjectApplications, Expire, Age, CleanupStale,
         vaultVars
<1>2. GitTyped' /\ CallsTyped' /\ CallInv' /\ admitted' \subseteq Disturbances
  BY <1>1 DEF TypeInv, gitVars, callVars, GitTyped, CallsTyped, CallInv
<1>3. AtMostOne(cached') /\ AtMostOne(projection')
  BY ListingIsOne DEF Background, ListApplications, ReplaceProjectApplications, Expire, Age,
     CleanupStale, cacheVars, TypeInv, AtMostOne
<1>4. VaultTyped'
  <2>1. staged' \subseteq staged /\ old' \subseteq staged'
    BY DEF Background, ListApplications, ReplaceProjectApplications, Expire, Age,
       CleanupStale, vaultVars, TypeInv, VaultTyped, Stale
  <2> QED
    BY <1>1, <2>1 DEF TypeInv, VaultTyped
<1> QED
  BY <1>2, <1>3, <1>4 DEF TypeInv

\* Every reachable state of the application, its secrets, the catalog and the calls is
\* well typed, and a call writes what it began with.
THEOREM InvariantHolds == Spec => []TypeInv
<1>1. Init => TypeInv
  <2> SUFFICES ASSUME Init PROVE TypeInv
    OBVIOUS
  <2>1. GitTyped /\ VaultTyped
    BY DEF Init, GitTyped, VaultTyped
  <2>2. CallsTyped /\ CallInv
    BY DEF Init, CallsTyped, CallInv, Phases
  <2> QED
    BY <2>1, <2>2, LifecycleAssumption DEF Init, TypeInv, AtMostOne
<1>2. TypeInv /\ [Next]_vars => TypeInv'
  <2> SUFFICES ASSUME TypeInv, [Next]_vars PROVE TypeInv'
    OBVIOUS
  <2>1. ASSUME NEW h \in Handlers, Step(h) PROVE TypeInv'
    BY <2>1, ReadTyped, LoopTyped, CommitsTyped, EventTyped DEF Step, normalizeSecretDeleteKeys
  <2>2. ASSUME NEW h \in Handlers, Stop(h) PROVE TypeInv'
    BY <2>2, FailTyped DEF Stop
  <2>3. CASE UNCHANGED vars
    BY <2>3 DEF vars, gitVars, vaultVars, cacheVars, callVars, TypeInv, GitTyped, VaultTyped,
       CallsTyped, CallInv, AtMostOne
  <2> QED
    BY <2>1, <2>2, <2>3, CallTyped, BackgroundTyped DEF Next
<1> QED
  BY <1>1, <1>2, PTL DEF Spec

THEOREM TypeCorrect == Spec => []TypeOK
  BY InvariantHolds, TypeInvImpliesTypeOK, PTL
-----------------------------------------------------------------------------
(* The order of the lifecycle. *)

\* A step of LifecycleOrder.
InOrder ==
    /\ app = "archived" /\ app' # "absent" => app' = app /\ refs' = refs
    /\ app = "absent" /\ app' # "absent" =>
          \E h \in Handlers : op[h] = "create" /\ phase[h] = "commit" /\ phase'[h] # "commit"

\* Calls that overlap, read stale records and end anywhere never bring back an
\* archived application, nor a deleted one but by creating it: each commit looks at
\* the directory or the metadata that it changes.
THEOREM LifecycleIsOrdered == Spec => LifecycleOrder
<1>1. ASSUME TypeInv, Next PROVE InOrder
  <2>1. ASSUME NEW h \in Handlers, CommitCreate(h), ~Fail(h) PROVE InOrder
    <3>1. /\ ~dir /\ op[h] = "create" /\ phase[h] = "commit" /\ app' = "live"
          /\ \E S : GoOn(h, "event", S) \/ GoOn(h, "final", S)
      BY <2>1 DEF CommitCreate, Conflict, Commit
    <3>2. app = "absent"
      BY <1>1, <3>1 DEF TypeInv, GitTyped
    <3>3. phase'[h] # "commit"
      BY <1>1, <3>1 DEF TypeInv, CallsTyped, GoOn
    <3> QED
      BY <3>1, <3>2, <3>3 DEF InOrder
  <2>2. ASSUME NEW h \in Handlers,
               SaveApplicationSecretPath(h) \/ CommitArchive(h) \/ CommitDelete(h), ~Fail(h)
        PROVE  InOrder
    BY <2>2 DEF SaveApplicationSecretPath, CommitArchive, CommitDelete, Commit, InOrder
  <2>3. CASE UNCHANGED <<app, refs>>
    BY <2>3 DEF InOrder
  <2>4. ASSUME NEW h \in Handlers, Fail(h) PROVE UNCHANGED <<app, refs>>
    BY <2>4 DEF Fail, gitVars
  <2>5. ASSUME NEW h \in Handlers, Step(h) PROVE InOrder
    <3>1. \/ UNCHANGED <<app, refs>> \/ Fail(h) \/ CommitCreate(h)
          \/ SaveApplicationSecretPath(h) \/ CommitArchive(h) \/ CommitDelete(h)
      BY <2>5 DEF Step, normalizeSecretDeleteKeys, ReadValues, ReadVersion, StageAt, Finalize, DeleteStaged, DeleteSecret,
         AppendEvent, gitVars
    <3> QED
      BY <2>1, <2>2, <2>3, <2>4, <3>1
  <2>6. ASSUME NEW h \in Handlers, Call(h) PROVE UNCHANGED <<app, refs>>
    BY <2>6 DEF Call, CreateApplication, UpdateApplicationSecrets,
       RestoreApplicationSecretVersion, ArchiveApplication, DeleteApplication, OtherCall,
       Begin, gitVars
  <2>7. ASSUME Background PROVE UNCHANGED <<app, refs>>
    BY <2>7 DEF Background, ListApplications, ReplaceProjectApplications, Expire, Age,
       CleanupStale, gitVars
  <2> QED
    BY <1>1, <2>3, <2>4, <2>5, <2>6, <2>7 DEF Next, Stop
<1>2. ASSUME TypeInv, [Next]_vars PROVE [InOrder]_vars
  BY <1>1, <1>2
<1> QED
  BY <1>2, InvariantHolds, PTL DEF Spec, LifecycleOrder, InOrder
-----------------------------------------------------------------------------
(* One call after another, or creations that race: what a call has read and done so   *)
(* far still holds, because no other call changes the application under it.           *)

Undisturbed == Free({"overlap", "stale"})

\* What call h may rely on.
Relies(h) ==
    /\ op[h] \in {"update", "restore", "other"} => app = "live"
    /\ op[h] = "create" /\ phase[h] \in {"final", "unstage", "event"} => app = "live"
    /\ op[h] = "create" /\ phase[h] \in {"final", "unstage"} => kinds[h] \subseteq refs
    /\ op[h] = "update" /\ phase[h] = "read" => (had[h] <=> "env" \in refs)
    /\ op[h] = "restore" /\ phase[h] = "read" => "env" \in refs
    /\ op[h] \in {"update", "restore"} /\ phase[h] \in {"stage", "final", "unstage"}
          => "env" \in refs
    /\ op[h] = "archive" /\ phase[h] = "event" => app = "archived"
    /\ op[h] = "delete" => phase[h] # "event"
    /\ phase[h] \in {"final", "unstage"} => op[h] \in {"create", "update", "restore"}
    /\ phase[h] = "purge" => op[h] \in {"update", "delete"}

Alone ==
    \A g, h \in Handlers :
       g # h /\ op[g] # "none" /\ op[h] # "none" => op[g] = "create" /\ op[h] = "create"

SequentialInv ==
    Undisturbed =>
       /\ cached = Listing(app, refs)
       /\ dir <=> app # "absent"
       /\ Alone
       /\ \A h \in Handlers : Relies(h)

\* A call that goes on or ends, and leaves Git and the catalog, disturbs no other.
LEMMA GoesOnAlone ==
    ASSUME TypeInv, TypeInv', SequentialInv, NEW h \in Handlers, KeepsOthers(h),
           UNCHANGED <<app, refs, dir, cached, admitted>>,
           op'[h] \in {op[h], "none"}, Undisturbed => Relies(h)'
    PROVE  SequentialInv'
<1> SUFFICES ASSUME Undisturbed
             PROVE  /\ cached' = Listing(app', refs') /\ (dir' <=> app' # "absent")
                    /\ Alone' /\ \A g \in Handlers : Relies(g)'
  BY DEF SequentialInv, Undisturbed, Free
<1>1. /\ cached' = Listing(app', refs') /\ (dir' <=> app' # "absent")
      /\ Alone /\ \A g \in Handlers : Relies(g)
  BY DEF SequentialInv
<1>2. Alone'
  BY <1>1 DEF Alone, KeepsOthers
<1>3. ASSUME NEW g \in Handlers, g # h PROVE Relies(g)'
  BY <1>1, <1>3 DEF Relies, KeepsOthers
<1> QED
  BY <1>1, <1>2, <1>3

LEMMA FailsAlone ==
    ASSUME TypeInv, TypeInv', SequentialInv, NEW h \in Handlers, Fail(h)
    PROVE  SequentialInv'
<1>1. CallsTyped /\ Finish(h) /\ UNCHANGED <<app, refs, dir, cached, admitted>>
  BY DEF TypeInv, Fail, gitVars, cacheVars
<1>2. op'[h] = "none" /\ phase'[h] = "idle" /\ KeepsOthers(h)
  BY <1>1, FinishAt
<1>3. Relies(h)'
  BY <1>2 DEF Relies
<1> QED
  BY <1>1, <1>2, <1>3, GoesOnAlone

\* Reading, staging, finalizing, removing and recording disturb no other call.
LEMMA StepsAlone ==
    ASSUME TypeInv, TypeInv', SequentialInv, NEW h \in Handlers, ~Fail(h),
           \/ \E S \in SUBSET Keys : \E D \in SUBSET (Keys \ S) : ReadValues(h, S, D)
           \/ ReadVersion(h) \/ StageAt(h) \/ Finalize(h) \/ DeleteStaged(h)
           \/ DeleteSecret(h) \/ AppendEvent(h)
    PROVE  SequentialInv'
<1>1. /\ CallsTyped /\ CallInv /\ phase[h] \in Phases /\ phase[h] # "idle"
      /\ op[h] \in Operations /\ op[h] # "none"
  BY DEF TypeInv, CallsTyped, ReadValues, ReadVersion, StageAt, Finalize, DeleteStaged,
         DeleteSecret, AppendEvent
<1>2. Undisturbed => Relies(h) /\ (dir <=> app # "absent")
  BY DEF SequentialInv
<1>3. CASE \E S \in SUBSET Keys : \E D \in SUBSET (Keys \ S) : ReadValues(h, S, D)
  <2>1. PICK S \in SUBSET Keys, D \in SUBSET Keys : ReadValues(h, S, D)
    BY <1>3
  <2>2. /\ op[h] = "update" /\ phase[h] = "read" /\ op'[h] = op[h] /\ KeepsOthers(h)
        /\ UNCHANGED <<app, refs, dir, cached, admitted>>
        /\ phase'[h] \in {"commit", "stage", "event"}
        /\ phase'[h] = "stage" => had[h]
    BY <1>1, <2>1 DEF ReadValues, CallsTyped, KeepsOthers, gitVars, cacheVars
  <2>3. Undisturbed => Relies(h)'
    BY <1>2, <2>2 DEF Relies
  <2> QED
    BY <2>2, <2>3, GoesOnAlone
<1>4. CASE ReadVersion(h)
  <2>1. /\ op[h] = "restore" /\ phase[h] = "read" /\ op'[h] = op[h] /\ KeepsOthers(h)
        /\ UNCHANGED <<app, refs, dir, cached, admitted>> /\ phase'[h] = "stage"
    BY <1>1, <1>4 DEF ReadVersion, CallsTyped, KeepsOthers, gitVars, cacheVars
  <2>2. Undisturbed => Relies(h)'
    BY <1>2, <2>1 DEF Relies
  <2> QED
    BY <2>1, <2>2, GoesOnAlone
<1>5. ASSUME NEW next \in {"stage", "commit", "final", "unstage", "purge", "event"}, NEW S,
             GoOn(h, next, S)
      PROVE  op'[h] = op[h] /\ phase'[h] = next /\ kinds'[h] = kinds[h] /\ KeepsOthers(h)
  BY <1>1, <1>5 DEF GoOn, CallsTyped, KeepsOthers
<1>6. CASE StageAt(h)
  <2>1. /\ op[h] \in {"create", "update", "restore"} /\ phase[h] = "stage"
        /\ UNCHANGED <<app, refs, dir, cached, admitted>>
    BY <1>1, <1>6 DEF StageAt, gitVars, cacheVars, CallInv
  <2>2. \E S : \/ GoOn(h, "stage", S)
               \/ GoOn(h, "commit", S) /\ op[h] = "create"
               \/ GoOn(h, "final", S) /\ op[h] # "create"
    BY <1>6 DEF StageAt
  <2>3. /\ op'[h] = op[h] /\ KeepsOthers(h)
        /\ \/ phase'[h] = "stage"
           \/ phase'[h] = "commit" /\ op[h] = "create"
           \/ phase'[h] = "final" /\ op[h] # "create"
    BY <1>5, <2>2
  <2>4. Undisturbed => Relies(h)'
    BY <1>2, <2>1, <2>3 DEF Relies
  <2> QED
    BY <2>1, <2>3, <2>4, GoesOnAlone
<1>7. CASE Finalize(h) \/ DeleteStaged(h)
  <2>1. /\ phase[h] \in {"final", "unstage"}
        /\ UNCHANGED <<app, refs, dir, cached, admitted>>
        /\ \E S : GoOn(h, "unstage", S) \/ GoOn(h, "final", S) \/ GoOn(h, "event", S)
    BY <1>7 DEF Finalize, DeleteStaged, gitVars, cacheVars
  <2>2. /\ op'[h] = op[h] /\ kinds'[h] = kinds[h] /\ KeepsOthers(h)
        /\ phase'[h] \in {"unstage", "final", "event"}
    BY <1>5, <2>1
  <2>3. Undisturbed => Relies(h)'
    BY <1>2, <2>1, <2>2 DEF Relies
  <2> QED
    BY <2>1, <2>2, <2>3, GoesOnAlone
<1>8. CASE DeleteSecret(h)
  <2>1. phase[h] = "purge" /\ UNCHANGED <<app, refs, dir, cached, admitted>>
    BY <1>8 DEF DeleteSecret, gitVars, cacheVars
  <2>2. CASE \E S : GoOn(h, "purge", S) \/ (GoOn(h, "event", S) /\ op[h] # "delete")
    <3>1. /\ op'[h] = op[h] /\ KeepsOthers(h)
          /\ \/ phase'[h] = "purge"
             \/ phase'[h] = "event" /\ op[h] # "delete"
      BY <1>5, <2>2
    <3>2. Undisturbed => Relies(h)'
      BY <1>2, <2>1, <3>1 DEF Relies
    <3> QED
      BY <2>1, <3>1, <3>2, GoesOnAlone
  <2>3. CASE Finish(h)
    <3>1. op'[h] = "none" /\ phase'[h] = "idle" /\ KeepsOthers(h)
      BY <1>1, <2>3, FinishAt
    <3>2. Relies(h)'
      BY <3>1 DEF Relies
    <3> QED
      BY <2>1, <3>1, <3>2, GoesOnAlone
  <2> QED
    BY <1>8, <2>2, <2>3 DEF DeleteSecret
<1>9. CASE AppendEvent(h)
  <2>1. /\ Finish(h) /\ phase[h] = "event" /\ (dir' = dir \/ dir' = TRUE)
        /\ UNCHANGED <<app, refs, cached, admitted>>
    BY <1>9 DEF AppendEvent, cacheVars
  <2>2. op'[h] = "none" /\ phase'[h] = "idle" /\ KeepsOthers(h)
    BY <1>1, <2>1, FinishAt
  <2>3. Undisturbed => app # "absent"
    BY <1>1, <1>2, <2>1 DEF Relies, Operations
  <2>4. CASE Undisturbed
    <3>1. dir' = dir
      BY <1>2, <2>1, <2>3, <2>4 DEF TypeInv, GitTyped
    <3>2. Relies(h)'
      BY <2>2 DEF Relies
    <3> QED
      BY <2>1, <2>2, <3>1, <3>2, GoesOnAlone
  <2>5. CASE ~Undisturbed
    BY <2>1, <2>5 DEF SequentialInv, Undisturbed, Free
  <2> QED
    BY <2>4, <2>5
<1> QED
  BY <1>3, <1>4, <1>6, <1>7, <1>8, <1>9
\* A call begins when there is no other, or with creations only; what it has read holds.
LEMMA CallsAlone ==
    ASSUME TypeInv, TypeInv', SequentialInv, NEW h \in Handlers, Call(h)
    PROVE  SequentialInv'
<1>1. ASSUME NEW o \in Operations, NEW next \in {"read", "stage", "commit", "event"},
             NEW K, NEW D, NEW c, Begin(h, o, next, K, D, c),
             next = "event" => o = "other", next = "stage" => o = "create",
             Undisturbed /\ o \in {"update", "restore", "other"} => app = "live",
             Undisturbed /\ o = "update" => (c <=> "env" \in refs),
             Undisturbed /\ o = "restore" => "env" \in refs
      PROVE  SequentialInv'
  <2>1. /\ op'[h] = o /\ phase'[h] = next /\ had'[h] = c /\ KeepsOthers(h)
        /\ UNCHANGED <<app, refs, dir, cached, admitted>> /\ MayBegin(h, o)
    BY <1>1 DEF Begin, TypeInv, CallsTyped, KeepsOthers, gitVars, cacheVars
  <2>2. SUFFICES ASSUME Undisturbed
                 PROVE  /\ cached' = Listing(app', refs') /\ (dir' <=> app' # "absent")
                        /\ Alone' /\ \A g \in Handlers : Relies(g)'
    BY <2>1 DEF SequentialInv, Undisturbed, Free
  <2>3. /\ cached' = Listing(app', refs') /\ (dir' <=> app' # "absent")
        /\ Alone /\ \A g \in Handlers : Relies(g)
    BY <2>1, <2>2 DEF SequentialInv
  <2>4. \/ \A g \in Handlers : op[g] = "none"
        \/ o = "create" /\ \A g \in Handlers : op[g] \in {"none", "create"}
    BY <2>1, <2>2 DEF MayBegin, Undisturbed, Free, Admits, TypeInv, CallsTyped
  <2>5. Alone'
    BY <2>1, <2>3, <2>4 DEF Alone, KeepsOthers
  <2>6. Relies(h)'
    BY <1>1, <2>1, <2>2 DEF Relies
  <2>7. ASSUME NEW g \in Handlers, g # h PROVE Relies(g)'
    BY <2>1, <2>3, <2>7 DEF Relies, KeepsOthers
  <2> QED
    BY <2>3, <2>5, <2>6, <2>7
<1>2. ASSUME NEW c \in BOOLEAN, Reads(c), Undisturbed
      PROVE  app = "live" /\ (c <=> "env" \in refs)
  BY <1>2 DEF Reads, SequentialInv, Listing
<1>3. ASSUME NEW K \in SUBSET Kinds, NEW D \in SUBSET Keys, CreateApplication(h, K, D)
      PROVE  SequentialInv'
  <2>1. CASE K = {}
    <3>1. Begin(h, "create", "commit", K, D, FALSE)
      BY <1>3, <2>1 DEF CreateApplication
    <3> QED
      BY <3>1, <1>1 DEF Operations
  <2>2. CASE K # {}
    <3>1. Begin(h, "create", "stage", K, D, FALSE)
      BY <1>3, <2>2 DEF CreateApplication
    <3> QED
      BY <3>1, <1>1 DEF Operations
  <2> QED
    BY <2>1, <2>2
<1>4. CASE UpdateApplicationSecrets(h)
  <2>1. PICK c \in BOOLEAN : Reads(c) /\ Begin(h, "update", "read", {"env"}, {}, c)
    BY <1>4 DEF UpdateApplicationSecrets
  <2> QED
    BY <2>1, <1>1, <1>2 DEF Operations
<1>5. CASE RestoreApplicationSecretVersion(h)
  <2>1. Reads(TRUE) /\ Begin(h, "restore", "read", {"env"}, {}, TRUE)
    BY <1>5 DEF RestoreApplicationSecretVersion
  <2>2. Undisturbed => app = "live" /\ "env" \in refs
    BY <1>2, <2>1
  <2> QED
    BY <2>1, <2>2, <1>1 DEF Operations
<1>6. CASE ArchiveApplication(h)
  <2>1. Begin(h, "archive", "commit", {}, {}, FALSE)
    BY <1>6 DEF ArchiveApplication
  <2> QED
    BY <2>1, <1>1 DEF Operations
<1>7. CASE DeleteApplication(h)
  <2>1. Begin(h, "delete", "commit", {}, {}, FALSE)
    BY <1>7 DEF DeleteApplication
  <2> QED
    BY <2>1, <1>1 DEF Operations
<1>8. CASE OtherCall(h)
  <2>1. (\E c \in BOOLEAN : Reads(c)) /\ Begin(h, "other", "event", {}, {}, FALSE)
    BY <1>8 DEF OtherCall
  <2>2. Undisturbed => app = "live"
    BY <1>2, <2>1
  <2> QED
    BY <2>1, <2>2, <1>1 DEF Operations
<1> QED
  BY <1>3, <1>4, <1>5, <1>6, <1>7, <1>8 DEF Call

\* A commit comes when no other call relies on what it changes: there is none, or all
\* are creations and none of them has committed.
LEMMA CommitsAlone ==
    ASSUME TypeInv, TypeInv', SequentialInv, NEW h \in Handlers, ~Fail(h),
           \/ CommitCreate(h) \/ SaveApplicationSecretPath(h)
           \/ CommitArchive(h) \/ CommitDelete(h)
    PROVE  SequentialInv'
<1>1. CallsTyped /\ CallInv /\ phase[h] = "commit" /\ op[h] # "none"
  BY DEF TypeInv, CallsTyped, CommitCreate, SaveApplicationSecretPath, CommitArchive,
         CommitDelete
<1>2. ASSUME NEW a, NEW r, NEW d \in BOOLEAN, Commit(a, r, d), d <=> a # "absent",
             KeepsOthers(h), op'[h] \in {op[h], "none"},
             Undisturbed => Relies(h)',
             Undisturbed /\ op[h] = "create" => app = "absent"
      PROVE  SequentialInv'
  <2>1. app' = a /\ refs' = r /\ dir' = d /\ UNCHANGED admitted
    BY <1>2 DEF Commit
  <2>2. SUFFICES ASSUME Undisturbed
                 PROVE  /\ cached' = Listing(app', refs') /\ (dir' <=> app' # "absent")
                        /\ Alone' /\ \A g \in Handlers : Relies(g)'
    BY <2>1 DEF SequentialInv, Undisturbed, Free
  <2>3. Alone /\ \A g \in Handlers : Relies(g)
    BY <2>2 DEF SequentialInv
  <2>4. cached' = Listing(app', refs')
    BY <1>2, <2>1, <2>2 DEF Commit, Undisturbed, Free, Admits
  <2>5. Alone'
    BY <1>2, <2>3 DEF Alone, KeepsOthers
  <2>6. ASSUME NEW g \in Handlers, g # h PROVE Relies(g)'
    <3>1. op'[g] = op[g] /\ phase'[g] = phase[g]
      BY <1>2, <2>6 DEF KeepsOthers
    <3>2. CASE op[g] = "none"
      <4>1. phase[g] = "idle"
        BY <1>1, <3>2 DEF CallsTyped
      <4> QED
        BY <3>1, <3>2, <4>1 DEF Relies
    <3>3. CASE op[g] # "none"
      <4>1. op[g] = "create" /\ op[h] = "create"
        BY <1>1, <2>3, <2>6, <3>3 DEF Alone
      <4>2. app = "absent" /\ Relies(g)
        BY <1>2, <2>2, <2>3, <4>1
      <4> QED
        BY <3>1, <4>1, <4>2 DEF Relies
    <3> QED
      BY <3>2, <3>3
  <2> QED
    BY <1>2, <2>1, <2>2, <2>4, <2>5, <2>6
<1>3. ASSUME NEW next \in {"stage", "final", "purge", "event"}, NEW S, GoOn(h, next, S)
      PROVE  op'[h] = op[h] /\ phase'[h] = next /\ kinds'[h] = kinds[h] /\ KeepsOthers(h)
  BY <1>1, <1>3 DEF GoOn, CallsTyped, KeepsOthers
<1>4. CASE CommitCreate(h)
  <2>1. /\ ~dir /\ op[h] = "create" /\ Commit("live", kinds[h], TRUE)
        /\ \E S : GoOn(h, "event", S) \/ GoOn(h, "final", S)
    BY <1>4 DEF CommitCreate, Conflict
  <2>2. /\ op'[h] = op[h] /\ phase'[h] \in {"event", "final"} /\ kinds'[h] = kinds[h]
        /\ KeepsOthers(h)
    BY <1>3, <2>1
  <2>3. app = "absent"
    BY <2>1 DEF TypeInv, GitTyped
  <2>4. Relies(h)'
    BY <2>1, <2>2 DEF Relies, Commit
  <2> QED
    BY <1>2, <2>1, <2>2, <2>3, <2>4
<1>5. CASE SaveApplicationSecretPath(h)
  <2>1. /\ op[h] = "update"
        /\ \E r, S : \/ Commit("live", r, TRUE) /\ GoOn(h, "stage", S) /\ "env" \in r
                     \/ Commit("live", r, TRUE) /\ GoOn(h, "purge", S)
    BY <1>5 DEF SaveApplicationSecretPath
  <2>2. PICK r, S : \/ Commit("live", r, TRUE) /\ GoOn(h, "stage", S) /\ "env" \in r
                    \/ Commit("live", r, TRUE) /\ GoOn(h, "purge", S)
    BY <2>1
  <2>3. /\ op'[h] = op[h] /\ KeepsOthers(h) /\ Commit("live", r, TRUE)
        /\ phase'[h] \in {"stage", "purge"} /\ (phase'[h] = "stage" => "env" \in r)
    BY <1>3, <2>2
  <2>4. Relies(h)'
    BY <2>1, <2>3 DEF Relies, Commit
  <2> QED
    BY <1>2, <2>1, <2>3, <2>4
<1>6. CASE CommitArchive(h)
  <2>1. op[h] = "archive" /\ Commit("archived", refs, TRUE) /\ GoOn(h, "event", {})
    BY <1>6 DEF CommitArchive
  <2>2. op'[h] = op[h] /\ phase'[h] = "event" /\ KeepsOthers(h)
    BY <1>3, <2>1
  <2>3. Relies(h)'
    BY <2>1, <2>2 DEF Relies, Commit
  <2> QED
    BY <1>2, <2>1, <2>2, <2>3
<1>7. CASE CommitDelete(h)
  <2>1. /\ op[h] = "delete" /\ Commit("absent", {}, FALSE)
        /\ Finish(h) \/ GoOn(h, "purge", CollectSecretPaths)
    BY <1>7 DEF CommitDelete
  <2>2. /\ KeepsOthers(h)
        /\ \/ op'[h] = "none" /\ phase'[h] = "idle"
           \/ op'[h] = op[h] /\ phase'[h] = "purge"
    BY <1>1, <1>3, <2>1, FinishAt
  <2>3. Relies(h)'
    BY <2>1, <2>2 DEF Relies
  <2> QED
    BY <1>2, <2>1, <2>2, <2>3
<1> QED
  BY <1>4, <1>5, <1>6, <1>7

\* Nothing in the background disturbs a call unless the catalog may be stale.
LEMMA BackgroundAlone == ASSUME SequentialInv, Background PROVE SequentialInv'
<1>1. UNCHANGED <<app, refs, dir, op, phase, kinds, todo, data, had, admitted>>
  BY DEF Background, ListApplications, ReplaceProjectApplications, Expire, Age, CleanupStale,
         gitVars, callVars
<1>2. Undisturbed => UNCHANGED cached
  BY DEF Background, ListApplications, ReplaceProjectApplications, Expire, Age, CleanupStale,
         cacheVars, Undisturbed, Free, Admits
<1> QED
  BY <1>1, <1>2 DEF SequentialInv, Undisturbed, Free, Alone, Relies

\* What calls rely on holds in every behaviour in which they follow each other, or race
\* only to create the application, and read a catalog that is not behind.
THEOREM CallsFollowEachOther == Spec => []SequentialInv
<1>1. Init => SequentialInv
  BY DEF Init, SequentialInv, Listing, Alone, Relies
<1>2. TypeInv /\ TypeInv' /\ SequentialInv /\ [Next]_vars => SequentialInv'
  <2> SUFFICES ASSUME TypeInv, TypeInv', SequentialInv, [Next]_vars PROVE SequentialInv'
    OBVIOUS
  <2>1. ASSUME NEW h \in Handlers, Step(h) PROVE SequentialInv'
    BY <2>1, FailsAlone, StepsAlone, CommitsAlone DEF Step, normalizeSecretDeleteKeys
  <2>2. ASSUME NEW h \in Handlers, Stop(h) PROVE SequentialInv'
    BY <2>2, FailsAlone DEF Stop
  <2>3. CASE UNCHANGED vars
    BY <2>3 DEF vars, gitVars, cacheVars, callVars, SequentialInv, Undisturbed, Free, Alone,
       Relies
  <2> QED
    BY <2>1, <2>2, <2>3, CallsAlone, BackgroundAlone DEF Next
<1> QED
  BY <1>1, <1>2, InvariantHolds, PTL DEF Spec

\* A directory holds an application, whatever steps fail: a call that appends an event
\* relies on an application that no other call can delete under it.
THEOREM DirectoriesHoldApplications == Spec => []DirectoryHoldsApplication
<1>1. SequentialInv => DirectoryHoldsApplication
  BY DEF SequentialInv, Undisturbed, DirectoryHoldsApplication
<1> QED
  BY <1>1, CallsFollowEachOther, PTL

\* Secrets reach their final paths after the commit that refers to them.
THEOREM SecretsFollowCommits == Spec => FinalAfterCommit
<1> DEFINE Refers == Free({"overlap", "stale"}) =>
               \A k \in Kinds : final'[k] # final[k] /\ final'[k] # {} => k \in refs
<1>1. ASSUME TypeInv, SequentialInv, Next PROVE Refers
  <2>1. ASSUME NEW h \in Handlers, Finalize(h) PROVE Refers
    <3>1. /\ phase[h] = "final" /\ todo[h] \in SUBSET Kinds /\ todo[h] # {}
          /\ op[h] \in {"create", "update", "restore"} => todo[h] \subseteq kinds[h]
          /\ op[h] \in {"update", "restore"} => kinds[h] = {"env"}
          /\ final' = [final EXCEPT ![NextOf(todo[h])] = Payload(h, NextOf(todo[h]))]
      BY <1>1, <2>1 DEF Finalize, TypeInv, CallsTyped, CallInv
    <3>2. NextOf(todo[h]) \in todo[h] /\ NextOf(todo[h]) \in Kinds
      BY <3>1, NextIsLeft
    <3>3. \A k \in Kinds : final'[k] # final[k] => k = NextOf(todo[h])
      BY <1>1, <3>1, <3>2 DEF TypeInv, VaultTyped
    <3>4. Undisturbed => NextOf(todo[h]) \in refs
      BY <1>1, <3>1, <3>2 DEF SequentialInv, Relies
    <3> QED
      BY <3>3, <3>4 DEF Undisturbed
  <2>2. ASSUME NEW h \in Handlers, DeleteSecret(h) PROVE Refers
    BY <1>1, <2>2 DEF DeleteSecret, TypeInv, VaultTyped
  <2>3. CASE UNCHANGED final
    BY <2>3
  <2>4. ASSUME NEW h \in Handlers, Step(h), ~Finalize(h), ~DeleteSecret(h)
        PROVE  UNCHANGED final
    BY <2>4 DEF Step, normalizeSecretDeleteKeys, ReadValues, ReadVersion, StageAt, CommitCreate,
       SaveApplicationSecretPath, CommitArchive, CommitDelete, DeleteStaged, AppendEvent,
       Commit, Fail, vaultVars
  <2>5. ASSUME NEW h \in Handlers, Call(h) \/ Stop(h) PROVE UNCHANGED final
    BY <2>5 DEF Call, CreateApplication, UpdateApplicationSecrets,
       RestoreApplicationSecretVersion, ArchiveApplication, DeleteApplication, OtherCall,
       Begin, Stop, Fail, vaultVars
  <2>6. ASSUME Background PROVE UNCHANGED final
    BY <2>6 DEF Background, ListApplications, ReplaceProjectApplications, Expire, Age,
       CleanupStale, vaultVars
  <2> HIDE DEF Refers
  <2> QED
    BY <1>1, <2>1, <2>2, <2>3, <2>4, <2>5, <2>6 DEF Next
<1>2. ASSUME TypeInv, SequentialInv, [Next]_vars PROVE [Refers]_vars
  BY <1>1, <1>2
<1> QED
  BY <1>2, InvariantHolds, CallsFollowEachOther, PTL DEF Spec, FinalAfterCommit
-----------------------------------------------------------------------------
(* What a call has written, and what it has still to write or to remove: the parts   *)
(* of the metadata and of the secret store that no call holds agree.                  *)

\* The kinds whose documents call h will write at their final paths.
Unwritten(h) ==
    IF phase[h] = "stage" /\ op[h] # "create" THEN {"env"}
    ELSE IF phase[h] = "final" THEN todo[h]
    ELSE IF phase[h] = "unstage" THEN todo[h] \ {NextOf(todo[h])}
    ELSE {}

Purges(h, k) == phase[h] = "purge" /\ k \in todo[h]

\* Call h has created the application and not yet been answered.
Created(h) == op[h] = "create" /\ phase[h] \in {"final", "unstage", "event"}

\* What call h has done so far.
Serves(h) ==
    /\ Created(h) => /\ refs = kinds[h]
                     /\ \A k \in kinds[h] \ Unwritten(h) : final[k] = Payload(h, k)
    /\ op[h] \in {"update", "restore"} /\ phase[h] \in {"final", "unstage", "event"} =>
          IF data[h] = {} THEN "env" \notin refs
          ELSE "env" \in refs /\ ("env" \notin Unwritten(h) => final["env"] = data[h])
    /\ op[h] = "update" /\ phase[h] = "purge" =>
          data[h] = {} /\ "env" \notin refs /\ todo[h] = {"env"}
    /\ op[h] = "delete" /\ phase[h] = "purge" => refs = {}

OneCreated == \A g, h \in Handlers : Created(g) /\ Created(h) => g = h

ServedInv == Undisturbed => OneCreated /\ \A h \in Handlers : Serves(h)

\* A secret that the metadata refers to exists, or a call is about to write it.
Storing == Free({"overlap", "stale", "stage", "final", "unstage"})
StoredInv ==
    Storing => \A k \in refs : final[k] # {} \/ \E h \in Handlers : k \in Unwritten(h)

\* A secret that exists is referred to, or a call is about to remove it.
Purging == Free({"overlap", "stale", "purge"})
ReferredInv ==
    Purging => \A k \in Kinds :
       final[k] # {} => k \in refs \/ \E h \in Handlers : Purges(h, k)

DocumentInv == ServedInv /\ StoredInv /\ ReferredInv

\* A step of one call changes what it alone has yet to do.
LEMMA OthersUnwritten ==
    ASSUME NEW h \in Handlers, KeepsOthers(h), NEW g \in Handlers, g # h
    PROVE  /\ Unwritten(g)' = Unwritten(g) /\ (Created(g)' <=> Created(g))
           /\ \A k : Purges(g, k)' <=> Purges(g, k)
<1>1. op'[g] = op[g] /\ phase'[g] = phase[g] /\ todo'[g] = todo[g]
  BY DEF KeepsOthers
<1> QED
  BY <1>1 DEF Unwritten, Created, Purges

\* Another call is undisturbed where the step leaves the metadata and the secrets, and
\* otherwise because it is idle or has not yet created the application.
LEMMA OthersServed ==
    ASSUME Alone, NEW h \in Handlers, KeepsOthers(h), NEW g \in Handlers, g # h,
           Serves(g), UNCHANGED <<refs, final>> \/ (op[h] # "none" /\ ~Created(g))
    PROVE  Serves(g)'
<1>1. /\ op'[g] = op[g] /\ phase'[g] = phase[g] /\ todo'[g] = todo[g]
      /\ kinds'[g] = kinds[g] /\ data'[g] = data[g]
  BY DEF KeepsOthers
<1>2. Unwritten(g)' = Unwritten(g) /\ (Created(g)' <=> Created(g))
  BY OthersUnwritten
<1>3. CASE UNCHANGED <<refs, final>>
  BY <1>1, <1>2, <1>3 DEF Serves, Payload
<1>4. CASE op[h] # "none" /\ ~Created(g)
  <2>1. op[g] \in {"none", "create"}
    BY <1>4 DEF Alone
  <2> QED
    BY <1>1, <1>2, <1>4, <2>1 DEF Serves
<1> QED
  BY <1>3, <1>4

\* What a step of one call must do for the documents to stay as the calls need them.
LEMMA DocumentsKept ==
    ASSUME SequentialInv, DocumentInv, NEW h \in Handlers, KeepsOthers(h),
           UNCHANGED admitted,
           Undisturbed => Serves(h)',
           Undisturbed /\ Created(h)' => Created(h) \/ app = "absent",
           \/ UNCHANGED <<refs, final>>
           \/ /\ op[h] # "none"
              /\ Undisturbed => Created(h) \/ op[h] # "create" \/ app = "absent",
           Storing => \A k \in refs' :
              \/ final'[k] # {} \/ k \in Unwritten(h)'
              \/ k \in refs /\ final'[k] = final[k] /\ k \notin Unwritten(h),
           Purging => \A k \in Kinds : final'[k] # {} =>
              \/ k \in refs' \/ Purges(h, k)'
              \/ final[k] # {} /\ k \notin refs /\ ~Purges(h, k)
    PROVE  DocumentInv'
<1>1. ServedInv'
  <2> SUFFICES ASSUME Undisturbed PROVE OneCreated' /\ \A g \in Handlers : Serves(g)'
    BY DEF ServedInv, Undisturbed, Free
  <2>1. /\ Alone /\ OneCreated /\ \A g \in Handlers : Serves(g) /\ Relies(g)
    BY DEF SequentialInv, DocumentInv, ServedInv
  <2>2. ASSUME NEW g \in Handlers, g # h, Created(h) \/ app = "absent" PROVE ~Created(g)
    BY <2>1, <2>2 DEF OneCreated, Created, Relies
  <2>3. OneCreated'
    BY <2>1, <2>2, OthersUnwritten DEF OneCreated
  <2>4. ASSUME NEW g \in Handlers, g # h PROVE Serves(g)'
    <3>1. op[h] # "none" /\ op[h] # "create" => ~Created(g)
      BY <2>1, <2>4 DEF Alone, Created
    <3> QED
      BY <2>1, <2>2, <2>4, <3>1, OthersServed
  <2> QED
    BY <2>3, <2>4
<1>2. StoredInv'
  <2> SUFFICES ASSUME Storing, NEW k \in refs'
               PROVE  final'[k] # {} \/ \E g \in Handlers : k \in Unwritten(g)'
    BY DEF StoredInv, Storing, Free
  <2>1. CASE k \in refs /\ final'[k] = final[k] /\ k \notin Unwritten(h)
    BY <2>1, OthersUnwritten DEF DocumentInv, StoredInv
  <2> QED
    BY <2>1
<1>3. ReferredInv'
  <2> SUFFICES ASSUME Purging, NEW k \in Kinds, final'[k] # {}
               PROVE  k \in refs' \/ \E g \in Handlers : Purges(g, k)'
    BY DEF ReferredInv, Purging, Free
  <2>1. CASE final[k] # {} /\ k \notin refs /\ ~Purges(h, k)
    BY <2>1, OthersUnwritten DEF DocumentInv, ReferredInv
  <2> QED
    BY <2>1
<1> QED
  BY <1>1, <1>2, <1>3 DEF DocumentInv

\* A call that fails leaves no document unwritten or unremoved, unless it failed there.
LEMMA FailKeepsDocuments ==
    ASSUME TypeInv, SequentialInv, DocumentInv, NEW h \in Handlers, Fail(h),
           phase[h] \in {"read", "commit"} \/ phase[h] \in admitted
    PROVE  DocumentInv'
<1>1. CallsTyped /\ Finish(h) /\ UNCHANGED <<app, refs, final, admitted>>
  BY DEF TypeInv, Fail, gitVars, vaultVars
<1>2. op'[h] = "none" /\ phase'[h] = "idle" /\ KeepsOthers(h)
  BY <1>1, FinishAt
<1>3. Serves(h)' /\ ~Created(h)'
  BY <1>2 DEF Serves, Created
<1>4. Storing => Unwritten(h) = {}
  BY DEF Storing, Free, Unwritten
<1>5. Purging => \A k : ~Purges(h, k)
  BY DEF Purging, Free, Purges
<1> QED
  BY <1>1, <1>2, <1>3, <1>4, <1>5, DocumentsKept

\* A new call has nothing to write or remove yet.
LEMMA CallKeepsDocuments ==
    ASSUME TypeInv, SequentialInv, DocumentInv, NEW h \in Handlers, Call(h)
    PROVE  DocumentInv'
<1>1. ASSUME NEW o \in Operations, NEW next \in {"read", "stage", "commit", "event"},
             NEW K, NEW D, NEW c, Begin(h, o, next, K, D, c),
             next = "event" => o = "other"
      PROVE  DocumentInv'
  <2>1. /\ op'[h] = o /\ phase'[h] = next /\ KeepsOthers(h) /\ phase[h] = "idle"
        /\ UNCHANGED <<refs, final, admitted>>
    BY <1>1 DEF Begin, MayBegin, TypeInv, CallsTyped, KeepsOthers, gitVars, vaultVars
  <2>2. Serves(h)' /\ ~Created(h)'
    BY <1>1, <2>1 DEF Serves, Created, Operations
  <2>3. Unwritten(h) = {} /\ \A k : ~Purges(h, k)
    BY <2>1 DEF Unwritten, Purges
  <2> QED
    BY <2>1, <2>2, <2>3, DocumentsKept
<1>2. ASSUME NEW K \in SUBSET Kinds, NEW D \in SUBSET Keys, CreateApplication(h, K, D)
      PROVE  DocumentInv'
  <2>1. CASE K = {}
    <3>1. Begin(h, "create", "commit", K, D, FALSE)
      BY <1>2, <2>1 DEF CreateApplication
    <3> QED
      BY <3>1, <1>1 DEF Operations
  <2>2. CASE K # {}
    <3>1. Begin(h, "create", "stage", K, D, FALSE)
      BY <1>2, <2>2 DEF CreateApplication
    <3> QED
      BY <3>1, <1>1 DEF Operations
  <2> QED
    BY <2>1, <2>2
<1>3. CASE UpdateApplicationSecrets(h)
  <2>1. PICK c \in BOOLEAN : Begin(h, "update", "read", {"env"}, {}, c)
    BY <1>3 DEF UpdateApplicationSecrets
  <2> QED
    BY <2>1, <1>1 DEF Operations
<1>4. CASE RestoreApplicationSecretVersion(h)
  <2>1. Begin(h, "restore", "read", {"env"}, {}, TRUE)
    BY <1>4 DEF RestoreApplicationSecretVersion
  <2> QED
    BY <2>1, <1>1 DEF Operations
<1>5. CASE ArchiveApplication(h)
  <2>1. Begin(h, "archive", "commit", {}, {}, FALSE)
    BY <1>5 DEF ArchiveApplication
  <2> QED
    BY <2>1, <1>1 DEF Operations
<1>6. CASE DeleteApplication(h)
  <2>1. Begin(h, "delete", "commit", {}, {}, FALSE)
    BY <1>6 DEF DeleteApplication
  <2> QED
    BY <2>1, <1>1 DEF Operations
<1>7. CASE OtherCall(h)
  <2>1. Begin(h, "other", "event", {}, {}, FALSE)
    BY <1>7 DEF OtherCall
  <2> QED
    BY <2>1, <1>1 DEF Operations
<1> QED
  BY <1>2, <1>3, <1>4, <1>5, <1>6, <1>7 DEF Call

\* What reading finds decides what will be written: nothing if no key is left and none
\* was there.
LEMMA ReadKeepsDocuments ==
    ASSUME TypeInv, SequentialInv, DocumentInv, NEW h \in Handlers, ~Fail(h),
           \/ \E S \in SUBSET Keys : \E D \in SUBSET (Keys \ S) : ReadValues(h, S, D)
           \/ ReadVersion(h)
    PROVE  DocumentInv'
<1>1. /\ op[h] \in {"update", "restore"} /\ phase[h] = "read" /\ op'[h] = op[h]
      /\ phase'[h] \in {"stage", "commit", "event"}
      /\ phase'[h] = "event" => op[h] = "update" /\ data'[h] = {} /\ ~had[h]
      /\ UNCHANGED <<refs, final, admitted>>
  <2>1. CASE ReadVersion(h)
    BY <2>1 DEF ReadVersion, TypeInv, CallsTyped, gitVars, vaultVars
  <2>2. CASE \E S \in SUBSET Keys : \E D \in SUBSET (Keys \ S) : ReadValues(h, S, D)
    <3>1. PICK S \in SUBSET Keys, D \in SUBSET Keys : ReadValues(h, S, D)
      BY <2>2
    <3> QED
      BY <3>1 DEF ReadValues, TypeInv, CallsTyped, gitVars, vaultVars
  <2> QED
    BY <2>1, <2>2
<1>2. KeepsOthers(h)
  BY DEF ReadValues, ReadVersion, KeepsOthers, TypeInv, CallsTyped
<1>3. Unwritten(h) = {} /\ \A k : ~Purges(h, k)
  BY <1>1 DEF Unwritten, Purges
<1>4. Undisturbed => Serves(h)'
  <2>1. Undisturbed /\ ~had[h] /\ op[h] = "update" => "env" \notin refs
    BY <1>1 DEF SequentialInv, Relies
  <2> QED
    BY <1>1, <2>1 DEF Serves, Created
<1>5. ~Created(h)'
  BY <1>1 DEF Created
<1> QED
  BY <1>1, <1>2, <1>3, <1>4, <1>5, DocumentsKept

\* What is staged has still to be written.
LEMMA StageKeepsDocuments ==
    ASSUME TypeInv, SequentialInv, DocumentInv, NEW h \in Handlers, StageAt(h)
    PROVE  DocumentInv'
<1> DEFINE rest == todo[h] \ {NextOf(todo[h])}
<1>1. /\ phase[h] = "stage" /\ op[h] \in {"create", "update", "restore"} /\ CallsTyped
      /\ todo[h] \in SUBSET Kinds /\ todo[h] # {} /\ UNCHANGED <<refs, final, admitted>>
      /\ op[h] # "create" => todo[h] = {"env"} /\ kinds[h] = {"env"} /\ data[h] # {}
  BY DEF StageAt, TypeInv, CallsTyped, CallInv, gitVars
<1>2. CASE op[h] = "create"
  <2>1. /\ op'[h] = "create" /\ phase'[h] \in {"stage", "commit"} /\ KeepsOthers(h)
    BY <1>1, <1>2 DEF StageAt, GoOn, CallsTyped, KeepsOthers
  <2>2. /\ Serves(h)' /\ ~Created(h)' /\ Unwritten(h) = {} /\ \A k : ~Purges(h, k)
    BY <1>1, <1>2, <2>1 DEF Serves, Created, Unwritten, Purges
  <2> QED
    BY <1>1, <2>1, <2>2, DocumentsKept
<1>3. CASE op[h] # "create"
  <2>1. rest = {}
    BY <1>1, <1>3, NextIsLeft
  <2>2. GoOn(h, "final", {"env"})
    BY <1>1, <1>3, <2>1 DEF StageAt
  <2>3. /\ op'[h] = op[h] /\ phase'[h] = "final" /\ todo'[h] = {"env"}
        /\ data'[h] = data[h] /\ KeepsOthers(h)
    BY <1>1, <2>2 DEF GoOn, CallsTyped, KeepsOthers
  <2>4. /\ Unwritten(h)' = {"env"} /\ Unwritten(h) = {"env"} /\ ~Created(h)'
        /\ \A k : ~Purges(h, k)
    BY <1>1, <1>3, <2>3 DEF Unwritten, Created, Purges
  <2>5. Undisturbed => "env" \in refs
    BY <1>1, <1>3 DEF SequentialInv, Relies
  <2>6. Undisturbed => Serves(h)'
    BY <1>1, <1>3, <2>3, <2>4, <2>5 DEF Serves
  <2> QED
    BY <1>1, <2>3, <2>4, <2>6, DocumentsKept
<1> QED
  BY <1>2, <1>3

\* A written document is no longer to be written, and is not empty.
LEMMA FinalizeKeepsDocuments ==
    ASSUME TypeInv, SequentialInv, DocumentInv, NEW h \in Handlers, Finalize(h)
    PROVE  DocumentInv'
<1> DEFINE k0 == NextOf(todo[h])
<1>1. /\ phase[h] = "final" /\ op[h] # "none" /\ CallsTyped
      /\ todo[h] \in SUBSET Kinds /\ todo[h] # {} /\ UNCHANGED <<refs, admitted>>
      /\ GoOn(h, "unstage", todo[h])
  BY DEF Finalize, TypeInv, CallsTyped, gitVars
<1>2. /\ op'[h] = op[h] /\ phase'[h] = "unstage" /\ todo'[h] = todo[h]
      /\ kinds'[h] = kinds[h] /\ data'[h] = data[h] /\ KeepsOthers(h)
  BY <1>1 DEF GoOn, CallsTyped, KeepsOthers
<1>3. k0 \in todo[h] /\ k0 \in Kinds
  BY <1>1, NextIsLeft
<1>4. final'[k0] = Payload(h, k0) /\ \A k \in Kinds \ {k0} : final'[k] = final[k]
  BY <1>3 DEF Finalize, TypeInv, VaultTyped
<1>5. /\ Unwritten(h) = todo[h] /\ Unwritten(h)' = todo[h] \ {k0}
      /\ \A k : ~Purges(h, k)
      /\ (Created(h)' <=> Created(h)) /\ (Created(h) <=> op[h] = "create")
  BY <1>1, <1>2 DEF Unwritten, Purges, Created
<1>6. Undisturbed =>
         /\ Serves(h) /\ op[h] \in {"create", "update", "restore"}
         /\ op[h] = "create" => kinds[h] \subseteq refs
         /\ op[h] \in {"update", "restore"} => "env" \in refs
  BY <1>1 DEF SequentialInv, Relies, DocumentInv, ServedInv
<1>7. /\ op[h] \in {"create", "update", "restore"} => todo[h] \subseteq kinds[h]
      /\ op[h] \in {"update", "restore"} => kinds[h] = {"env"} /\ data[h] # {}
      /\ op[h] = "create" => ("env" \in kinds[h] <=> data[h] # {})
      /\ kinds[h] \in SUBSET Kinds
  BY <1>1 DEF TypeInv, CallInv, CallsTyped
<1>8. Undisturbed => Payload(h, k0) # {} /\ k0 \in refs
  BY <1>3, <1>6, <1>7, LifecycleAssumption DEF Payload
<1>9. ASSUME Undisturbed PROVE Serves(h)'
  <2>1. CASE op[h] = "create"
    <3>1. refs = kinds[h] /\ \A k \in kinds[h] \ todo[h] : final[k] = Payload(h, k)
      BY <1>5, <1>6, <1>9, <2>1 DEF Serves
    <3>2. \A k : Payload(h, k)' = Payload(h, k)
      BY <1>2 DEF Payload
    <3>3. \A k \in kinds[h] \ (todo[h] \ {k0}) : final'[k] = Payload(h, k)
      BY <1>4, <1>7, <3>1
    <3> QED
      BY <1>1, <1>2, <1>5, <2>1, <3>1, <3>2, <3>3 DEF Serves
  <2>2. CASE op[h] \in {"update", "restore"}
    <3>1. k0 = "env"
      BY <1>3, <1>7, <2>2
    <3>2. final'["env"] = data[h]
      BY <1>4, <3>1 DEF Payload
    <3> QED
      BY <1>1, <1>2, <1>6, <1>7, <1>9, <2>2, <3>2 DEF Serves, Created
  <2> QED
    BY <1>6, <1>9, <2>1, <2>2
<1>10. Storing \/ Purging => Undisturbed
  BY DEF Storing, Purging, Undisturbed, Free
<1>11. Storing => \A k \in refs' :
          \/ final'[k] # {} \/ k \in Unwritten(h)'
          \/ k \in refs /\ final'[k] = final[k] /\ k \notin Unwritten(h)
  BY <1>1, <1>4, <1>5, <1>8, <1>10 DEF TypeInv, GitTyped
<1>12. Purging => \A k \in Kinds : final'[k] # {} =>
          \/ k \in refs' \/ Purges(h, k)'
          \/ final[k] # {} /\ k \notin refs /\ ~Purges(h, k)
  BY <1>1, <1>4, <1>5, <1>8, <1>10
<1> QED
  BY <1>1, <1>2, <1>5, <1>6, <1>9, <1>11, <1>12, DocumentsKept

\* Removing the staged copy writes nothing.
LEMMA UnstageKeepsDocuments ==
    ASSUME TypeInv, SequentialInv, DocumentInv, NEW h \in Handlers, DeleteStaged(h)
    PROVE  DocumentInv'
<1> DEFINE rest == todo[h] \ {NextOf(todo[h])}
<1>1. /\ phase[h] = "unstage" /\ op[h] # "none" /\ CallsTyped
      /\ UNCHANGED <<refs, final, admitted>>
      /\ \/ GoOn(h, "final", rest)
         \/ GoOn(h, "event", {}) /\ rest = {}
  BY DEF DeleteStaged, TypeInv, CallsTyped, gitVars
<1>2. /\ op'[h] = op[h] /\ kinds'[h] = kinds[h] /\ data'[h] = data[h] /\ KeepsOthers(h)
      /\ \/ phase'[h] = "final" /\ todo'[h] = rest
         \/ phase'[h] = "event" /\ rest = {}
  BY <1>1 DEF GoOn, CallsTyped, KeepsOthers
<1>3. /\ Unwritten(h) = rest /\ Unwritten(h)' = rest /\ \A k : ~Purges(h, k)
      /\ (Created(h)' <=> Created(h))
  BY <1>1, <1>2 DEF Unwritten, Purges, Created
<1>4. ASSUME Undisturbed PROVE Serves(h)'
  <2>1. Serves(h) /\ \A k : Payload(h, k)' = Payload(h, k)
    BY <1>2, <1>4 DEF DocumentInv, ServedInv, Payload
  <2>2. phase'[h] # "purge"
    BY <1>2
  <2> HIDE DEF rest
  <2>3. Created(h)' => /\ refs' = kinds'[h]
                       /\ \A k \in kinds'[h] \ Unwritten(h)' : final'[k] = Payload(h, k)'
    BY <1>1, <1>2, <1>3, <2>1 DEF Serves
  <2>4. op'[h] \in {"update", "restore"} =>
           IF data'[h] = {} THEN "env" \notin refs'
           ELSE "env" \in refs' /\ ("env" \notin Unwritten(h)' => final'["env"] = data'[h])
    BY <1>1, <1>2, <1>3, <2>1 DEF Serves
  <2> QED
    BY <2>2, <2>3, <2>4 DEF Serves
<1> QED
  BY <1>1, <1>2, <1>3, <1>4, DocumentsKept

\* What is removed is not referred to.
LEMMA PurgeKeepsDocuments ==
    ASSUME TypeInv, SequentialInv, DocumentInv, NEW h \in Handlers, DeleteSecret(h)
    PROVE  DocumentInv'
<1> DEFINE k0 == NextOf(todo[h])
           rest == todo[h] \ {k0}
<1>1. /\ phase[h] = "purge" /\ op[h] # "none" /\ CallsTyped
      /\ todo[h] \in SUBSET Kinds /\ todo[h] # {} /\ UNCHANGED <<refs, admitted>>
      /\ \/ GoOn(h, "purge", rest) /\ rest # {}
         \/ Finish(h) /\ rest = {} /\ op[h] = "delete"
         \/ GoOn(h, "event", {}) /\ rest = {} /\ op[h] # "delete"
  BY DEF DeleteSecret, TypeInv, CallsTyped, gitVars
<1>2. k0 \in todo[h] /\ k0 \in Kinds
  BY <1>1, NextIsLeft
<1>3. /\ KeepsOthers(h)
      /\ \/ phase'[h] = "purge" /\ op'[h] = op[h] /\ rest # {} /\ todo'[h] = rest
         \/ phase'[h] = "idle" /\ op'[h] = "none" /\ rest = {}
         \/ /\ phase'[h] = "event" /\ op'[h] = op[h] /\ rest = {} /\ op[h] # "delete"
            /\ data'[h] = data[h]
  <2>1. CASE Finish(h) /\ rest = {}
    BY <1>1, <2>1, FinishAt
  <2>2. CASE GoOn(h, "purge", rest) /\ rest # {}
    BY <1>1, <2>2 DEF GoOn, CallsTyped, KeepsOthers
  <2>3. CASE GoOn(h, "event", {}) /\ rest = {} /\ op[h] # "delete"
    BY <1>1, <2>3 DEF GoOn, CallsTyped, KeepsOthers
  <2> QED
    BY <1>1, <2>1, <2>2, <2>3
<1>4. final'[k0] = {} /\ \A k \in Kinds \ {k0} : final'[k] = final[k]
  BY <1>2 DEF DeleteSecret, TypeInv, VaultTyped
<1>5. Unwritten(h) = {} /\ \A k : Purges(h, k) <=> k \in todo[h]
  BY <1>1 DEF Unwritten, Purges
<1>6. Undisturbed =>
         /\ Serves(h) /\ op[h] \in {"update", "delete"}
         /\ op[h] = "delete" => refs = {}
         /\ op[h] = "update" => data[h] = {} /\ "env" \notin refs /\ todo[h] = {"env"}
  BY <1>1 DEF SequentialInv, Relies, DocumentInv, ServedInv, Serves
<1>7. Undisturbed => Serves(h)' /\ ~Created(h)' /\ op[h] # "create" /\ k0 \notin refs
  <2> SUFFICES ASSUME Undisturbed
               PROVE  Serves(h)' /\ ~Created(h)' /\ op[h] # "create" /\ k0 \notin refs
    OBVIOUS
  <2>1. CASE op[h] = "delete"
    BY <1>1, <1>3, <1>6, <2>1 DEF Serves, Created
  <2>2. CASE op[h] = "update"
    <3>1. k0 = "env" /\ rest = {}
      BY <1>2, <1>6, <2>2
    <3> QED
      BY <1>1, <1>3, <1>6, <2>2, <3>1 DEF Serves, Created
  <2> QED
    BY <1>6, <2>1, <2>2
<1>8. Storing \/ Purging => Undisturbed
  BY DEF Storing, Purging, Undisturbed, Free
<1>9. Storing => \A k \in refs' :
          k \in refs /\ final'[k] = final[k] /\ k \notin Unwritten(h)
  BY <1>1, <1>4, <1>5, <1>7, <1>8 DEF TypeInv, GitTyped
<1>10. ASSUME NEW k \in Kinds, final'[k] # {}
       PROVE  Purges(h, k)' \/ (final[k] # {} /\ ~Purges(h, k))
  <2>1. k # k0 /\ final[k] # {}
    BY <1>4, <1>10
  <2> QED
    BY <1>3, <1>5, <2>1 DEF Purges
<1>11. Purging => \A k \in Kinds : final'[k] # {} =>
          \/ k \in refs' \/ Purges(h, k)'
          \/ final[k] # {} /\ k \notin refs /\ ~Purges(h, k)
  BY <1>1, <1>10
<1> QED
  BY <1>1, <1>3, <1>7, <1>9, <1>11, DocumentsKept

\* An application that is absent has no secrets, and no call removes any while another
\* creates it.
LEMMA AbsentHasNoSecrets ==
    ASSUME TypeInv, SequentialInv, DocumentInv, Purging, app = "absent",
           NEW h \in Handlers, op[h] = "create"
    PROVE  \A k \in Kinds : final[k] = {}
<1>1. Undisturbed
  BY DEF Purging, Undisturbed, Free
<1>2. ASSUME NEW g \in Handlers, NEW k \in Kinds PROVE ~Purges(g, k)
  <2>1. op[g] \in {"none", "create"}
    BY <1>1 DEF SequentialInv, Alone
  <2>2. phase[g] = "purge" => op[g] \in {"update", "delete"}
    BY <1>1 DEF SequentialInv, Relies
  <2> QED
    BY <2>1, <2>2 DEF Purges
<1>3. refs = {}
  BY DEF TypeInv, GitTyped
<1> QED
  BY <1>2, <1>3 DEF DocumentInv, ReferredInv

\* A commit that adds a path leaves it to be written, and one that removes a path leaves
\* its document to be removed.
LEMMA CommitsKeepDocuments ==
    ASSUME TypeInv, SequentialInv, DocumentInv, NEW h \in Handlers, ~Fail(h),
           \/ CommitCreate(h) \/ SaveApplicationSecretPath(h)
           \/ CommitArchive(h) \/ CommitDelete(h)
    PROVE  DocumentInv'
<1>1. CallsTyped /\ phase[h] = "commit" /\ op[h] # "none" /\ kinds[h] \in SUBSET Kinds
  BY DEF TypeInv, CallsTyped, CommitCreate, SaveApplicationSecretPath, CommitArchive,
         CommitDelete
<1>2. Unwritten(h) = {} /\ \A k : ~Purges(h, k)
  BY <1>1 DEF Unwritten, Purges
<1>3. ASSUME NEW a, NEW r, NEW d, Commit(a, r, d)
      PROVE  refs' = r /\ final' = final /\ admitted' = admitted
  BY <1>3 DEF Commit, vaultVars
<1>4. CASE CommitCreate(h)
  <2>1. /\ ~dir /\ op[h] = "create" /\ Commit("live", kinds[h], TRUE)
        /\ \/ kinds[h] = {} /\ GoOn(h, "event", {})
           \/ GoOn(h, "final", kinds[h])
    BY <1>4 DEF CommitCreate, Conflict
  <2>2. app = "absent" /\ refs' = kinds[h] /\ final' = final /\ admitted' = admitted
    BY <1>3, <2>1 DEF TypeInv, GitTyped
  <2>3. /\ op'[h] = op[h] /\ kinds'[h] = kinds[h] /\ KeepsOthers(h)
        /\ \/ kinds[h] = {} /\ phase'[h] = "event"
           \/ phase'[h] = "final" /\ todo'[h] = kinds[h]
    BY <1>1, <2>1 DEF GoOn, CallsTyped, KeepsOthers
  <2>4. Unwritten(h)' = kinds[h]
    BY <2>3 DEF Unwritten
  <2>5. Serves(h)'
    BY <2>1, <2>2, <2>3, <2>4 DEF Serves
  <2>6. Purging => \A k \in Kinds : final'[k] = {}
    BY <2>1, <2>2, AbsentHasNoSecrets
  <2> QED
    BY <1>1, <2>2, <2>3, <2>4, <2>5, <2>6, DocumentsKept
<1>5. CASE SaveApplicationSecretPath(h) /\ data[h] # {}
  <2>1. /\ op[h] = "update" /\ Commit("live", refs \cup {"env"}, TRUE)
        /\ GoOn(h, "stage", {"env"})
    BY <1>5 DEF SaveApplicationSecretPath
  <2>2. refs' = refs \cup {"env"} /\ final' = final /\ admitted' = admitted
    BY <1>3, <2>1
  <2>3. /\ op'[h] = op[h] /\ phase'[h] = "stage" /\ KeepsOthers(h)
    BY <1>1, <2>1 DEF GoOn, CallsTyped, KeepsOthers
  <2>4. Unwritten(h)' = {"env"} /\ Serves(h)' /\ ~Created(h)'
    BY <2>1, <2>3 DEF Unwritten, Serves, Created
  <2> QED
    BY <1>1, <1>2, <2>1, <2>2, <2>3, <2>4, DocumentsKept
<1>6. CASE SaveApplicationSecretPath(h) /\ data[h] = {}
  <2>1. /\ op[h] = "update" /\ Commit("live", refs \ {"env"}, TRUE)
        /\ GoOn(h, "purge", {"env"})
    BY <1>6 DEF SaveApplicationSecretPath
  <2>2. refs' = refs \ {"env"} /\ final' = final /\ admitted' = admitted
    BY <1>3, <2>1
  <2>3. /\ op'[h] = op[h] /\ phase'[h] = "purge" /\ todo'[h] = {"env"}
        /\ data'[h] = {} /\ KeepsOthers(h)
    BY <1>1, <1>6, <2>1 DEF GoOn, CallsTyped, KeepsOthers
  <2>4. (\A k : Purges(h, k)' <=> k = "env") /\ Serves(h)' /\ ~Created(h)'
    BY <2>1, <2>2, <2>3 DEF Purges, Serves, Created
  <2> QED
    BY <1>1, <1>2, <2>1, <2>2, <2>3, <2>4, DocumentsKept
<1>7. CASE CommitArchive(h)
  <2>1. /\ op[h] = "archive" /\ Commit("archived", refs, TRUE) /\ GoOn(h, "event", {})
    BY <1>7 DEF CommitArchive
  <2>2. refs' = refs /\ final' = final /\ admitted' = admitted
    BY <1>3, <2>1
  <2>3. op'[h] = op[h] /\ KeepsOthers(h)
    BY <1>1, <2>1 DEF GoOn, CallsTyped, KeepsOthers
  <2>4. Serves(h)' /\ ~Created(h)'
    BY <2>1, <2>3 DEF Serves, Created
  <2> QED
    BY <1>1, <1>2, <2>1, <2>2, <2>3, <2>4, DocumentsKept
<1>8. CASE CommitDelete(h)
  <2>1. /\ op[h] = "delete" /\ Commit("absent", {}, FALSE)
        /\ \/ refs = {} /\ Finish(h)
           \/ GoOn(h, "purge", refs)
    BY <1>8 DEF CommitDelete, CollectSecretPaths
  <2>2. refs' = {} /\ final' = final /\ admitted' = admitted
    BY <1>3, <2>1
  <2>3. /\ KeepsOthers(h)
        /\ \/ refs = {} /\ op'[h] = "none" /\ phase'[h] = "idle"
           \/ op'[h] = op[h] /\ phase'[h] = "purge" /\ todo'[h] = refs
    BY <1>1, <2>1, FinishAt DEF GoOn, CallsTyped, KeepsOthers
  <2>4. (\A k \in refs : Purges(h, k)') /\ Serves(h)' /\ ~Created(h)'
    BY <2>1, <2>2, <2>3 DEF Purges, Serves, Created
  <2> QED
    BY <1>1, <1>2, <2>1, <2>2, <2>3, <2>4, DocumentsKept
<1> QED
  BY <1>4, <1>5, <1>6, <1>7, <1>8

LEMMA EventKeepsDocuments ==
    ASSUME TypeInv, SequentialInv, DocumentInv, NEW h \in Handlers, AppendEvent(h)
    PROVE  DocumentInv'
<1>1. /\ CallsTyped /\ Finish(h) /\ phase[h] = "event"
      /\ UNCHANGED <<refs, final, admitted>>
  BY DEF TypeInv, AppendEvent, vaultVars
<1>2. op'[h] = "none" /\ phase'[h] = "idle" /\ KeepsOthers(h)
  BY <1>1, FinishAt
<1>3. /\ Serves(h)' /\ ~Created(h)' /\ Unwritten(h) = {} /\ \A k : ~Purges(h, k)
  BY <1>1, <1>2 DEF Serves, Created, Unwritten, Purges
<1> QED
  BY <1>1, <1>2, <1>3, DocumentsKept

\* A step that leaves the metadata, the documents and the calls leaves DocumentInv.
LEMMA DocumentsUntouched ==
    ASSUME DocumentInv, UNCHANGED <<refs, final, op, phase, kinds, todo, data, admitted>>
    PROVE  DocumentInv'
<1>1. \A h \in Handlers :
         /\ Unwritten(h)' = Unwritten(h) /\ (Created(h)' <=> Created(h))
         /\ \A k : Purges(h, k)' <=> Purges(h, k)
  BY DEF Unwritten, Created, Purges
<1>2. \A h \in Handlers : Serves(h) => Serves(h)'
  BY <1>1 DEF Serves, Payload
<1>3. ServedInv'
  BY <1>1, <1>2 DEF DocumentInv, ServedInv, OneCreated, Undisturbed, Free
<1>4. StoredInv'
  BY <1>1 DEF DocumentInv, StoredInv, Storing, Free
<1>5. ReferredInv'
  BY <1>1 DEF DocumentInv, ReferredInv, Purging, Free
<1> QED
  BY <1>3, <1>4, <1>5 DEF DocumentInv

\* In every reachable state, what the metadata refers to and what the secret store holds
\* differ only by what calls under way have still to write or to remove.
THEOREM DocumentsAgree == Spec => []DocumentInv
<1>1. Init => DocumentInv
  BY DEF Init, DocumentInv, ServedInv, OneCreated, Created, Serves, StoredInv, ReferredInv
<1>2. TypeInv /\ SequentialInv /\ DocumentInv /\ [Next]_vars => DocumentInv'
  <2> SUFFICES ASSUME TypeInv, SequentialInv, DocumentInv, [Next]_vars PROVE DocumentInv'
    OBVIOUS
  <2>1. ASSUME NEW h \in Handlers, Step(h) PROVE DocumentInv'
    <3>1. CASE Fail(h) /\ phase[h] \in {"read", "commit"}
      BY <3>1, FailKeepsDocuments
    <3>2. CASE /\ ~Fail(h)
               /\ \/ \E S \in SUBSET Keys : \E D \in SUBSET (Keys \ S) : ReadValues(h, S, D)
                  \/ ReadVersion(h)
      BY <3>2, ReadKeepsDocuments
    <3>3. CASE /\ ~Fail(h)
               /\ \/ CommitCreate(h) \/ SaveApplicationSecretPath(h)
                  \/ CommitArchive(h) \/ CommitDelete(h)
      BY <3>3, CommitsKeepDocuments
    <3>4. StageAt(h) \/ Finalize(h) \/ DeleteStaged(h) \/ DeleteSecret(h) \/ AppendEvent(h)
          => DocumentInv'
      BY StageKeepsDocuments, FinalizeKeepsDocuments, UnstageKeepsDocuments,
         PurgeKeepsDocuments, EventKeepsDocuments
    <3>5. ASSUME \/ \E S \in SUBSET Keys : \E D \in SUBSET (Keys \ S) : ReadValues(h, S, D)
                 \/ ReadVersion(h) \/ CommitCreate(h) \/ SaveApplicationSecretPath(h)
                 \/ CommitArchive(h) \/ CommitDelete(h)
          PROVE  phase[h] \in {"read", "commit"}
      BY <3>5 DEF ReadValues, ReadVersion, CommitCreate, SaveApplicationSecretPath,
         CommitArchive, CommitDelete
    <3> QED
      BY <2>1, <3>1, <3>2, <3>3, <3>4, <3>5 DEF Step, normalizeSecretDeleteKeys
  <2>2. ASSUME NEW h \in Handlers, Stop(h) PROVE DocumentInv'
    BY <2>2, FailKeepsDocuments DEF Stop, Admits
  <2>3. CASE Background
    <3>1. UNCHANGED <<refs, final, op, phase, kinds, todo, data, admitted>>
      BY <2>3 DEF Background, ListApplications, ReplaceProjectApplications, Expire, Age,
         CleanupStale, gitVars, vaultVars, callVars
    <3> QED
      BY <3>1, DocumentsUntouched
  <2>4. CASE UNCHANGED vars
    <3>1. UNCHANGED <<refs, final, op, phase, kinds, todo, data, admitted>>
      BY <2>4 DEF vars, gitVars, vaultVars, callVars
    <3> QED
      BY <3>1, DocumentsUntouched
  <2> QED
    BY <2>1, <2>2, <2>3, <2>4, CallKeepsDocuments DEF Next
<1> QED
  BY <1>1, <1>2, InvariantHolds, CallsFollowEachOther, PTL DEF Spec

\* Once calls have ended, every secret that the metadata refers to exists, unless one
\* ended between its commit and the last of its final writes.
THEOREM PathsLeadToSecrets == Spec => []NoDangling
<1>1. DocumentInv => NoDangling
  BY DEF DocumentInv, StoredInv, Storing, Unwritten, Quiet, NoDangling
<1> QED
  BY <1>1, DocumentsAgree, PTL

\* Once calls have ended, no secret is stored that the metadata does not refer to, unless
\* a deletion of one failed.
THEOREM SecretsAreReferredTo == Spec => []NoOrphans
<1>1. DocumentInv => NoOrphans
  BY DEF DocumentInv, ReferredInv, Purging, Purges, Quiet, NoOrphans
<1> QED
  BY <1>1, DocumentsAgree, PTL

\* A step of AnswersHold.
Answered ==
    Free({"overlap", "stale"}) => \A h \in Handlers :
       phase[h] = "event" /\ phase'[h] = "idle" =>
          /\ op[h] = "create" => /\ refs = kinds[h]
                                 /\ \A k \in kinds[h] : final[k] = Payload(h, k)
          /\ op[h] \in {"update", "restore"} => Visible = data[h]
          /\ op[h] = "archive" => app = "archived"

\* When a call succeeds, the application is as it says: what it wrote is there, and
\* nothing else took its place while it went on.
THEOREM AnswersAreTrue == Spec => AnswersHold
<1>1. ASSUME TypeInv, SequentialInv, DocumentInv PROVE Answered
  <2> SUFFICES ASSUME Undisturbed, NEW h \in Handlers, phase[h] = "event"
      PROVE  /\ op[h] = "create" => /\ refs = kinds[h]
                                    /\ \A k \in kinds[h] : final[k] = Payload(h, k)
             /\ op[h] \in {"update", "restore"} => Visible = data[h]
             /\ op[h] = "archive" => app = "archived"
    BY Zenon DEF Answered, Undisturbed
  <2>1. Serves(h) /\ Relies(h) /\ Unwritten(h) = {}
    BY <1>1 DEF DocumentInv, ServedInv, SequentialInv, Unwritten
  <2> QED
    BY <2>1 DEF Serves, Created, Relies, Visible
<1>2. TypeInv /\ SequentialInv /\ DocumentInv /\ [Next]_vars => [Answered]_vars
  BY <1>1
<1> QED
  BY <1>2, InvariantHolds, CallsFollowEachOther, DocumentsAgree, PTL
     DEF Spec, AnswersHold, Answered

\* A step of NothingResurfaces.
Justified ==
    Free({"overlap", "stale", "purge"}) =>
       \A x \in Visible' \ Visible : \E h \in Handlers : x \in data[h]

\* A variable is seen only if a call that is under way writes it: a path is committed
\* only where no document was left behind.
THEOREM RemovedStaysRemoved == Spec => NothingResurfaces
<1>1. ASSUME TypeInv, SequentialInv, DocumentInv, Next PROVE Justified
  <2> USE <1>1
  <2>1. CASE UNCHANGED <<app, refs, final>>
    BY <2>1 DEF Justified, Visible
  <2>2. ASSUME NEW h \in Handlers, Finalize(h) PROVE Justified
    <3>1. /\ UNCHANGED <<app, refs>> /\ "env" \in Kinds
          /\ final'["env"] \in {final["env"], Payload(h, "env")}
      BY <2>2, LifecycleAssumption DEF Finalize, TypeInv, VaultTyped, gitVars
    <3> QED
      BY <3>1 DEF Justified, Visible, Payload
  <2>3. ASSUME NEW h \in Handlers, DeleteSecret(h) PROVE Justified
    <3>1. /\ UNCHANGED <<app, refs>> /\ "env" \in Kinds
          /\ final'["env"] \in {final["env"], {}}
      BY <2>3, LifecycleAssumption DEF DeleteSecret, TypeInv, VaultTyped, gitVars
    <3> QED
      BY <3>1 DEF Justified, Visible
  <2>4. ASSUME NEW h \in Handlers, CommitCreate(h), ~Fail(h) PROVE Justified
    <3>1. ~dir /\ op[h] = "create" /\ final' = final
      BY <2>4 DEF CommitCreate, Conflict, Commit, vaultVars
    <3>2. app = "absent"
      BY <3>1 DEF TypeInv, GitTyped
    <3>3. Purging => final["env"] = {}
      BY <3>1, <3>2, AbsentHasNoSecrets, LifecycleAssumption
    <3> QED
      BY <3>1, <3>3 DEF Justified, Visible, Purging
  <2>5. ASSUME NEW h \in Handlers, SaveApplicationSecretPath(h), ~Fail(h) PROVE Justified
    <3>1. /\ op[h] = "update" /\ phase[h] = "commit" /\ app = "live" /\ final' = final
          /\ refs' = refs \cup {"env"} \/ "env" \notin refs'
      BY <2>5 DEF SaveApplicationSecretPath, Commit, vaultVars
    <3>2. Purging /\ "env" \notin refs => final["env"] = {}
      <4> SUFFICES ASSUME Purging, "env" \notin refs PROVE final["env"] = {}
        OBVIOUS
      <4>1. \A g \in Handlers : g # h => op[g] = "none"
        BY <3>1 DEF Purging, Undisturbed, Free, SequentialInv, Alone
      <4>2. \A g \in Handlers : ~Purges(g, "env")
        BY <3>1, <4>1 DEF Purges, TypeInv, CallsTyped
      <4> QED
        BY <4>2, LifecycleAssumption DEF DocumentInv, ReferredInv
    <3> QED
      BY <3>1, <3>2 DEF Justified, Visible, Purging
  <2>6. ASSUME NEW h \in Handlers, CommitArchive(h) \/ CommitDelete(h), ~Fail(h)
        PROVE  Justified
    BY <2>6 DEF CommitArchive, CommitDelete, Commit, vaultVars, Justified, Visible
  <2>7. ASSUME NEW h \in Handlers, Step(h) PROVE Justified
    <3>1. \/ UNCHANGED <<app, refs, final>> \/ Fail(h) \/ Finalize(h) \/ DeleteSecret(h)
          \/ CommitCreate(h) \/ SaveApplicationSecretPath(h)
          \/ CommitArchive(h) \/ CommitDelete(h)
      BY <2>7 DEF Step, normalizeSecretDeleteKeys, ReadValues, ReadVersion, StageAt,
         DeleteStaged, AppendEvent, gitVars, vaultVars
    <3>2. Fail(h) => UNCHANGED <<app, refs, final>>
      BY DEF Fail, gitVars, vaultVars
    <3> QED
      BY <2>1, <2>2, <2>3, <2>4, <2>5, <2>6, <3>1, <3>2
  <2>8. ASSUME NEW h \in Handlers, Call(h) \/ Stop(h) PROVE UNCHANGED <<app, refs, final>>
    BY <2>8 DEF Call, CreateApplication, UpdateApplicationSecrets,
       RestoreApplicationSecretVersion, ArchiveApplication, DeleteApplication, OtherCall,
       Begin, Stop, Fail, gitVars, vaultVars
  <2>9. ASSUME Background PROVE UNCHANGED <<app, refs, final>>
    BY <2>9 DEF Background, ListApplications, ReplaceProjectApplications, Expire, Age,
       CleanupStale, gitVars, vaultVars
  <2> QED
    BY <2>1, <2>7, <2>8, <2>9 DEF Next
<1>2. ASSUME TypeInv, SequentialInv, DocumentInv, [Next]_vars PROVE [Justified]_vars
  BY <1>1, <1>2
<1> QED
  BY <1>2, InvariantHolds, CallsFollowEachOther, DocumentsAgree, PTL
     DEF Spec, NothingResurfaces, Justified
=============================================================================
