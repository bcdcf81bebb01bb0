------------------------- MODULE ApplicationLifecycle -------------------------
(***************************************************************************)
(* One application name: its directory in the Git repository, the secrets  *)
(* its manifests refer to, and the cached catalog that says whether it     *)
(* exists.                                                                 *)
(*                                                                         *)
(* A call works on several stores one after the other and undoes nothing.  *)
(* Secrets are staged under the call's request id, Git is committed, then  *)
(* each secret is written to its final path and its staged copy removed.   *)
(* A commit is one step here (see GitRepository); a step that fails, a     *)
(* client that goes away and a process that stops all end the call.        *)
(***************************************************************************)
EXTENDS Naturals, FiniteSets

CONSTANTS
    Handlers,       \* request ids of calls that may be handled at the same time
    Kinds,          \* the kinds of secrets in use
    Keys,           \* the variables of an environment
    Limits,         \* bound: for each scenario, the kinds and the keys that calls are given
    Scenarios       \* sets of disturbances: each behaviour admits one of them

Position == [env |-> 1, repository |-> 2, registry |-> 3]

Operations == {"create", "update", "restore", "archive", "delete", "other"}
Phases == {"idle", "read", "stage", "commit", "final", "unstage", "purge", "event"}

\* A phase among a behaviour's disturbances is one that calls may end in.  With
\* "overlap" calls are handled at the same time, with "race" only those that create
\* the application are; with "stale" the catalog's cache may be behind; with "slow" a
\* call may last longer than MaxAge.
Disturbances ==
    {"overlap", "race", "stale", "slow", "read", "stage", "commit", "final", "unstage", "purge"}

ASSUME LifecycleAssumption ==
    /\ Kinds \subseteq DOMAIN Position
    /\ "env" \in Kinds
    /\ Keys # {}
    /\ Scenarios \subseteq SUBSET Disturbances
    /\ \A s \in Scenarios : Limits[s].kinds \subseteq Kinds /\ Limits[s].keys \subseteq Keys

VARIABLES
    (* Git *)
    app,            \* absent, live or archived, as the metadata says
    refs,           \* the kinds whose paths the metadata holds
    dir,            \* does apps/<project>/<name> exist?
    (* secret store *)
    final,          \* the keys of the document at each final path; {} if there is none
    versions,       \* earlier and present contents of the environment's document
    staged,         \* staged documents, each of a request and a kind
    old,            \* those staged longer than MaxAge ago
    (* catalog cache: sets of at most one record, that of the application while it is
       live, of which calls use whether it has an environment *)
    cached,
    projection,     \* what a slow refresh has read and not yet stored
    (* each call *)
    op, phase,
    kinds,          \* the kinds it writes
    todo,           \* those left in its loop
    data,           \* the environment it writes
    had,            \* did the record it read have an environment?
    admitted

gitVars   == <<app, refs, dir>>
vaultVars == <<final, versions, staged, old>>
cacheVars == <<cached, projection>>
callVars  == <<op, phase, kinds, todo, data, had>>
vars      == <<gitVars, vaultVars, cacheVars, callVars, admitted>>

Admits(f) == f \in admitted

\* The loops take kinds in this order.
NextOf(S) == CHOOSE k \in S : \A j \in S : Position[k] <= Position[j]

\* What call h writes for kind k: a token or credential has one content here.
Payload(h, k) == IF k = "env" THEN data[h] ELSE Keys

\* A list of the project's live applications.
Listing(a, r) == IF a = "live" THEN {"env" \in r} ELSE {}

-----------------------------------------------------------------------------

Init ==
    /\ app = "absent" /\ refs = {} /\ dir = FALSE
    /\ final = [k \in Kinds |-> {}]
    /\ versions = {} /\ staged = {} /\ old = {}
    /\ cached = {} /\ projection = {}
    /\ op = [h \in Handlers |-> "none"]
    /\ phase = [h \in Handlers |-> "idle"]
    /\ kinds = [h \in Handlers |-> {}]
    /\ todo = [h \in Handlers |-> {}]
    /\ data = [h \in Handlers |-> {}]
    /\ had = [h \in Handlers |-> FALSE]
    /\ admitted \in Scenarios

\* A request id is new: nothing is left of the call that last had it.
MayBegin(h, o) ==
    /\ phase[h] = "idle"
    /\ ~\E k \in Kinds : <<h, k>> \in staged
    /\ \/ Admits("overlap")
       \/ \A g \in Handlers : phase[g] = "idle"
       \/ Admits("race") /\ o = "create" /\ \A g \in Handlers : op[g] \in {"none", "create"}

Begin(h, o, next, K, D, configured) ==
    /\ MayBegin(h, o)
    /\ op' = [op EXCEPT ![h] = o]
    /\ phase' = [phase EXCEPT ![h] = next]
    /\ kinds' = [kinds EXCEPT ![h] = K]
    /\ todo' = [todo EXCEPT ![h] = K]
    /\ data' = [data EXCEPT ![h] = D]
    /\ had' = [had EXCEPT ![h] = configured]
    /\ UNCHANGED <<gitVars, vaultVars, cacheVars, admitted>>

\* The call goes on to the next phase, in which a loop over S begins or goes on.
GoOn(h, next, S) ==
    /\ phase' = [phase EXCEPT ![h] = next]
    /\ todo' = [todo EXCEPT ![h] = S]
    /\ UNCHANGED <<op, kinds, data, had>>

\* The call is answered, or fails.
Finish(h) ==
    /\ op' = [op EXCEPT ![h] = "none"]
    /\ phase' = [phase EXCEPT ![h] = "idle"]
    /\ kinds' = [kinds EXCEPT ![h] = {}]
    /\ todo' = [todo EXCEPT ![h] = {}]
    /\ data' = [data EXCEPT ![h] = {}]
    /\ had' = [had EXCEPT ![h] = FALSE]

Fail(h) == Finish(h) /\ UNCHANGED <<gitVars, vaultVars, cacheVars, admitted>>

\* A commit is followed by a refresh of the cache, or by its invalidation.
Commit(a, r, d) ==
    /\ app' = a /\ refs' = r /\ dir' = d
    /\ \/ cached' = Listing(a, r)
       \/ Admits("stale") /\ cached' = {}
    /\ UNCHANGED <<projection, vaultVars, admitted>>

\* GetApplication: the record in the cache, else the one in Git.
Reads(hasEnv) == hasEnv \in (IF cached # {} THEN cached ELSE Listing(app, refs))

-----------------------------------------------------------------------------
(* The calls. *)

Within(K, D) == K \subseteq Limits[admitted].kinds /\ D \subseteq Limits[admitted].keys

CreateApplication(h, K, D) ==
    /\ Within(K, D)
    /\ ("env" \in K) = (D # {})
    /\ Begin(h, "create", IF K = {} THEN "commit" ELSE "stage", K, D, FALSE)

UpdateApplicationSecrets(h) ==
    \E hasEnv \in BOOLEAN :
        Reads(hasEnv) /\ Begin(h, "update", "read", {"env"}, {}, hasEnv)

RestoreApplicationSecretVersion(h) ==
    Reads(TRUE) /\ Begin(h, "restore", "read", {"env"}, {}, TRUE)

ArchiveApplication(h) == Begin(h, "archive", "commit", {}, {}, FALSE)
DeleteApplication(h)  == Begin(h, "delete", "commit", {}, {}, FALSE)

\* A deployment, a promotion, an edit of the rollback policy: it finds the
\* application and, in the end, appends an event.
OtherCall(h) ==
    /\ \E hasEnv \in BOOLEAN : Reads(hasEnv)
    /\ Begin(h, "other", "event", {}, {}, FALSE)

\* The document at a final path, or none.
Get(k) == final[k]

CurrentValues(h) == IF had[h] THEN Get("env") ELSE {}

\* The keys that a request may delete while it sets those in S.
normalizeSecretDeleteKeys(S) == SUBSET (Keys \ S)

\* An update sets the keys in S and deletes those in D.
ReadValues(h, S, D) ==
    /\ phase[h] = "read" /\ op[h] = "update"
    /\ Within({}, S \cup D)
    /\ LET next == (CurrentValues(h) \ D) \cup S
       IN  /\ data' = [data EXCEPT ![h] = next]
           /\ phase' = [phase EXCEPT ![h] =
                  IF (next # {}) # had[h] THEN "commit"
                  ELSE IF next # {} THEN "stage" ELSE "event"]
    /\ UNCHANGED <<gitVars, vaultVars, cacheVars, op, kinds, todo, had, admitted>>

\* GetVersion finds the version, or there is none of that number.
ReadVersion(h) ==
    /\ phase[h] = "read" /\ op[h] = "restore"
    /\ \/ \E v \in versions :
            /\ data' = [data EXCEPT ![h] = v]
            /\ phase' = [phase EXCEPT ![h] = "stage"]
            /\ UNCHANGED <<gitVars, vaultVars, cacheVars, op, kinds, todo, had, admitted>>
       \/ Fail(h)

\* Mutant: creation writes the final paths before it commits.
StageBeforeFinal(h) ==
    /\ phase[h] = "stage"
    /\ LET k == NextOf(todo[h])
           rest == todo[h] \ {k}
       IN  /\ staged' = staged \cup {<<h, k>>}
           /\ IF rest # {} THEN GoOn(h, "stage", rest) ELSE GoOn(h, "final", kinds[h])
    /\ UNCHANGED <<gitVars, final, versions, old, cacheVars, admitted>>

StageAt(h) ==
    /\ phase[h] = "stage"
    /\ LET k == NextOf(todo[h])
           rest == todo[h] \ {k}
       IN  /\ staged' = staged \cup {<<h, k>>}
           /\ IF rest # {} THEN GoOn(h, "stage", rest)
              ELSE IF op[h] = "create" THEN GoOn(h, "commit", kinds[h])
              ELSE GoOn(h, "final", kinds[h])
    /\ UNCHANGED <<gitVars, final, versions, old, cacheVars, admitted>>

\* Mutant: the directory is not looked for.
DirectoryIgnored == FALSE

\* Creation is refused if the directory exists, whatever is in it.
Conflict == dir

CommitCreate(h) ==
    /\ phase[h] = "commit" /\ op[h] = "create"
    /\ IF Conflict THEN Fail(h)
       ELSE /\ Commit("live", kinds[h], TRUE)
            /\ IF kinds[h] = {} THEN GoOn(h, "event", {}) ELSE GoOn(h, "final", kinds[h])

\* Mutant: the application is not read again in the write.
SaveWithoutReading(h) ==
    /\ phase[h] = "commit" /\ op[h] = "update"
    /\ IF data[h] # {}
       THEN Commit("live", refs \cup {"env"}, TRUE) /\ GoOn(h, "stage", {"env"})
       ELSE Commit("live", refs \ {"env"}, TRUE) /\ GoOn(h, "purge", {"env"})

\* Mutants: the path is saved though nothing is left; the document is not deleted.
SavePathAlways(h) ==
    /\ phase[h] = "commit" /\ op[h] = "update"
    /\ IF app # "live" THEN Fail(h)
       ELSE /\ Commit("live", refs \cup {"env"}, TRUE)
            /\ GoOn(h, IF data[h] # {} THEN "stage" ELSE "purge", {"env"})
SaveKeepingDocument(h) ==
    /\ phase[h] = "commit" /\ op[h] = "update"
    /\ IF app # "live" THEN Fail(h)
       ELSE IF data[h] # {}
       THEN Commit("live", refs \cup {"env"}, TRUE) /\ GoOn(h, "stage", {"env"})
       ELSE Commit("live", refs \ {"env"}, TRUE) /\ GoOn(h, "event", {})

\* An update whose path changes: to none when no key is left.
SaveApplicationSecretPath(h) ==
    /\ phase[h] = "commit" /\ op[h] = "update"
    /\ IF app # "live" THEN Fail(h)
       ELSE IF data[h] # {}
       THEN Commit("live", refs \cup {"env"}, TRUE) /\ GoOn(h, "stage", {"env"})
       ELSE Commit("live", refs \ {"env"}, TRUE) /\ GoOn(h, "purge", {"env"})

\* Mutant: the whole directory goes.
ArchiveStripsAll(h) ==
    /\ phase[h] = "commit" /\ op[h] = "archive"
    /\ IF app # "live" THEN Fail(h)
       ELSE Commit("archived", refs, FALSE) /\ GoOn(h, "event", {})

\* The metadata stays, so that deletion will find the secrets.
CommitArchive(h) ==
    /\ phase[h] = "commit" /\ op[h] = "archive"
    /\ IF app # "live" THEN Fail(h)
       ELSE Commit("archived", refs, TRUE) /\ GoOn(h, "event", {})

\* Mutant: only the environment's path is collected.
CollectedEnvironment == refs \cap {"env"}

CollectSecretPaths == refs

CommitDelete(h) ==
    /\ phase[h] = "commit" /\ op[h] = "delete"
    /\ IF app = "absent" THEN Fail(h)
       ELSE /\ Commit("absent", {}, FALSE)
            /\ IF CollectSecretPaths = {} THEN Finish(h) ELSE GoOn(h, "purge", CollectSecretPaths)

\* Finalize writes the final path ...
Finalize(h) ==
    /\ phase[h] = "final"
    /\ LET k == NextOf(todo[h])
       IN  /\ final' = [final EXCEPT ![k] = Payload(h, k)]
           /\ versions' = IF k = "env" THEN versions \cup {data[h]} ELSE versions
    /\ GoOn(h, "unstage", todo[h])
    /\ UNCHANGED <<gitVars, staged, old, cacheVars, admitted>>

\* ... and then deletes the staged document.
DeleteStaged(h) ==
    /\ phase[h] = "unstage"
    /\ LET k == NextOf(todo[h])
           rest == todo[h] \ {k}
       IN  /\ staged' = staged \ {<<h, k>>}
           /\ old' = old \ {<<h, k>>}
           /\ IF rest # {} THEN GoOn(h, "final", rest) ELSE GoOn(h, "event", {})
    /\ UNCHANGED <<gitVars, final, versions, cacheVars, admitted>>

\* Mutant: a deletion is recorded as an event, as other calls are.
DeleteSecretThenEvent(h) ==
    /\ phase[h] = "purge"
    /\ LET k == NextOf(todo[h])
           rest == todo[h] \ {k}
       IN  /\ final' = [final EXCEPT ![k] = {}]
           /\ versions' = IF k = "env" THEN {} ELSE versions
           /\ IF rest # {} THEN GoOn(h, "purge", rest) ELSE GoOn(h, "event", {})
    /\ UNCHANGED <<gitVars, staged, old, cacheVars, admitted>>

\* Secrets.Delete removes a document with all its versions.
DeleteSecret(h) ==
    /\ phase[h] = "purge"
    /\ LET k == NextOf(todo[h])
           rest == todo[h] \ {k}
       IN  /\ final' = [final EXCEPT ![k] = {}]
           /\ versions' = IF k = "env" THEN {} ELSE versions
           /\ IF rest # {} THEN GoOn(h, "purge", rest)
              ELSE IF op[h] = "delete" THEN Finish(h)
              ELSE GoOn(h, "event", {})
    /\ UNCHANGED <<gitVars, staged, old, cacheVars, admitted>>

\* The event's file is written, with its directories, or its failure is ignored.
AppendEvent(h) ==
    /\ phase[h] = "event"
    /\ dir' \in {dir, TRUE}
    /\ Finish(h)
    /\ UNCHANGED <<app, refs, vaultVars, cacheVars, admitted>>

Stop(h) == phase[h] # "idle" /\ Admits(phase[h]) /\ Fail(h)

-----------------------------------------------------------------------------
(* In the background. *)

\* A refresh lists the applications, which fails while a directory holds none, and
\* later replaces the cached ones.
ListApplications ==
    /\ Admits("stale")
    /\ dir => app # "absent"
    /\ projection' = Listing(app, refs)
    /\ UNCHANGED <<gitVars, vaultVars, cached, callVars, admitted>>

ReplaceProjectApplications ==
    /\ Admits("stale")
    /\ cached' = projection
    /\ UNCHANGED <<gitVars, vaultVars, projection, callVars, admitted>>

\* The cached records are no longer fresh.
Expire ==
    /\ Admits("stale")
    /\ cached' = {}
    /\ UNCHANGED <<gitVars, vaultVars, projection, callVars, admitted>>

Age(d) ==
    /\ d \in staged \ old
    /\ phase[d[1]] = "idle" \/ Admits("slow")
    /\ old' = old \cup {d}
    /\ UNCHANGED <<gitVars, final, versions, staged, cacheVars, callVars, admitted>>

\* Mutant: documents of calls that did not finish are kept.
StaleIfUsed == {d \in old : phase[d[1]] # "idle"}

Stale == old

\* The worker removes stale documents one by one, and stops at an error.
CleanupStale(D) ==
    /\ D # {} /\ D \subseteq Stale
    /\ staged' = staged \ D
    /\ old' = old \ D
    /\ UNCHANGED <<gitVars, final, versions, cacheVars, callVars, admitted>>

Call(h) ==
    \/ \E K \in SUBSET Kinds, D \in SUBSET Keys : CreateApplication(h, K, D)
    \/ UpdateApplicationSecrets(h)
    \/ RestoreApplicationSecretVersion(h)
    \/ ArchiveApplication(h)
    \/ DeleteApplication(h)
    \/ OtherCall(h)

Step(h) ==
    \/ \E S \in SUBSET Keys : \E D \in normalizeSecretDeleteKeys(S) : ReadValues(h, S, D)
    \/ ReadVersion(h)
    \/ StageAt(h)
    \/ CommitCreate(h)
    \/ SaveApplicationSecretPath(h)
    \/ CommitArchive(h)
    \/ CommitDelete(h)
    \/ Finalize(h)
    \/ DeleteStaged(h)
    \/ DeleteSecret(h)
    \/ AppendEvent(h)

Background ==
    \/ ListApplications
    \/ ReplaceProjectApplications
    \/ Expire
    \/ \E d \in staged : Age(d)
    \/ \E D \in SUBSET old : CleanupStale(D)

Next == (\E h \in Handlers : Call(h) \/ Step(h) \/ Stop(h)) \/ Background

Spec == Init /\ [][Next]_vars

\* Calls go on or end, time passes, and the cleanup worker runs at every interval until
\* it has gone through the whole list (cleanup.go).
FairSpec ==
    /\ Spec
    /\ \A h \in Handlers : WF_vars(Step(h) \/ Stop(h))
    /\ \A d \in Handlers \X Kinds : WF_vars(Age(d))
    /\ WF_vars(CleanupStale(Stale))

-----------------------------------------------------------------------------
(* Properties. *)

TypeOK ==
    /\ app \in {"absent", "live", "archived"}
    /\ refs \subseteq Kinds
    /\ dir \in BOOLEAN
    /\ app = "absent" => refs = {}
    /\ app # "absent" => dir
    /\ final \in [Kinds -> SUBSET Keys]
    /\ versions \subseteq (SUBSET Keys) \ {{}}
    /\ staged \subseteq Handlers \X Kinds
    /\ old \subseteq staged
    /\ cached \subseteq BOOLEAN /\ projection \subseteq BOOLEAN
    /\ Cardinality(cached) <= 1 /\ Cardinality(projection) <= 1
    /\ op \in [Handlers -> Operations \cup {"none"}]
    /\ phase \in [Handlers -> Phases]
    /\ \A h \in Handlers : (op[h] = "none") = (phase[h] = "idle")
    /\ kinds \in [Handlers -> SUBSET Kinds]
    /\ todo \in [Handlers -> SUBSET Kinds]
    /\ \A h \in Handlers : phase[h] \in {"stage", "final", "unstage", "purge"} => todo[h] # {}
    /\ data \in [Handlers -> SUBSET Keys]
    /\ had \in [Handlers -> BOOLEAN]
    /\ admitted \subseteq Disturbances

Quiet == \A h \in Handlers : phase[h] = "idle"
Free(F) == admitted \cap F = {}

\* The environment that the application's pods are given.
Visible == IF app # "absent" /\ "env" \in refs THEN final["env"] ELSE {}

\* Once calls have ended, every secret that the metadata refers to exists, unless one
\* ended between its commit and the last of its final writes.  Creations that race,
\* and refusals by Git, do no harm.
NoDangling ==
    Free({"overlap", "stale", "stage", "final", "unstage"}) /\ Quiet =>
        \A k \in refs : final[k] # {}

\* Once calls have ended, no secret is stored that the metadata does not refer to,
\* unless a deletion of one failed.
NoOrphans ==
    Free({"overlap", "stale", "purge"}) /\ Quiet =>
        \A k \in Kinds : final[k] # {} => k \in refs

\* A directory holds an application, so that a deleted name can be created again and
\* the project can be listed, whatever steps fail.
DirectoryHoldsApplication ==
    Free({"overlap", "stale"}) => (dir <=> app # "absent")

\* A secret reaches its final path when the commit that refers to it is made, not
\* before (docs/domain-rules.md:73), whatever steps fail.
FinalAfterCommit ==
    [][Free({"overlap", "stale"}) =>
          \A k \in Kinds : final'[k] # final[k] /\ final'[k] # {} => k \in refs]_vars

\* When a call succeeds, the application is as it says, whatever calls failed before
\* it, and even if others tried to create it meanwhile.
AnswersHold ==
    [][Free({"overlap", "stale"}) => \A h \in Handlers :
          phase[h] = "event" /\ phase'[h] = "idle" =>
             /\ op[h] = "create" => /\ refs = kinds[h]
                                    /\ \A k \in kinds[h] : final[k] = Payload(h, k)
             /\ op[h] \in {"update", "restore"} => Visible = data[h]
             /\ op[h] = "archive" => app = "archived"]_vars

\* A variable is seen only if a call that is under way writes it: those that were
\* removed, or were of a deleted application of that name, do not come back.
NothingResurfaces ==
    [][Free({"overlap", "stale", "purge"}) =>
          \A x \in Visible' \ Visible : \E h \in Handlers : x \in data[h]]_vars

\* Calls that overlap, read stale records and end anywhere never bring back an
\* archived application or its paths, nor a deleted one but by creating it.
LifecycleOrder ==
    [][/\ app = "archived" /\ app' # "absent" => app' = app /\ refs' = refs
       /\ app = "absent" /\ app' # "absent" =>
             \E h \in Handlers : op[h] = "create" /\ phase[h] = "commit" /\ phase'[h] # "commit"]_vars

\* What is staged is removed, by its call or by the worker (docs/domain-rules.md:74).
StagesAreCleaned ==
    \A d \in Handlers \X Kinds : d \in staged ~> d \notin staged

\* A name is refused as taken (http.go:768) only if there is such an application.
ConflictMeansExists ==
    [][\A h \in Handlers :
          op[h] = "create" /\ phase[h] = "commit" /\ dir /\ phase'[h] = "idle"
             => app # "absent"]_vars
=============================================================================
