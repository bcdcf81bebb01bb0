------------------------------ MODULE FluxWiring ------------------------------
(***************************************************************************)
(* The wiring of applications to clusters.  Flux runs on a cluster what    *)
(* the root Kustomization of the cluster lists: one child per application  *)
(* whose environment the catalog places there.  The catalog of projects,   *)
(* the applications, the children and the roots are files of one           *)
(* repository, and every commit that changes one of them has to keep the   *)
(* others in step.                                                         *)
(*                                                                         *)
(* A commit is one step (see GitRepository).  A call reads the catalog     *)
(* first and commits later, with the project's environments as it read     *)
(* them.  Secrets, records and the manifests of a workload are elsewhere.  *)
(***************************************************************************)
EXTENDS Naturals, Sequences, FiniteSets

CONSTANTS
    Projects,       \* project ids, as the sequences of their parts between hyphens
    Protected,      \* those in the shared namespace
    Apps,           \* applications: pairs of a project id and a name of the same form
    Clusters,
    Envs,
    EnvLists,       \* lists of environments a project is created with
    Policies,       \* lists of allowed environments a policy is given, as sets
    MaxCalls,       \* bound, for each scenario: how many calls are under way at a time
    NoProject, NoApp, NoEnv,
    Manual,         \* the owner of a child that was written by hand
    Scenarios       \* sets of disturbances: each behaviour admits one of them

\* With "stale" a project may be deleted, and created again, between the read and the
\* commit of a call on it; with "prefix" project ids may begin like one another; with
\* "leftover" children that no application has may be there from the start.
Disturbances == {"stale", "prefix", "leftover"}

\* The name of a child and of its file: the project id, a hyphen, the name.
fluxChildFileName(a) == a[1] \o a[2]
Files == {fluxChildFileName(a) : a \in Apps}

\* A file name begins with a project id and a hyphen.
HasPrefix(f, p) == Len(p) < Len(f) /\ SubSeq(f, 1, Len(p)) = p
Apart(p, q) == ~HasPrefix(p, q) /\ ~HasPrefix(q, p)

Ids(list) == {list[i].id : i \in DOMAIN list}

\* A project has an environment, and its environments have different ids.
normalizeCreateEnvironments(list) ==
    /\ list \in Seq([id : Envs, cluster : Clusters])
    /\ list # <<>>
    /\ \A i, j \in DOMAIN list : list[i].id = list[j].id => i = j

ASSUME WiringAssumption ==
    /\ \A p \in Projects : p \in Seq(STRING) /\ p # <<>>
    /\ \A a \in Apps : a \in Projects \X Seq(STRING) /\ a[2] # <<>>
    /\ "default" \in Clusters
    /\ NoEnv \notin Envs
    /\ \A l \in EnvLists : normalizeCreateEnvironments(l)
    /\ Policies \subseteq SUBSET Envs
    /\ NoApp \notin Apps \cup {Manual} /\ Manual \notin Apps
    /\ NoApp \notin [status : {"live", "archived"}, env : Envs]
    /\ NoProject \notin [environments : EnvLists, allowed : SUBSET Envs]
    /\ \A s \in Scenarios : MaxCalls[s] \in Nat
    /\ Scenarios \subseteq SUBSET Disturbances

VARIABLES
    catalog,        \* each project's environments and the ones its policy allows
    clusters,       \* catalogued clusters
    apps,           \* each application's metadata: live or archived, and its environment
    child,          \* on each cluster, for each file name, the application it runs
    root,           \* on each cluster, the files its root Kustomization lists
    scaffolded,     \* clusters that have a root Kustomization
    calls,          \* calls that have read the catalog and not committed
    admitted

vars == <<catalog, clusters, apps, child, root, scaffolded, calls, admitted>>
fluxVars == <<child, root, scaffolded>>

Admits(f) == f \in admitted

Live(a) == apps[a] # NoApp /\ apps[a].status = "live"
Catalogued(p) == catalog[p] # NoProject

\* An environment that the list does not have falls back to the first one's cluster.
clusterIDForEnvironment(list, e) ==
    IF e \in Ids(list) THEN list[CHOOSE i \in DOMAIN list : list[i].id = e].cluster
    ELSE list[1].cluster

clusterIDs(list) == {list[i].cluster : i \in DOMAIN list}

\* Where the present catalog wants the application to run.
Place(a) == clusterIDForEnvironment(catalog[a[1]].environments, apps[a].env)

Listed(files) == {f \in Files : files[f] # NoApp}

\* The children become new, and the roots in touched are written again.
RewriteClusterRoot(new, touched) ==
    /\ child' = new
    /\ root' = [c \in Clusters |-> IF c \in touched THEN Listed(new[c]) ELSE root[c]]
    /\ scaffolded' = scaffolded \cup touched

EnsureCluster(touched) == RewriteClusterRoot(child, touched)

ensureClusterScaffolds(list) == EnsureCluster(clusterIDs(list))

\* The given children are removed, and the roots that lose one are written again.
RemoveChildren(Gone(_, _)) ==
    LET new == [c \in Clusters |-> [f \in Files |-> IF Gone(c, f) THEN NoApp ELSE child[c][f]]]
    IN  RewriteClusterRoot(new, {c \in Clusters : new[c] # child[c]})

-----------------------------------------------------------------------------

\* What an earlier release or a hand left: children without their applications.
Leftovers ==
    {k \in [Clusters -> [Files -> Apps \cup {Manual, NoApp}]] :
        /\ Cardinality({c \in Clusters : Listed(k[c]) # {}}) <= 1
        /\ \A c \in Clusters : Cardinality(Listed(k[c])) <= 1
        /\ \A c \in Clusters, a \in Apps, f \in Files :
              k[c][f] = a => f = fluxChildFileName(a)}

Init ==
    /\ catalog = [p \in Projects |-> NoProject]
    /\ clusters = {"default"}
    /\ apps = [a \in Apps |-> NoApp]
    /\ admitted \in Scenarios
    /\ child \in IF Admits("leftover") THEN Leftovers
                 ELSE {[c \in Clusters |-> [f \in Files |-> NoApp]]}
    /\ root = [c \in Clusters |-> Listed(child[c])]
    /\ scaffolded = {c \in Clusters : root[c] # {}}
    /\ calls = {}

CreateCluster(c) ==
    /\ c \notin clusters
    /\ clusters' = clusters \cup {c}
    /\ EnsureCluster({c})
    /\ UNCHANGED <<catalog, apps, calls, admitted>>

\* No list of allowed environments means all of the project's.
applyPolicyDefaults(allowed, list) == IF allowed = {} THEN Ids(list) ELSE allowed

catalogProjectFromProject(list, allowed) ==
    [environments |-> list, allowed |-> applyPolicyDefaults(allowed, list)]

\* Until a cluster is catalogued, there is the default one.
KnownClusters == clusters \cup {"default"}

validateClusterTargets(list) == clusterIDs(list) \subseteq KnownClusters
validateCreatePolicyTargets(allowed, list) == allowed \subseteq Ids(list)

\* What a new project must be; its environments are a list that EnvLists has.
normalizeCreateRequest(list, allowed) ==
    validateClusterTargets(list) /\ validateCreatePolicyTargets(allowed, list)

CreateProject(p, list, allowed) ==
    /\ ~Catalogued(p)
    /\ Admits("prefix") \/ \A q \in Projects : Catalogued(q) => Apart(p, q)
    /\ catalog' = [catalog EXCEPT ![p] = catalogProjectFromProject(list, allowed)]
    /\ ensureClusterScaffolds(list)
    /\ UNCHANGED <<clusters, apps, calls, admitted>>

Create(p) ==
    \E l \in EnvLists, q \in Policies : normalizeCreateRequest(l, q) /\ CreateProject(p, l, q)

Deletable(p) == Catalogued(p) /\ p \notin Protected

\* The children of a project are those whose file names begin with its id.
DeleteProject(p) ==
    /\ Admits("stale") \/ \A k \in calls : k.app[1] # p
    /\ Deletable(p)
    /\ RemoveChildren(LAMBDA c, f : HasPrefix(f, p))
    /\ apps' = [a \in Apps |-> IF a[1] = p THEN NoApp ELSE apps[a]]
    /\ catalog' = [catalog EXCEPT ![p] = NoProject]
    /\ UNCHANGED <<clusters, calls, admitted>>

\* A new policy may allow environments that the project does not have.
UpdatePolicies(p, allowed) ==
    /\ Catalogued(p)
    /\ catalog' = [catalog EXCEPT ![p].allowed =
           applyPolicyDefaults(allowed, catalog[p].environments)]
    /\ UNCHANGED <<clusters, apps, fluxVars, calls, admitted>>

ChangeCatalog(p) ==
    \/ Create(p)
    \/ DeleteProject(p)
    \/ \E q \in Policies : UpdatePolicies(p, q)

-----------------------------------------------------------------------------

\* A call on a reads its project and goes on to commit operation o.
Begin(o, a, e) ==
    /\ Catalogued(a[1])
    /\ Cardinality(calls) < MaxCalls[admitted]
    /\ calls' = calls \cup
           {[op |-> o, app |-> a, env |-> e, environments |-> catalog[a[1]].environments]}
    /\ UNCHANGED <<catalog, clusters, apps, fluxVars, admitted>>

Allowed(p, e) == Catalogued(p) /\ e \in catalog[p].allowed

BeginCreate(a, e) == Allowed(a[1], e) /\ Begin("create", a, e)
BeginPatch(a, e)  == Live(a) /\ Allowed(a[1], e) /\ Begin("patch", a, e)
BeginRewrite(a)   == Live(a) /\ Begin("rewrite", a, NoEnv)
BeginArchive(a)   == Begin("archive", a, NoEnv)
BeginDelete(a)    == Begin("delete", a, NoEnv)

\* Mutant: the child on the previous cluster is forgotten.
SyncNewWiring(k, e, previous) ==
    LET here == clusterIDForEnvironment(k.environments, e)
        new  == [child EXCEPT ![here][fluxChildFileName(k.app)] = k.app]
    IN  RewriteClusterRoot(new, clusterIDs(k.environments) \cup {here})

\* The application is written with environment e, and wired to the cluster that the
\* call's environments give it; it is unwired from the cluster they gave the previous one.
syncFluxWiring(k, e, previous) ==
    LET f    == fluxChildFileName(k.app)
        here == clusterIDForEnvironment(k.environments, e)
        old  == clusterIDForEnvironment(k.environments, previous)
        new  == [c \in Clusters |-> [child[c] EXCEPT ![f] =
                    IF c = here THEN k.app ELSE IF c = old THEN NoApp ELSE @]]
    IN  RewriteClusterRoot(new, clusterIDs(k.environments) \cup {here, old})

Store(k, e, previous) ==
    /\ syncFluxWiring(k, e, previous)
    /\ apps' = [apps EXCEPT ![k.app] = [status |-> "live", env |-> e]]
    /\ calls' = calls \ {k}
    /\ UNCHANGED <<catalog, clusters, admitted>>

\* The first environment of the list stands for the previous one of a new application.
CreateApplication(k) ==
    /\ k.op = "create"
    /\ apps[k.app] = NoApp
    /\ Store(k, k.env, NoEnv)

PatchApplication(k) ==
    /\ k.op = "patch"
    /\ Live(k.app)
    /\ Store(k, k.env, apps[k.app].env)

\* Mutant: the environment is the one that the call names, and it names none.
UpdateWithEnvironment(k) ==
    /\ k.op = "rewrite"
    /\ Live(k.app)
    /\ Store(k, k.env, apps[k.app].env)

\* A new image, a new secret path: the environment stays.
UpdateApplicationImage(k) ==
    /\ k.op = "rewrite"
    /\ Live(k.app)
    /\ Store(k, apps[k.app].env, apps[k.app].env)

\* Mutant: the roots still list the child.
RemoveUnlisted(a) ==
    /\ child' = [c \in Clusters |-> [child[c] EXCEPT ![fluxChildFileName(a)] = NoApp]]
    /\ UNCHANGED <<root, scaffolded>>

removeFluxChildren(a) == RemoveChildren(LAMBDA c, f : f = fluxChildFileName(a))

ArchiveApplication(k) ==
    /\ k.op = "archive"
    /\ Live(k.app)
    /\ removeFluxChildren(k.app)
    /\ apps' = [apps EXCEPT ![k.app].status = "archived"]
    /\ calls' = calls \ {k}
    /\ UNCHANGED <<catalog, clusters, admitted>>

DeleteApplication(k) ==
    /\ k.op = "delete"
    /\ apps[k.app] # NoApp
    /\ removeFluxChildren(k.app)
    /\ apps' = [apps EXCEPT ![k.app] = NoApp]
    /\ calls' = calls \ {k}
    /\ UNCHANGED <<catalog, clusters, admitted>>

\* The commit is refused, or the call fails before it.
Fail(k) ==
    /\ calls' = calls \ {k}
    /\ UNCHANGED <<catalog, clusters, apps, fluxVars, admitted>>

-----------------------------------------------------------------------------

\* A record that cannot be loaded, as an archived one, ends the cleanup with its error.
loadKnownApplicationRecords == \A a \in Apps : apps[a] # NoApp => Live(a)

\* A child that names an application is an orphan if that application is gone, or is
\* catalogued and has its place elsewhere; one of a project that the catalog does not
\* have is kept, and so is one written by hand.
Orphan(c, f) ==
    LET a == child[c][f] IN
    /\ a \in Apps
    /\ Live(a) => Catalogued(a[1]) /\ <<c, f>> # <<Place(a), fluxChildFileName(a)>>

\* Mutant: only children of applications that are gone are removed.
CleanupOfDeleted ==
    /\ loadKnownApplicationRecords
    /\ RemoveChildren(LAMBDA c, f : child[c][f] \in Apps /\ ~Live(child[c][f]))
    /\ UNCHANGED <<catalog, clusters, apps, calls, admitted>>

CleanupOrphanFluxManifests ==
    /\ loadKnownApplicationRecords
    /\ \E c \in Clusters, f \in Files : Orphan(c, f)
    /\ RemoveChildren(Orphan)
    /\ UNCHANGED <<catalog, clusters, apps, calls, admitted>>

Commit(k) ==
    \/ CreateApplication(k) \/ PatchApplication(k) \/ UpdateApplicationImage(k)
    \/ ArchiveApplication(k) \/ DeleteApplication(k) \/ Fail(k)

Next ==
    \/ \E c \in Clusters : CreateCluster(c)
    \/ \E p \in Projects : ChangeCatalog(p)
    \/ \E a \in Apps, e \in Envs : BeginCreate(a, e) \/ BeginPatch(a, e)
    \/ \E a \in Apps : BeginRewrite(a) \/ BeginArchive(a) \/ BeginDelete(a)
    \/ \E k \in calls : Commit(k)
    \/ CleanupOrphanFluxManifests

Spec == Init /\ [][Next]_vars

\* The worker comes round, and finds the repository's lock free at last; a call ends.
FairSpec ==
    /\ Spec
    /\ WF_vars(CleanupOrphanFluxManifests)
    /\ WF_vars(\E k \in calls : Commit(k))

-----------------------------------------------------------------------------

Owners == Apps \cup {Manual, NoApp}
Records == [status : {"live", "archived"}, env : Envs]
Calls == [op : {"create", "patch", "rewrite", "archive", "delete"}, app : Apps,
          env : Envs \cup {NoEnv}, environments : EnvLists]

\* The variables keep their types, and a call that writes an environment has one.
TypeOK ==
    /\ catalog \in [Projects -> {NoProject} \cup [environments : EnvLists, allowed : SUBSET Envs]]
    /\ clusters \in SUBSET Clusters
    /\ apps \in [Apps -> {NoApp} \cup Records]
    /\ child \in [Clusters -> [Files -> Owners]]
    /\ root \in [Clusters -> SUBSET Files]
    /\ scaffolded \in SUBSET Clusters
    /\ calls \in SUBSET Calls
    /\ \A k \in calls : k.op \in {"create", "patch"} => k.env \in Envs
    /\ admitted \subseteq Disturbances

\* Whatever calls race, the root Kustomization of a cluster lists the children that are
\* there, no more and no fewer: one that lists a file that is gone stops Flux on the
\* whole cluster, and a child it does not list never runs.  Every cluster that the
\* catalog sends applications to has one, and so has every cluster with a child.
RootsListChildren ==
    /\ \A c \in Clusters : root[c] = Listed(child[c])
    /\ \A c \in Clusters : root[c] # {} => c \in scaffolded
    /\ \A p \in Projects : Catalogued(p) =>
          clusterIDs(catalog[p].environments) \subseteq scaffolded

\* As long as no project is deleted between a call's read and its commit, and no project
\* id begins like another's, the clusters run exactly the live applications, whatever
\* calls race: each is wired once, where its project places its environment, and nothing
\* else is wired.
ChildrenMatchApplications ==
    admitted = {} =>
        /\ \A c \in Clusters, a \in Apps :
              child[c][fluxChildFileName(a)] = a <=>
                  Live(a) /\ Catalogued(a[1]) /\ c = Place(a)
        /\ \A c \in Clusters, f \in Files :
              child[c][f] # NoApp =>
                  child[c][f] \in Apps /\ fluxChildFileName(child[c][f]) = f

\* The worker removes every child whose application is gone or runs elsewhere, unless
\* an application is archived: one archived application, in any project, and the
\* cleanup ends with an error before it removes anything.
OrphansAreCleanedUnlessArchived ==
    \A c \in Clusters, f \in Files :
        Orphan(c, f) ~> ~Orphan(c, f) \/ ~loadKnownApplicationRecords

=============================================================================
