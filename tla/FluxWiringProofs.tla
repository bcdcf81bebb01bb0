--------------------------- MODULE FluxWiringProofs ---------------------------
(* Proofs about FluxWiring, for every value of its constants. *)
EXTENDS FluxWiring, SequenceTheorems, TLAPS

-----------------------------------------------------------------------------
(* Names. *)

\* An application's project and name are sequences with at least one part.
LEMMA AppParts ==
    ASSUME NEW a \in Apps
    PROVE  /\ a[1] \in Projects /\ a[1] \in Seq(STRING) /\ a[1] # <<>>
           /\ a[2] \in Seq(STRING) /\ a[2] # <<>>
           /\ a = <<a[1], a[2]>>
  BY WiringAssumption

\* Every application has its file among the files (fluxChildFileName).
LEMMA FileOfApp ==
    ASSUME NEW a \in Apps
    PROVE  fluxChildFileName(a) \in Files
  BY DEF Files

\* What the beginning of a sequence is made of.
LEMMA Beginning ==
    ASSUME NEW s \in Seq(STRING), NEW k \in Nat, k <= Len(s)
    PROVE  /\ SubSeq(s, 1, k) \in Seq(STRING)
           /\ Len(SubSeq(s, 1, k)) = k
           /\ \A i \in 1..k : SubSeq(s, 1, k)[i] = s[i]
<1>1. Len(s) \in Nat /\ \A i \in 1..Len(s) : s[i] \in STRING
  BY LenProperties, ElementOfSeq
<1>2. \A i \in 1..k : s[i] \in STRING
  BY <1>1
<1>3. /\ SubSeq(s, 1, k) \in Seq(STRING)
      /\ Len(SubSeq(s, 1, k)) = IF 1 <= k THEN k-1+1 ELSE 0
      /\ \A i \in 1..k-1+1 : SubSeq(s, 1, k)[i] = s[1+i-1]
  BY <1>2, SubSeqProperties
<1> QED
  BY <1>3

\* One sequence begins with another, shorter one if its first elements are the other's.
LEMMA PrefixByElements ==
    ASSUME NEW s \in Seq(STRING), NEW p \in Seq(STRING), Len(p) < Len(s)
    PROVE  HasPrefix(s, p) <=> \A i \in 1..Len(p) : s[i] = p[i]
<1>1. Len(p) \in Nat /\ Len(s) \in Nat
  BY LenProperties
<1>2. /\ SubSeq(s, 1, Len(p)) \in Seq(STRING)
      /\ Len(SubSeq(s, 1, Len(p))) = Len(p)
      /\ \A i \in 1..Len(p) : SubSeq(s, 1, Len(p))[i] = s[i]
  BY <1>1, Beginning
<1>3. ASSUME \A i \in 1..Len(p) : s[i] = p[i]
      PROVE  SubSeq(s, 1, Len(p)) = p
  BY <1>2, <1>3, SeqEqual
<1> QED
  BY <1>2, <1>3 DEF HasPrefix

\* Of two ids of different lengths that begin a file name, one begins with the other.
LEMMA OnePrefixIsLonger ==
    ASSUME NEW p \in Seq(STRING), NEW n \in Seq(STRING),
           NEW q \in Seq(STRING), NEW m \in Seq(STRING),
           p \o n = q \o m, Len(p) < Len(q)
    PROVE  HasPrefix(q, p)
<1>1. /\ Len(p) \in Nat /\ Len(q) \in Nat /\ Len(n) \in Nat /\ Len(m) \in Nat
  BY LenProperties
<1>2. \A i \in 1..Len(p) : (p \o n)[i] = p[i]
  BY <1>1, ConcatProperties
<1>3. \A i \in 1..Len(p) : (q \o m)[i] = q[i]
  BY <1>1, ConcatProperties
<1>4. \A i \in 1..Len(p) : q[i] = p[i]
  BY <1>2, <1>3
<1> QED
  BY <1>4, PrefixByElements

\* Ids of the same length that begin the same file name are the same, and so are the names.
LEMMA SameLengthSameParts ==
    ASSUME NEW p \in Seq(STRING), NEW n \in Seq(STRING),
           NEW q \in Seq(STRING), NEW m \in Seq(STRING),
           p \o n = q \o m, Len(p) = Len(q)
    PROVE  p = q /\ n = m
<1>1. /\ Len(p) \in Nat /\ Len(q) \in Nat /\ Len(n) \in Nat /\ Len(m) \in Nat
  BY LenProperties
<1>2. Len(p \o n) = Len(p) + Len(n) /\ Len(q \o m) = Len(q) + Len(m)
  BY ConcatProperties
<1>3. Len(n) = Len(m)
  BY <1>1, <1>2
<1>4. \A i \in 1..Len(p) + Len(n) :
         (p \o n)[i] = IF i <= Len(p) THEN p[i] ELSE n[i - Len(p)]
  BY ConcatProperties
<1>5. \A i \in 1..Len(q) + Len(m) :
         (q \o m)[i] = IF i <= Len(q) THEN q[i] ELSE m[i - Len(q)]
  BY ConcatProperties
<1>6. \A i \in 1..Len(p) : p[i] = q[i]
  BY <1>1, <1>3, <1>4, <1>5
<1>7. \A i \in 1..Len(n) : n[i] = m[i]
  <2> TAKE i \in 1..Len(n)
  <2>1. i + Len(p) \in 1..Len(p) + Len(n) /\ ~(i + Len(p) <= Len(p))
    BY <1>1
  <2>2. (p \o n)[i + Len(p)] = n[i]
    BY <2>1, <1>1, <1>4
  <2>3. (q \o m)[i + Len(p)] = m[i]
    BY <2>1, <1>1, <1>3, <1>5
  <2> QED
    BY <2>2, <2>3
<1> QED
  BY <1>3, <1>6, <1>7, SeqEqual

\* Applications of one project, or of projects whose ids are apart, have different files.
LEMMA FilesDiffer ==
    ASSUME NEW a \in Apps, NEW b \in Apps,
           a[1] = b[1] \/ Apart(a[1], b[1]),
           fluxChildFileName(a) = fluxChildFileName(b)
    PROVE  a = b
<1> DEFINE p == a[1]
           n == a[2]
           q == b[1]
           m == b[2]
<1>1. p \o n = q \o m
  BY DEF fluxChildFileName
<1>2. /\ p \in Seq(STRING) /\ n \in Seq(STRING) /\ a = <<p, n>>
      /\ q \in Seq(STRING) /\ m \in Seq(STRING) /\ b = <<q, m>>
  BY AppParts
<1>3. p = q \/ (~HasPrefix(p, q) /\ ~HasPrefix(q, p))
  BY DEF Apart
<1> HIDE DEF p, n, q, m
<1>4. Len(p) \in Nat /\ Len(q) \in Nat
  BY <1>2, LenProperties
<1>5. Len(p) < Len(q) => HasPrefix(q, p)
  BY <1>1, <1>2, OnePrefixIsLonger
<1>6. Len(q) < Len(p) => HasPrefix(p, q)
  BY <1>1, <1>2, OnePrefixIsLonger
<1>7. Len(p) = Len(q)
  BY <1>3, <1>4, <1>5, <1>6
<1>8. p = q /\ n = m
  BY <1>1, <1>2, <1>7, SameLengthSameParts
<1> QED
  BY <1>2, <1>8

\* The files that begin with a project id are, among the applications whose projects'
\* ids are apart from it, those of the project's own.
LEMMA PrefixIsProject ==
    ASSUME NEW a \in Apps, NEW p \in Projects, a[1] = p \/ Apart(a[1], p)
    PROVE  HasPrefix(fluxChildFileName(a), p) <=> a[1] = p
<1> DEFINE q == a[1]
           n == a[2]
           f == q \o n
<1>1. /\ q \in Seq(STRING) /\ n \in Seq(STRING) /\ n # <<>> /\ p \in Seq(STRING)
  BY AppParts, WiringAssumption
<1>2. q = p \/ (~HasPrefix(q, p) /\ ~HasPrefix(p, q))
  BY DEF Apart
<1> HIDE DEF q, n
<1>3. /\ Len(q) \in Nat /\ Len(n) \in Nat /\ Len(p) \in Nat /\ Len(n) # 0
  BY <1>1, LenProperties, EmptySeq
<1>4. /\ f \in Seq(STRING) /\ Len(f) = Len(q) + Len(n)
      /\ \A i \in 1..Len(q) : f[i] = q[i]
  BY <1>1, <1>3, ConcatProperties
<1>5. Len(q) < Len(f)
  BY <1>3, <1>4
<1> HIDE DEF f
<1>6. HasPrefix(f, q)
  BY <1>1, <1>4, <1>5, PrefixByElements
<1>7. ASSUME HasPrefix(f, p), q # p
      PROVE  FALSE
  <2>1. Len(p) < Len(f)
    BY <1>7 DEF HasPrefix
  <2>2. \A i \in 1..Len(p) : f[i] = p[i]
    BY <1>1, <1>4, <1>7, <2>1, PrefixByElements
  <2>3. ~(Len(p) = Len(q))
    <3> SUFFICES ASSUME Len(p) = Len(q) PROVE FALSE
      OBVIOUS
    <3>1. \A i \in 1..Len(p) : p[i] = q[i]
      BY <1>4, <2>2
    <3> QED
      BY <1>1, <1>7, <3>1, SeqEqual
  <2>4. ~(Len(p) < Len(q))
    <3> SUFFICES ASSUME Len(p) < Len(q) PROVE FALSE
      OBVIOUS
    <3>1. \A i \in 1..Len(p) : q[i] = p[i]
      BY <1>3, <1>4, <2>2
    <3> QED
      BY <1>1, <1>2, <1>7, <3>1, PrefixByElements
  <2>5. ~(Len(q) < Len(p))
    <3> SUFFICES ASSUME Len(q) < Len(p) PROVE FALSE
      OBVIOUS
    <3>1. \A i \in 1..Len(q) : p[i] = q[i]
      BY <1>3, <1>4, <2>2
    <3> QED
      BY <1>1, <1>2, <1>7, <3>1, PrefixByElements
  <2> QED
    BY <1>3, <2>3, <2>4, <2>5
<1> QED
  BY <1>6, <1>7 DEF f, q, n, fluxChildFileName

-----------------------------------------------------------------------------
(* Type correctness, and the roots. *)

\* A list of environments places every environment on one of its clusters.
LEMMA Places ==
    ASSUME NEW l \in EnvLists
    PROVE  /\ clusterIDs(l) \subseteq Clusters /\ Ids(l) \subseteq Envs
           /\ \A e : clusterIDForEnvironment(l, e) \in clusterIDs(l)
<1>1. l \in Seq([id : Envs, cluster : Clusters]) /\ l # <<>>
  BY WiringAssumption DEF normalizeCreateEnvironments
<1>2. /\ Len(l) \in Nat /\ Len(l) # 0 /\ DOMAIN l = 1..Len(l)
      /\ \A i \in 1..Len(l) : l[i] \in [id : Envs, cluster : Clusters]
  BY <1>1, LenProperties, EmptySeq, ElementOfSeq
<1>3. clusterIDs(l) \subseteq Clusters /\ Ids(l) \subseteq Envs
  BY <1>2 DEF clusterIDs, Ids
<1>4. ASSUME NEW e
      PROVE  clusterIDForEnvironment(l, e) \in clusterIDs(l)
  <2>1. CASE e \in Ids(l)
    <3> DEFINE i == CHOOSE j \in DOMAIN l : l[j].id = e
    <3>1. i \in DOMAIN l
      BY <2>1 DEF Ids
    <3> HIDE DEF i
    <3>2. l[i].cluster \in clusterIDs(l)
      BY <3>1 DEF clusterIDs
    <3> QED
      BY <2>1, <3>2 DEF clusterIDForEnvironment, i
  <2>2. CASE e \notin Ids(l)
    <3>1. 1 \in DOMAIN l
      BY <1>2
    <3>2. l[1].cluster \in clusterIDs(l)
      BY <3>1 DEF clusterIDs
    <3> QED
      BY <2>2, <3>2 DEF clusterIDForEnvironment
  <2> QED
    BY <2>1, <2>2
<1> QED
  BY <1>3, <1>4

\* The step writes children and roots: new children only on clusters that it touches.
Rewires(new, touched) ==
    /\ new \in [Clusters -> [Files -> Owners]]
    /\ touched \in SUBSET Clusters
    /\ \A c \in Clusters \ touched : new[c] = child[c]
    /\ RewriteClusterRoot(new, touched)

\* Such a step keeps types, and roots that list the children.
LEMMA RewiresSafely ==
    ASSUME TypeOK, NEW new, NEW touched, Rewires(new, touched)
    PROVE  /\ child' \in [Clusters -> [Files -> Owners]]
           /\ root' \in [Clusters -> SUBSET Files]
           /\ scaffolded' \in SUBSET Clusters
           /\ scaffolded \subseteq scaffolded' /\ touched \subseteq scaffolded'
           /\ RootsListChildren =>
                 /\ \A c \in Clusters : root'[c] = Listed(child'[c])
                 /\ \A c \in Clusters : root'[c] # {} => c \in scaffolded'
<1>1. /\ child' = new
      /\ root' = [c \in Clusters |-> IF c \in touched THEN Listed(new[c]) ELSE root[c]]
      /\ scaffolded' = scaffolded \cup touched
  BY DEF Rewires, RewriteClusterRoot
<1>2. child' \in [Clusters -> [Files -> Owners]]
  BY <1>1 DEF Rewires
<1>3. \A c \in Clusters : Listed(new[c]) \in SUBSET Files
  BY DEF Listed
<1>4. root' \in [Clusters -> SUBSET Files]
  BY <1>1, <1>3 DEF TypeOK
<1>5. scaffolded' \in SUBSET Clusters
  BY <1>1 DEF TypeOK, Rewires
<1>6. ASSUME RootsListChildren, NEW c \in Clusters
      PROVE  root'[c] = Listed(child'[c]) /\ (root'[c] # {} => c \in scaffolded')
  <2>1. CASE c \in touched
    BY <1>1, <2>1
  <2>2. CASE c \notin touched
    <3>1. new[c] = child[c] /\ root'[c] = root[c]
      BY <1>1, <2>2 DEF Rewires
    <3> QED
      BY <1>1, <1>6, <3>1 DEF RootsListChildren
  <2> QED
    BY <2>1, <2>2
<1> QED
  BY <1>1, <1>2, <1>4, <1>5, <1>6

\* What RemoveChildren leaves of the children.
Without(Gone) ==
    [c \in Clusters |-> [f \in Files |-> IF <<c, f>> \in Gone THEN NoApp ELSE child[c][f]]]

\* Removing children rewires the clusters that lose one.
LEMMA RemovingRewires ==
    ASSUME TypeOK, NEW Gone,
           RewriteClusterRoot(Without(Gone), {c \in Clusters : Without(Gone)[c] # child[c]})
    PROVE  Rewires(Without(Gone), {c \in Clusters : Without(Gone)[c] # child[c]})
<1>1. Without(Gone) \in [Clusters -> [Files -> Owners]]
  BY DEF Without, TypeOK, Owners
<1> QED
  BY <1>1 DEF Rewires

PrefixPaths(p) == {x \in Clusters \X Files : HasPrefix(x[2], p)}
FilePaths(a) == {x \in Clusters \X Files : x[2] = fluxChildFileName(a)}
OrphanPaths == {x \in Clusters \X Files : Orphan(x[1], x[2])}
Losing(Gone) == {c \in Clusters : Without(Gone)[c] # child[c]}

\* The three removals are of that form.
LEMMA DeleteProjectRewires ==
    ASSUME TypeOK, NEW p \in Projects, DeleteProject(p)
    PROVE  Rewires(Without(PrefixPaths(p)), Losing(PrefixPaths(p)))
<1>1. Without(PrefixPaths(p)) =
         [c \in Clusters |-> [f \in Files |-> IF HasPrefix(f, p) THEN NoApp ELSE child[c][f]]]
  BY DEF Without, PrefixPaths
<1>2. RewriteClusterRoot(Without(PrefixPaths(p)), Losing(PrefixPaths(p)))
  BY <1>1 DEF DeleteProject, RemoveChildren, Losing
<1> QED
  BY <1>2, RemovingRewires DEF Losing

LEMMA RemoveFluxChildrenRewires ==
    ASSUME TypeOK, NEW a \in Apps, removeFluxChildren(a)
    PROVE  Rewires(Without(FilePaths(a)), Losing(FilePaths(a)))
<1>1. Without(FilePaths(a)) =
         [c \in Clusters |-> [f \in Files |->
            IF f = fluxChildFileName(a) THEN NoApp ELSE child[c][f]]]
  BY DEF Without, FilePaths
<1>2. RewriteClusterRoot(Without(FilePaths(a)), Losing(FilePaths(a)))
  BY <1>1 DEF removeFluxChildren, RemoveChildren, Losing
<1> QED
  BY <1>2, RemovingRewires DEF Losing

LEMMA CleanupRewires ==
    ASSUME TypeOK, CleanupOrphanFluxManifests
    PROVE  Rewires(Without(OrphanPaths), Losing(OrphanPaths))
<1>1. Without(OrphanPaths) =
         [c \in Clusters |-> [f \in Files |-> IF Orphan(c, f) THEN NoApp ELSE child[c][f]]]
  BY DEF Without, OrphanPaths
<1>2. RewriteClusterRoot(Without(OrphanPaths), Losing(OrphanPaths))
  BY <1>1 DEF CleanupOrphanFluxManifests, RemoveChildren, Losing
<1> QED
  BY <1>2, RemovingRewires DEF Losing

\* What syncFluxWiring leaves of the children.
Here(k, e) == clusterIDForEnvironment(k.environments, e)
Synced(k, e, previous) ==
    [c \in Clusters |-> [child[c] EXCEPT ![fluxChildFileName(k.app)] =
        IF c = Here(k, e) THEN k.app ELSE IF c = Here(k, previous) THEN NoApp ELSE @]]

\* Writing an application rewires the clusters of its call's environments.
LEMMA SyncRewires ==
    ASSUME TypeOK, NEW k \in calls, NEW e, NEW previous, syncFluxWiring(k, e, previous)
    PROVE  Rewires(Synced(k, e, previous),
                   clusterIDs(k.environments) \cup {Here(k, e), Here(k, previous)})
<1> DEFINE new == Synced(k, e, previous)
           touched == clusterIDs(k.environments) \cup {Here(k, e), Here(k, previous)}
<1>1. k \in Calls
  BY DEF TypeOK
<1>2. k.environments \in EnvLists /\ k.app \in Apps
  BY <1>1 DEF Calls
<1>3. /\ clusterIDs(k.environments) \subseteq Clusters
      /\ Here(k, e) \in Clusters /\ Here(k, previous) \in Clusters
  BY <1>2, Places DEF Here
<1>4. \A c \in Clusters : child[c] \in [Files -> Owners]
  BY DEF TypeOK
<1>5. new \in [Clusters -> [Files -> Owners]]
  BY <1>2, <1>4 DEF Synced, Owners
<1>6. \A c \in Clusters \ touched : new[c] = child[c]
  BY <1>4 DEF Synced
<1>7. RewriteClusterRoot(new, touched)
  BY DEF syncFluxWiring, Synced, Here
<1> QED
  BY <1>3, <1>5, <1>6, <1>7 DEF Rewires

\* A scaffold rewires the clusters it is for.
LEMMA EnsureRewires ==
    ASSUME TypeOK, NEW touched \in SUBSET Clusters, EnsureCluster(touched)
    PROVE  Rewires(child, touched)
  BY DEF EnsureCluster, Rewires, TypeOK

\* What the commit of a call leaves of the applications and calls has its type.
LEMMA StoreTyped ==
    ASSUME TypeOK, NEW k \in calls, NEW e \in Envs, NEW previous, Store(k, e, previous)
    PROVE  TypeOK'
<1>1. k \in Calls /\ k.app \in Apps
  BY DEF TypeOK, Calls
<1>2. Rewires(Synced(k, e, previous),
              clusterIDs(k.environments) \cup {Here(k, e), Here(k, previous)})
  BY SyncRewires DEF Store
<1>3. /\ child' \in [Clusters -> [Files -> Owners]]
      /\ root' \in [Clusters -> SUBSET Files]
      /\ scaffolded' \in SUBSET Clusters
  BY <1>2, RewiresSafely
<1>4. [status |-> "live", env |-> e] \in Records
  BY DEF Records
<1>5. apps' \in [Apps -> {NoApp} \cup Records]
  BY <1>1, <1>4 DEF Store, TypeOK
<1>6. /\ calls' \in SUBSET Calls
      /\ \A j \in calls' : j.op \in {"create", "patch"} => j.env \in Envs
  BY DEF Store, TypeOK
<1> QED
  BY <1>3, <1>5, <1>6 DEF Store, TypeOK

LEMMA CommitTyped ==
    ASSUME TypeOK, NEW k \in calls, Commit(k)
    PROVE  TypeOK'
<1>1. k \in Calls /\ k.app \in Apps /\ (k.op \in {"create", "patch"} => k.env \in Envs)
  BY DEF TypeOK, Calls
<1>2. Live(k.app) => apps[k.app] \in Records /\ apps[k.app].env \in Envs
  BY <1>1 DEF Live, TypeOK, Records
<1>3. CASE CreateApplication(k)
  BY <1>1, <1>3, StoreTyped DEF CreateApplication
<1>4. CASE PatchApplication(k)
  BY <1>1, <1>4, StoreTyped DEF PatchApplication
<1>5. CASE UpdateApplicationImage(k)
  BY <1>1, <1>2, <1>5, StoreTyped DEF UpdateApplicationImage
<1>6. ASSUME ArchiveApplication(k) \/ DeleteApplication(k)
      PROVE  TypeOK'
  <2>1. Rewires(Without(FilePaths(k.app)), Losing(FilePaths(k.app)))
    BY <1>1, <1>6, RemoveFluxChildrenRewires DEF ArchiveApplication, DeleteApplication
  <2>2. /\ child' \in [Clusters -> [Files -> Owners]]
        /\ root' \in [Clusters -> SUBSET Files]
        /\ scaffolded' \in SUBSET Clusters
    BY <2>1, RewiresSafely
  <2>3. CASE ArchiveApplication(k)
    <3>1. [apps[k.app] EXCEPT !.status = "archived"] \in Records
      BY <1>2, <2>3 DEF ArchiveApplication, Records
    <3>2. apps' \in [Apps -> {NoApp} \cup Records]
      BY <1>1, <2>3, <3>1 DEF ArchiveApplication, TypeOK
    <3> QED
      BY <2>2, <2>3, <3>2 DEF ArchiveApplication, TypeOK
  <2>4. CASE DeleteApplication(k)
    <3>1. apps' \in [Apps -> {NoApp} \cup Records]
      BY <1>1, <2>4 DEF DeleteApplication, TypeOK
    <3> QED
      BY <2>2, <2>4, <3>1 DEF DeleteApplication, TypeOK
  <2> QED
    BY <1>6, <2>3, <2>4
<1>7. CASE Fail(k)
  BY <1>7 DEF Fail, TypeOK, fluxVars
<1> QED
  BY <1>3, <1>4, <1>5, <1>6, <1>7 DEF Commit

\* A call begins with the environments of a catalogued project.
LEMMA BeginTyped ==
    ASSUME TypeOK, NEW o \in {"create", "patch", "rewrite", "archive", "delete"},
           NEW a \in Apps, NEW e \in Envs \cup {NoEnv}, o \in {"create", "patch"} => e \in Envs,
           Begin(o, a, e)
    PROVE  TypeOK'
<1> DEFINE k == [op |-> o, app |-> a, env |-> e, environments |-> catalog[a[1]].environments]
<1>1. a[1] \in Projects
  BY AppParts
<1>2. catalog[a[1]] \in [environments : EnvLists, allowed : SUBSET Envs]
  BY <1>1 DEF Begin, Catalogued, TypeOK
<1>3. catalog[a[1]].environments \in EnvLists
  BY <1>2
<1>4. k \in Calls
  BY <1>3 DEF Calls
<1>5. k.op = o /\ k.env = e
  OBVIOUS
<1>6. calls' = calls \cup {k}
  BY DEF Begin
<1> HIDE DEF k
<1>7. /\ calls' \in SUBSET Calls
      /\ \A j \in calls' : j.op \in {"create", "patch"} => j.env \in Envs
  BY <1>4, <1>5, <1>6 DEF TypeOK
<1> QED
  BY <1>7 DEF Begin, TypeOK, fluxVars

\* A created project, and a project with a new policy, has the type of one.
LEMMA ProjectTyped ==
    ASSUME NEW l \in EnvLists, NEW q \in SUBSET Envs
    PROVE  catalogProjectFromProject(l, q) \in [environments : EnvLists, allowed : SUBSET Envs]
<1>1. applyPolicyDefaults(q, l) \in SUBSET Envs
  BY Places DEF applyPolicyDefaults
<1> QED
  BY <1>1 DEF catalogProjectFromProject

LEMMA CatalogTyped ==
    ASSUME TypeOK, NEW p \in Projects, NEW l \in EnvLists, NEW q \in Policies,
           CreateProject(p, l, q) \/ DeleteProject(p) \/ UpdatePolicies(p, q)
    PROVE  TypeOK'
<1> DEFINE T == [environments : EnvLists, allowed : SUBSET Envs]
<1>1. q \in SUBSET Envs
  BY WiringAssumption
<1>2. CASE CreateProject(p, l, q)
  <2>1. catalog' \in [Projects -> {NoProject} \cup T]
    <3>1. catalogProjectFromProject(l, q) \in T
      BY <1>1, ProjectTyped
    <3>2. catalog \in [Projects -> {NoProject} \cup T]
      BY DEF TypeOK
    <3> HIDE DEF T
    <3> QED
      BY <1>2, <3>1, <3>2 DEF CreateProject, ensureClusterScaffolds
  <2>2. clusterIDs(l) \in SUBSET Clusters
    BY Places
  <2>3. Rewires(child, clusterIDs(l))
    BY <1>2, <2>2, EnsureRewires DEF CreateProject, ensureClusterScaffolds
  <2> QED
    BY <1>2, <2>1, <2>3, RewiresSafely DEF CreateProject, ensureClusterScaffolds, TypeOK
<1>3. CASE DeleteProject(p)
  <2>1. Rewires(Without(PrefixPaths(p)), Losing(PrefixPaths(p)))
    BY <1>3, DeleteProjectRewires
  <2>2. apps' \in [Apps -> {NoApp} \cup Records]
    BY <1>3 DEF DeleteProject, TypeOK
  <2>3. catalog' \in [Projects -> {NoProject} \cup T]
    BY <1>3 DEF DeleteProject, TypeOK
  <2> QED
    BY <1>3, <2>1, <2>2, <2>3, RewiresSafely DEF DeleteProject, TypeOK
<1>4. CASE UpdatePolicies(p, q)
  <2>1. catalog[p] \in T
    BY <1>4 DEF UpdatePolicies, Catalogued, TypeOK
  <2>2. catalog[p].environments \in EnvLists
    BY <2>1
  <2>3. applyPolicyDefaults(q, catalog[p].environments) \in SUBSET Envs
    BY <1>1, <2>2, Places DEF applyPolicyDefaults
  <2>4. [catalog[p] EXCEPT !.allowed = applyPolicyDefaults(q, catalog[p].environments)] \in T
    BY <2>1, <2>3
  <2>5. catalog' \in [Projects -> {NoProject} \cup T]
    <3>1. catalog \in [Projects -> {NoProject} \cup T]
      BY DEF TypeOK
    <3> HIDE DEF T
    <3> QED
      BY <1>4, <2>4, <3>1 DEF UpdatePolicies
  <2> QED
    BY <1>4, <2>5 DEF UpdatePolicies, TypeOK, fluxVars
<1> QED
  BY <1>2, <1>3, <1>4

LEMMA TypeStep == TypeOK /\ [Next]_vars => TypeOK'
<1> SUFFICES ASSUME TypeOK, [Next]_vars PROVE TypeOK'
  OBVIOUS
<1>1. CASE \E c \in Clusters : CreateCluster(c)
  <2> PICK c \in Clusters : CreateCluster(c)
    BY <1>1
  <2>1. Rewires(child, {c})
    BY EnsureRewires DEF CreateCluster
  <2> QED
    BY <2>1, RewiresSafely DEF CreateCluster, TypeOK
<1>2. ASSUME NEW p \in Projects, NEW l \in EnvLists, NEW q \in Policies, CreateProject(p, l, q)
      PROVE  TypeOK'
  BY <1>2, CatalogTyped
<1>3. ASSUME NEW p \in Projects, DeleteProject(p)
      PROVE  TypeOK'
  <2>1. Rewires(Without(PrefixPaths(p)), Losing(PrefixPaths(p)))
    BY <1>3, DeleteProjectRewires
  <2>2. apps' \in [Apps -> {NoApp} \cup Records]
    BY <1>3 DEF DeleteProject, TypeOK
  <2>3. catalog' \in [Projects -> {NoProject} \cup [environments : EnvLists, allowed : SUBSET Envs]]
    BY <1>3 DEF DeleteProject, TypeOK
  <2> QED
    BY <1>3, <2>1, <2>2, <2>3, RewiresSafely DEF DeleteProject, TypeOK
<1>4. ASSUME NEW p \in Projects, NEW q \in Policies, UpdatePolicies(p, q)
      PROVE  TypeOK'
  <2>1. catalog[p] \in [environments : EnvLists, allowed : SUBSET Envs]
    BY <1>4 DEF UpdatePolicies, Catalogued, TypeOK
  <2>2. catalog[p].environments \in EnvLists
    BY <2>1
  <2> QED
    BY <1>4, <2>2, CatalogTyped
<1>5. ASSUME NEW a \in Apps, NEW e \in Envs, BeginCreate(a, e) \/ BeginPatch(a, e)
      PROVE  TypeOK'
  BY <1>5, BeginTyped DEF BeginCreate, BeginPatch
<1>6. ASSUME NEW a \in Apps, BeginRewrite(a) \/ BeginArchive(a) \/ BeginDelete(a)
      PROVE  TypeOK'
  BY <1>6, BeginTyped DEF BeginRewrite, BeginArchive, BeginDelete
<1>7. ASSUME NEW k \in calls, Commit(k)
      PROVE  TypeOK'
  BY <1>7, CommitTyped
<1>8. CASE CleanupOrphanFluxManifests
  <2>1. Rewires(Without(OrphanPaths), Losing(OrphanPaths))
    BY <1>8, CleanupRewires
  <2> QED
    BY <1>8, <2>1, RewiresSafely DEF CleanupOrphanFluxManifests, TypeOK
<1>9. CASE UNCHANGED vars
  BY <1>9 DEF vars, TypeOK
<1> QED
  BY <1>1, <1>2, <1>3, <1>4, <1>5, <1>6, <1>7, <1>8, <1>9 DEF Next, ChangeCatalog, Create

LEMMA InitTyped == Init => TypeOK
<1> SUFFICES ASSUME Init PROVE TypeOK
  OBVIOUS
<1>1. child \in [Clusters -> [Files -> Owners]]
  <2>1. CASE Admits("leftover")
    BY <2>1 DEF Init, Leftovers, Owners
  <2>2. CASE ~Admits("leftover")
    BY <2>2 DEF Init, Owners
  <2> QED
    BY <2>1, <2>2
<1>2. root \in [Clusters -> SUBSET Files]
  BY DEF Init, Listed
<1>3. clusters \in SUBSET Clusters /\ admitted \subseteq Disturbances
  BY WiringAssumption DEF Init
<1> QED
  BY <1>1, <1>2, <1>3 DEF Init, TypeOK

\* The variables keep their types.
THEOREM TypeCorrect == Spec => []TypeOK
  BY InitTyped, TypeStep, PTL DEF Spec

\* The environments of a catalogued project stay, or are new and have their clusters
\* among the touched ones.
EnvironmentsKept(touched) ==
    \A p \in Projects : Catalogued(p)' =>
        \/ Catalogued(p) /\ catalog'[p].environments = catalog[p].environments
        \/ clusterIDs(catalog'[p].environments) \subseteq touched

LEMMA RewiringKeepsRoots ==
    ASSUME TypeOK, RootsListChildren, NEW new, NEW touched,
           Rewires(new, touched), EnvironmentsKept(touched)
    PROVE  RootsListChildren'
<1>1. /\ scaffolded \subseteq scaffolded' /\ touched \subseteq scaffolded'
      /\ \A c \in Clusters : root'[c] = Listed(child'[c])
      /\ \A c \in Clusters : root'[c] # {} => c \in scaffolded'
  BY RewiresSafely
<1>2. ASSUME NEW p \in Projects, Catalogued(p)'
      PROVE  clusterIDs(catalog'[p].environments) \subseteq scaffolded'
  <2>1. CASE Catalogued(p) /\ catalog'[p].environments = catalog[p].environments
    <3>1. clusterIDs(catalog[p].environments) \subseteq scaffolded
      BY <2>1 DEF RootsListChildren
    <3> QED
      BY <1>1, <2>1, <3>1
  <2>2. CASE clusterIDs(catalog'[p].environments) \subseteq touched
    BY <1>1, <2>2
  <2> QED
    BY <1>2, <2>1, <2>2 DEF EnvironmentsKept
<1> QED
  BY <1>1, <1>2 DEF RootsListChildren, Listed

LEMMA RootsUntouched ==
    ASSUME RootsListChildren, UNCHANGED fluxVars, EnvironmentsKept({})
    PROVE  RootsListChildren'
<1>1. ASSUME NEW p \in Projects, Catalogued(p)'
      PROVE  clusterIDs(catalog'[p].environments) \subseteq scaffolded
  BY <1>1 DEF EnvironmentsKept, RootsListChildren
<1> QED
  BY <1>1 DEF RootsListChildren, fluxVars, Listed

\* A step that leaves the catalog alone keeps the environments.
LEMMA SameCatalog ==
    ASSUME UNCHANGED catalog, NEW touched
    PROVE  EnvironmentsKept(touched)
  BY DEF EnvironmentsKept, Catalogued

LEMMA CommitKeepsRoots ==
    ASSUME TypeOK, RootsListChildren, NEW k \in calls, Commit(k)
    PROVE  RootsListChildren'
<1>1. k.app \in Apps
  BY DEF TypeOK, Calls
<1>2. ASSUME NEW e, NEW previous, Store(k, e, previous)
      PROVE  RootsListChildren'
  <2>1. UNCHANGED catalog /\ syncFluxWiring(k, e, previous)
    BY <1>2 DEF Store
  <2> QED
    BY <2>1, SyncRewires, SameCatalog, RewiringKeepsRoots
<1>3. ASSUME removeFluxChildren(k.app), UNCHANGED catalog
      PROVE  RootsListChildren'
  BY <1>1, <1>3, RemoveFluxChildrenRewires, SameCatalog, RewiringKeepsRoots
<1>4. ASSUME UNCHANGED fluxVars, UNCHANGED catalog
      PROVE  RootsListChildren'
  BY <1>4, SameCatalog, RootsUntouched
<1>5. CASE CreateApplication(k)
  BY <1>2, <1>5 DEF CreateApplication
<1>6. CASE PatchApplication(k)
  BY <1>2, <1>6 DEF PatchApplication
<1>7. CASE UpdateApplicationImage(k)
  BY <1>2, <1>7 DEF UpdateApplicationImage
<1>8. CASE ArchiveApplication(k)
  BY <1>3, <1>8 DEF ArchiveApplication
<1>9. CASE DeleteApplication(k)
  BY <1>3, <1>9 DEF DeleteApplication
<1>10. CASE Fail(k)
  BY <1>4, <1>10 DEF Fail
<1> QED
  BY <1>5, <1>6, <1>7, <1>8, <1>9, <1>10 DEF Commit

\* The environments of the other projects stay when one is created, deleted or updated.
LEMMA CatalogStepKeepsEnvironments ==
    ASSUME TypeOK, NEW p \in Projects, NEW l, NEW q,
           CreateProject(p, l, q) \/ DeleteProject(p) \/ UpdatePolicies(p, q)
    PROVE  /\ \A r \in Projects \ {p} : catalog'[r] = catalog[r]
           /\ CreateProject(p, l, q) => catalog'[p].environments = l
           /\ DeleteProject(p) => catalog'[p] = NoProject
           /\ UpdatePolicies(p, q) =>
                 Catalogued(p) /\ catalog'[p].environments = catalog[p].environments
<1> DEFINE T == [environments : EnvLists, allowed : SUBSET Envs]
<1>1. catalog \in [Projects -> {NoProject} \cup T]
  BY DEF TypeOK
<1>2. ASSUME UpdatePolicies(p, q)
      PROVE  catalog'[p].environments = catalog[p].environments
  <2>1. catalog[p] \in T
    BY <1>1, <1>2 DEF UpdatePolicies, Catalogued
  <2>2. catalog'[p] = [catalog[p] EXCEPT !.allowed =
                          applyPolicyDefaults(q, catalog[p].environments)]
    BY <1>1, <1>2 DEF UpdatePolicies
  <2> QED
    BY <2>1, <2>2
<1> HIDE DEF T
<1>3. CASE CreateProject(p, l, q)
  <2> DEFINE new == catalogProjectFromProject(l, q)
  <2>1. new.environments = l
    BY DEF catalogProjectFromProject
  <2> HIDE DEF new
  <2>2. catalog' = [catalog EXCEPT ![p] = new]
    BY <1>3 DEF CreateProject, ensureClusterScaffolds, new
  <2>3. ~Catalogued(p)
    BY <1>3 DEF CreateProject, ensureClusterScaffolds
  <2>4. ~DeleteProject(p) /\ ~UpdatePolicies(p, q)
    BY <2>3 DEF DeleteProject, Deletable, UpdatePolicies
  <2> QED
    BY <1>1, <2>1, <2>2, <2>4
<1>4. CASE DeleteProject(p)
  <2>1. catalog' = [catalog EXCEPT ![p] = NoProject] /\ Catalogued(p)
    BY <1>4 DEF DeleteProject, Deletable
  <2>2. ~CreateProject(p, l, q)
    BY <2>1 DEF CreateProject, ensureClusterScaffolds
  <2> QED
    BY <1>1, <1>2, <2>1, <2>2 DEF UpdatePolicies
<1>5. CASE UpdatePolicies(p, q)
  <2> DEFINE new == [catalog[p] EXCEPT !.allowed =
                        applyPolicyDefaults(q, catalog[p].environments)]
  <2>1. catalog' = [catalog EXCEPT ![p] = new] /\ Catalogued(p)
    BY <1>5 DEF UpdatePolicies
  <2> HIDE DEF new
  <2>2. \A r \in Projects \ {p} : catalog'[r] = catalog[r]
    BY <1>1, <2>1
  <2>3. ~CreateProject(p, l, q)
    BY <2>1 DEF CreateProject, ensureClusterScaffolds
  <2>4. DeleteProject(p) => catalog'[p] = NoProject
    BY <1>1 DEF DeleteProject
  <2> QED
    BY <1>2, <2>1, <2>2, <2>3, <2>4
<1> QED
  BY <1>3, <1>4, <1>5

LEMMA RootsStep == TypeOK /\ RootsListChildren /\ [Next]_vars => RootsListChildren'
<1> SUFFICES ASSUME TypeOK, RootsListChildren, [Next]_vars PROVE RootsListChildren'
  OBVIOUS
<1>1. ASSUME NEW c \in Clusters, CreateCluster(c)
      PROVE  RootsListChildren'
  <2>1. UNCHANGED catalog /\ EnsureCluster({c})
    BY <1>1 DEF CreateCluster
  <2> QED
    BY <2>1, EnsureRewires, SameCatalog, RewiringKeepsRoots
<1>2. ASSUME NEW p \in Projects, NEW l \in EnvLists, NEW q \in Policies, CreateProject(p, l, q)
      PROVE  RootsListChildren'
  <2>1. clusterIDs(l) \in SUBSET Clusters
    BY Places
  <2>2. Rewires(child, clusterIDs(l))
    BY <1>2, <2>1, EnsureRewires DEF CreateProject, ensureClusterScaffolds
  <2>3. /\ \A r \in Projects \ {p} : catalog'[r] = catalog[r]
        /\ catalog'[p].environments = l
    BY <1>2, CatalogStepKeepsEnvironments
  <2>4. EnvironmentsKept(clusterIDs(l))
    BY <2>3 DEF EnvironmentsKept, Catalogued
  <2> QED
    BY <2>2, <2>4, RewiringKeepsRoots
<1>3. ASSUME NEW p \in Projects, DeleteProject(p)
      PROVE  RootsListChildren'
  <2>1. Rewires(Without(PrefixPaths(p)), Losing(PrefixPaths(p)))
    BY <1>3, DeleteProjectRewires
  <2>2. /\ \A r \in Projects \ {p} : catalog'[r] = catalog[r]
        /\ catalog'[p] = NoProject
    BY <1>3, CatalogStepKeepsEnvironments
  <2>3. EnvironmentsKept(Losing(PrefixPaths(p)))
    BY <2>2 DEF EnvironmentsKept, Catalogued
  <2> QED
    BY <2>1, <2>3, RewiringKeepsRoots
<1>4. ASSUME NEW p \in Projects, NEW q \in Policies, UpdatePolicies(p, q)
      PROVE  RootsListChildren'
  <2>1. /\ \A r \in Projects \ {p} : catalog'[r] = catalog[r]
        /\ Catalogued(p) /\ catalog'[p].environments = catalog[p].environments
    BY <1>4, CatalogStepKeepsEnvironments
  <2>2. EnvironmentsKept({})
    BY <2>1 DEF EnvironmentsKept, Catalogued
  <2>3. UNCHANGED fluxVars
    BY <1>4 DEF UpdatePolicies
  <2> QED
    BY <2>2, <2>3, RootsUntouched
<1>5. ASSUME UNCHANGED fluxVars, UNCHANGED catalog
      PROVE  RootsListChildren'
  BY <1>5, SameCatalog, RootsUntouched
<1>6. ASSUME NEW a \in Apps, NEW e \in Envs, BeginCreate(a, e) \/ BeginPatch(a, e)
      PROVE  RootsListChildren'
  BY <1>5, <1>6 DEF BeginCreate, BeginPatch, Begin
<1>7. ASSUME NEW a \in Apps, BeginRewrite(a) \/ BeginArchive(a) \/ BeginDelete(a)
      PROVE  RootsListChildren'
  BY <1>5, <1>7 DEF BeginRewrite, BeginArchive, BeginDelete, Begin
<1>8. ASSUME NEW k \in calls, Commit(k)
      PROVE  RootsListChildren'
  BY <1>8, CommitKeepsRoots
<1>9. CASE CleanupOrphanFluxManifests
  <2>1. UNCHANGED catalog
    BY <1>9 DEF CleanupOrphanFluxManifests
  <2> QED
    BY <1>9, <2>1, CleanupRewires, SameCatalog, RewiringKeepsRoots
<1>10. CASE UNCHANGED vars
  BY <1>5, <1>10 DEF vars, fluxVars
<1> QED
  BY <1>1, <1>2, <1>3, <1>4, <1>6, <1>7, <1>8, <1>9, <1>10 DEF Next, ChangeCatalog, Create

LEMMA RootsInit == Init => RootsListChildren
  BY DEF Init, RootsListChildren, Catalogued

\* Every root Kustomization lists the children that are there.
THEOREM RootsCorrect == Spec => []RootsListChildren
<1>1. Init => TypeOK /\ RootsListChildren
  BY InitTyped, RootsInit
<1>2. TypeOK /\ RootsListChildren /\ [Next]_vars => (TypeOK /\ RootsListChildren)'
  BY TypeStep, RootsStep
<1> QED
  BY <1>1, <1>2, PTL DEF Spec

-----------------------------------------------------------------------------
(* The clusters run the live applications. *)

Runs(c, a) == child[c][fluxChildFileName(a)] = a
Wanted(c, a) == Live(a) /\ Catalogued(a[1]) /\ c = Place(a)

\* Every application runs where it is wanted, and every child is an application's.
Match == \A c \in Clusters, a \in Apps : Runs(c, a) <=> Wanted(c, a)
Owned == \A c \in Clusters, f \in Files :
            child[c][f] # NoApp => child[c][f] \in Apps /\ fluxChildFileName(child[c][f]) = f

\* No catalogued project's id begins like another's; an application's project is
\* catalogued; a call under way knows the environments of its project.
IdsApart == \A p, q \in Projects : Catalogued(p) /\ Catalogued(q) /\ p # q => Apart(p, q)
AppsCatalogued == \A a \in Apps : apps[a] # NoApp => Catalogued(a[1])
CallsCurrent ==
    \A k \in calls : /\ Catalogued(k.app[1])
                     /\ k.environments = catalog[k.app[1]].environments

\* The inductive invariant: without disturbances all of them hold.
Wired == IdsApart /\ AppsCatalogued /\ CallsCurrent /\ Match /\ Owned
WiringInv == admitted = {} => Wired

LEMMA WiredMatches == WiringInv => ChildrenMatchApplications
  BY DEF WiringInv, Wired, Match, Owned, Runs, Wanted, ChildrenMatchApplications

\* The applications of catalogued projects have different files.
LEMMA CataloguedFilesDiffer ==
    ASSUME IdsApart, NEW a \in Apps, NEW b \in Apps, Catalogued(a[1]), Catalogued(b[1]),
           fluxChildFileName(a) = fluxChildFileName(b)
    PROVE  a = b
<1>1. a[1] \in Projects /\ b[1] \in Projects
  BY AppParts
<1>2. a[1] = b[1] \/ Apart(a[1], b[1])
  BY <1>1 DEF IdsApart
<1> QED
  BY <1>2, FilesDiffer

\* Where an application is wanted depends on its metadata and its project's environments.
LEMMA WantedKept ==
    ASSUME NEW a \in Apps, apps'[a] = apps[a],
           \/ catalog'[a[1]] = catalog[a[1]]
           \/ /\ Catalogued(a[1]) /\ Catalogued(a[1])'
              /\ catalog'[a[1]].environments = catalog[a[1]].environments
    PROVE  \A c : Wanted(c, a)' <=> Wanted(c, a)
<1>1. Live(a)' <=> Live(a)
  BY DEF Live
<1>2. Catalogued(a[1])' <=> Catalogued(a[1])
  BY DEF Catalogued
<1>3. Place(a)' = Place(a)
  BY DEF Place
<1> QED
  BY <1>1, <1>2, <1>3 DEF Wanted

\* A removal that takes the children of the applications that are no longer wanted, and
\* of no other, keeps the match.
LEMMA RemovalMatches ==
    ASSUME TypeOK, Match, Owned, NEW Gone, child' = Without(Gone),
           \A a \in Apps :
              \/ /\ \A c \in Clusters : ~Wanted(c, a)'
                 /\ \A c \in Clusters : <<c, fluxChildFileName(a)>> \in Gone
              \/ /\ \A c \in Clusters : Wanted(c, a)' <=> Wanted(c, a)
                 /\ \A c \in Clusters : Wanted(c, a) => <<c, fluxChildFileName(a)>> \notin Gone
    PROVE  Match' /\ Owned'
<1>1. \A c \in Clusters, f \in Files :
         child'[c][f] = IF <<c, f>> \in Gone THEN NoApp ELSE child[c][f]
  BY DEF Without
<1>2. ASSUME NEW c \in Clusters, NEW a \in Apps
      PROVE  Runs(c, a)' <=> Wanted(c, a)'
  <2> DEFINE f == fluxChildFileName(a)
  <2>1. f \in Files /\ a # NoApp
    BY FileOfApp, WiringAssumption
  <2>2. Runs(c, a) <=> Wanted(c, a)
    BY DEF Match
  <2>3. Runs(c, a)' <=> <<c, f>> \notin Gone /\ Runs(c, a)
    BY <1>1, <2>1 DEF Runs
  <2> HIDE DEF f
  <2>4. CASE ~Wanted(c, a)' /\ <<c, f>> \in Gone
    BY <2>3, <2>4
  <2>5. CASE (Wanted(c, a)' <=> Wanted(c, a)) /\ (Wanted(c, a) => <<c, f>> \notin Gone)
    BY <2>2, <2>3, <2>5
  <2> QED
    BY <2>4, <2>5 DEF f
<1>3. Owned'
  BY <1>1 DEF Owned
<1> QED
  BY <1>2, <1>3 DEF Match

\* A step that leaves the children and keeps what is wanted keeps the match.
LEMMA UnchangedMatches ==
    ASSUME Match, Owned, UNCHANGED child,
           \A a \in Apps, c \in Clusters : Wanted(c, a)' <=> Wanted(c, a)
    PROVE  Match' /\ Owned'
<1>1. Match'
  BY DEF Match, Runs
<1> QED
  BY <1>1 DEF Owned

-----------------------------------------------------------------------------
(* The catalog's steps, without disturbances. *)

LEMMA CreateProjectWired ==
    ASSUME TypeOK, Wired, admitted = {}, NEW p \in Projects, NEW l \in EnvLists,
           NEW q \in Policies, CreateProject(p, l, q)
    PROVE  Wired'
<1>1. /\ \A r \in Projects \ {p} : catalog'[r] = catalog[r]
      /\ ~Catalogued(p)
      /\ \A r \in Projects : Catalogued(r) => Apart(p, r)
      /\ UNCHANGED <<apps, calls, child>>
  BY CatalogStepKeepsEnvironments
  DEF CreateProject, ensureClusterScaffolds, Admits, EnsureCluster, RewriteClusterRoot
<1>2. IdsApart'
  <2> SUFFICES ASSUME NEW r \in Projects, NEW s \in Projects,
                      Catalogued(r)', Catalogued(s)', r # s
               PROVE  Apart(r, s)
    BY DEF IdsApart, Apart, HasPrefix
  <2>1. r # p => Catalogued(r)
    BY <1>1 DEF Catalogued
  <2>2. s # p => Catalogued(s)
    BY <1>1 DEF Catalogued
  <2>3. Apart(s, r) => Apart(r, s)
    BY DEF Apart
  <2> QED
    BY <1>1, <2>1, <2>2, <2>3 DEF Wired, IdsApart
<1>3. AppsCatalogued'
  <2> SUFFICES ASSUME NEW a \in Apps, apps'[a] # NoApp
               PROVE  Catalogued(a[1])'
    BY DEF AppsCatalogued
  <2>1. Catalogued(a[1]) /\ a[1] \in Projects
    BY <1>1, AppParts DEF Wired, AppsCatalogued
  <2> QED
    BY <1>1, <2>1 DEF Catalogued
<1>4. CallsCurrent'
  <2> SUFFICES ASSUME NEW k \in calls
               PROVE  /\ Catalogued(k.app[1])'
                      /\ k.environments = catalog'[k.app[1]].environments
    BY <1>1 DEF CallsCurrent
  <2>1. k.app \in Apps
    BY DEF TypeOK, Calls
  <2>2. /\ Catalogued(k.app[1]) /\ k.app[1] \in Projects
        /\ k.environments = catalog[k.app[1]].environments
    BY <2>1, AppParts DEF Wired, CallsCurrent
  <2>3. catalog'[k.app[1]] = catalog[k.app[1]]
    BY <1>1, <2>2
  <2> QED
    BY <2>2, <2>3 DEF Catalogued
<1>5. ASSUME NEW a \in Apps, NEW c \in Clusters
      PROVE  Wanted(c, a)' <=> Wanted(c, a)
  <2>1. a[1] \in Projects
    BY AppParts
  <2>2. CASE a[1] # p
    BY <1>1, <2>1, <2>2, WantedKept
  <2>3. CASE a[1] = p
    <3>1. apps[a] = NoApp /\ apps'[a] = NoApp
      BY <1>1, <2>3 DEF Wired, AppsCatalogued
    <3> QED
      BY <3>1 DEF Wanted, Live
  <2> QED
    BY <2>2, <2>3
<1>6. Match' /\ Owned'
  BY <1>1, <1>5, UnchangedMatches DEF Wired
<1> QED
  BY <1>2, <1>3, <1>4, <1>6 DEF Wired

LEMMA DeleteProjectWired ==
    ASSUME TypeOK, Wired, admitted = {}, NEW p \in Projects, DeleteProject(p)
    PROVE  Wired'
<1>1. /\ \A r \in Projects \ {p} : catalog'[r] = catalog[r]
      /\ catalog'[p] = NoProject
  BY CatalogStepKeepsEnvironments
<1>2. /\ Catalogued(p)
      /\ \A k \in calls : k.app[1] # p
      /\ \A a \in Apps : apps'[a] = IF a[1] = p THEN NoApp ELSE apps[a]
      /\ UNCHANGED calls
  BY DEF DeleteProject, Deletable, Admits
<1>3. child' = Without(PrefixPaths(p))
  BY DeleteProjectRewires DEF Rewires, RewriteClusterRoot
<1>4. \A r \in Projects : Catalogued(r)' => Catalogued(r) /\ r # p
  BY <1>1 DEF Catalogued
<1>5. IdsApart'
  BY <1>4 DEF IdsApart, Wired, Apart, HasPrefix
<1>6. AppsCatalogued'
  <2> SUFFICES ASSUME NEW a \in Apps, apps'[a] # NoApp
               PROVE  Catalogued(a[1])'
    BY DEF AppsCatalogued
  <2>1. Catalogued(a[1]) /\ a[1] \in Projects /\ a[1] # p
    BY <1>2, AppParts DEF Wired, AppsCatalogued
  <2> QED
    BY <1>1, <2>1 DEF Catalogued
<1>7. CallsCurrent'
  <2> SUFFICES ASSUME NEW k \in calls
               PROVE  /\ Catalogued(k.app[1])'
                      /\ k.environments = catalog'[k.app[1]].environments
    BY <1>2 DEF CallsCurrent
  <2>1. k.app \in Apps
    BY DEF TypeOK, Calls
  <2>2. /\ Catalogued(k.app[1]) /\ k.app[1] \in Projects
        /\ k.environments = catalog[k.app[1]].environments
    BY <2>1, AppParts DEF Wired, CallsCurrent
  <2>3. catalog'[k.app[1]] = catalog[k.app[1]]
    BY <1>1, <1>2, <2>2
  <2> QED
    BY <2>2, <2>3 DEF Catalogued
<1>8. ASSUME NEW a \in Apps
      PROVE  \/ /\ \A c \in Clusters : ~Wanted(c, a)'
                /\ \A c \in Clusters : <<c, fluxChildFileName(a)>> \in PrefixPaths(p)
             \/ /\ \A c \in Clusters : Wanted(c, a)' <=> Wanted(c, a)
                /\ \A c \in Clusters :
                      Wanted(c, a) => <<c, fluxChildFileName(a)>> \notin PrefixPaths(p)
  <2>1. a[1] \in Projects /\ fluxChildFileName(a) \in Files
    BY AppParts, FileOfApp
  <2>2. CASE a[1] = p
    <3>1. \A c : ~Wanted(c, a)'
      BY <1>2, <2>2 DEF Wanted, Live
    <3>2. HasPrefix(fluxChildFileName(a), p)
      BY <2>2, PrefixIsProject
    <3> QED
      BY <2>1, <3>1, <3>2 DEF PrefixPaths
  <2>3. CASE a[1] # p
    <3>1. apps'[a] = apps[a] /\ catalog'[a[1]] = catalog[a[1]]
      BY <1>1, <1>2, <2>1, <2>3
    <3>2. \A c : Wanted(c, a)' <=> Wanted(c, a)
      BY <3>1, WantedKept
    <3>3. ASSUME NEW c \in Clusters, Wanted(c, a)
          PROVE  <<c, fluxChildFileName(a)>> \notin PrefixPaths(p)
      <4>1. Apart(a[1], p)
        BY <1>2, <2>1, <2>3, <3>3 DEF Wanted, Wired, IdsApart
      <4>2. ~HasPrefix(fluxChildFileName(a), p)
        BY <2>3, <4>1, PrefixIsProject
      <4> QED
        BY <4>2 DEF PrefixPaths
    <3> QED
      BY <3>2, <3>3
  <2> QED
    BY <2>2, <2>3
<1>9. Match' /\ Owned'
  BY <1>3, <1>8, RemovalMatches DEF Wired
<1> QED
  BY <1>5, <1>6, <1>7, <1>9 DEF Wired

LEMMA UpdatePoliciesWired ==
    ASSUME TypeOK, Wired, NEW p \in Projects, NEW q \in Policies, UpdatePolicies(p, q)
    PROVE  Wired'
<1>1. /\ \A r \in Projects \ {p} : catalog'[r] = catalog[r]
      /\ Catalogued(p) /\ catalog'[p].environments = catalog[p].environments
  BY CatalogStepKeepsEnvironments
<1>2. Catalogued(p)'
  <2> DEFINE T == [environments : EnvLists, allowed : SUBSET Envs]
  <2>1. catalog[p] \in T /\ catalog \in [Projects -> {NoProject} \cup T]
    BY <1>1 DEF TypeOK, Catalogued
  <2>2. catalog[p].environments \in EnvLists /\ q \in SUBSET Envs
    BY <2>1, WiringAssumption
  <2>3. applyPolicyDefaults(q, catalog[p].environments) \in SUBSET Envs
    BY <2>2, Places DEF applyPolicyDefaults
  <2>4. [catalog[p] EXCEPT !.allowed = applyPolicyDefaults(q, catalog[p].environments)] \in T
    BY <2>1, <2>3
  <2>5. NoProject \notin T
    BY WiringAssumption
  <2> HIDE DEF T
  <2>6. catalog'[p] \in T
    BY <2>1, <2>4 DEF UpdatePolicies
  <2> QED
    BY <2>5, <2>6 DEF Catalogued
<1>3. /\ \A r \in Projects : Catalogued(r)' <=> Catalogued(r)
      /\ \A r \in Projects : catalog'[r].environments = catalog[r].environments
  BY <1>1, <1>2 DEF Catalogued
<1>4. UNCHANGED <<apps, calls, child>>
  BY DEF UpdatePolicies, fluxVars
<1>5. IdsApart'
  BY <1>3 DEF IdsApart, Wired, Apart, HasPrefix
<1>6. AppsCatalogued'
  BY <1>3, <1>4, AppParts DEF AppsCatalogued, Wired
<1>7. CallsCurrent'
  <2>1. \A k \in calls : k.app[1] \in Projects
    BY AppParts DEF TypeOK, Calls
  <2> QED
    BY <1>3, <1>4, <2>1 DEF CallsCurrent, Wired
<1>8. ASSUME NEW a \in Apps, NEW c \in Clusters
      PROVE  Wanted(c, a)' <=> Wanted(c, a)
  <2>1. a[1] \in Projects
    BY AppParts
  <2>2. CASE a[1] = p
    BY <1>1, <1>2, <1>4, <2>2, WantedKept
  <2>3. CASE a[1] # p
    BY <1>1, <1>4, <2>1, <2>3, WantedKept
  <2> QED
    BY <2>2, <2>3
<1>9. Match' /\ Owned'
  BY <1>4, <1>8, UnchangedMatches DEF Wired
<1> QED
  BY <1>5, <1>6, <1>7, <1>9 DEF Wired

-----------------------------------------------------------------------------
(* The calls' steps, without disturbances. *)

\* A step that changes neither catalog nor applications nor children, and adds no call
\* that does not know its project.
LEMMA CallStepWired ==
    ASSUME Wired, UNCHANGED <<catalog, apps, child>>,
           \A k \in calls' : \/ k \in calls
                             \/ /\ Catalogued(k.app[1])
                                /\ k.environments = catalog[k.app[1]].environments
    PROVE  Wired'
<1>1. IdsApart' /\ AppsCatalogued' /\ CallsCurrent'
  BY DEF Wired, IdsApart, AppsCatalogued, CallsCurrent, Catalogued, Apart, HasPrefix
<1>2. \A a \in Apps, c \in Clusters : Wanted(c, a)' <=> Wanted(c, a)
  BY DEF Wanted, Live, Catalogued, Place
<1> QED
  BY <1>1, <1>2, UnchangedMatches DEF Wired

LEMMA BeginWired ==
    ASSUME Wired, NEW o, NEW a, NEW e, Begin(o, a, e)
    PROVE  Wired'
<1> DEFINE k == [op |-> o, app |-> a, env |-> e, environments |-> catalog[a[1]].environments]
<1>1. k.app = a /\ k.environments = catalog[a[1]].environments
  OBVIOUS
<1>2. calls' = calls \cup {k} /\ Catalogued(a[1]) /\ UNCHANGED <<catalog, apps, child>>
  BY DEF Begin, fluxVars
<1> HIDE DEF k
<1> QED
  BY <1>1, <1>2, CallStepWired

\* What the commit of a call knows of its application and its project.
LEMMA CallKnows ==
    ASSUME TypeOK, Wired, NEW k \in calls
    PROVE  /\ k.app \in Apps /\ k.app[1] \in Projects /\ Catalogued(k.app[1])
           /\ \A e : Here(k, e) = clusterIDForEnvironment(catalog[k.app[1]].environments, e)
<1>1. k.app \in Apps
  BY DEF TypeOK, Calls
<1> QED
  BY <1>1, AppParts DEF Wired, CallsCurrent, Here

\* The names and calls stay in order when a call commits.
LEMMA CommitKeepsOrder ==
    ASSUME TypeOK, Wired, NEW k \in calls, UNCHANGED catalog, calls' = calls \ {k},
           \A a \in Apps : apps'[a] # NoApp => apps[a] # NoApp \/ a = k.app
    PROVE  IdsApart' /\ AppsCatalogued' /\ CallsCurrent'
<1>1. IdsApart' /\ CallsCurrent'
  BY DEF Wired, IdsApart, CallsCurrent, Catalogued, Apart, HasPrefix
<1>2. AppsCatalogued'
  BY CallKnows DEF Wired, AppsCatalogued, Catalogued
<1> QED
  BY <1>1, <1>2

\* Writing an application wires it in its new place, and only there.
LEMMA StoreMatches ==
    ASSUME TypeOK, Wired, NEW k \in calls, NEW e \in Envs, NEW previous,
           Store(k, e, previous),
           \/ apps[k.app] = NoApp
           \/ Live(k.app) /\ previous = apps[k.app].env
    PROVE  Match' /\ Owned'
<1> DEFINE b == k.app
           file == fluxChildFileName(b)
<1>1. /\ b \in Apps /\ b[1] \in Projects /\ Catalogued(b[1])
      /\ Here(k, e) = clusterIDForEnvironment(catalog[b[1]].environments, e)
      /\ Here(k, previous) = clusterIDForEnvironment(catalog[b[1]].environments, previous)
  BY CallKnows
<1>2. /\ UNCHANGED catalog
      /\ apps' = [apps EXCEPT ![b] = [status |-> "live", env |-> e]]
      /\ child' = Synced(k, e, previous)
  BY DEF Store, syncFluxWiring, RewriteClusterRoot, Synced, Here
<1>3. \A c \in Clusters : child[c] \in [Files -> Owners]
  BY DEF TypeOK
<1>4. \A c \in Clusters, f \in Files :
         child'[c][f] = IF f = file
                        THEN IF c = Here(k, e) THEN b
                             ELSE IF c = Here(k, previous) THEN NoApp ELSE child[c][f]
                        ELSE child[c][f]
  BY <1>2, <1>3 DEF Synced
<1>5. file \in Files /\ b # NoApp
  BY <1>1, FileOfApp, WiringAssumption
<1>6. Wanted(Here(k, previous), b) \/ \A c \in Clusters : ~Wanted(c, b)
  <2>1. CASE apps[b] = NoApp
    BY <2>1 DEF Wanted, Live
  <2>2. CASE Live(b) /\ previous = apps[b].env
    BY <1>1, <2>2 DEF Wanted, Place
  <2> QED
    BY <2>1, <2>2
<1>7. apps'[b] = [status |-> "live", env |-> e] /\ apps'[b] # NoApp
  <2>1. [status |-> "live", env |-> e] \in [status : {"live", "archived"}, env : Envs]
    OBVIOUS
  <2> QED
    BY <1>1, <1>2, <2>1, WiringAssumption DEF TypeOK
<1>8. \A c \in Clusters : Wanted(c, b)' <=> c = Here(k, e)
  <2>1. Live(b)'
    BY <1>7 DEF Live
  <2>2. Catalogued(b[1])'
    BY <1>1, <1>2 DEF Catalogued
  <2>3. Place(b)' = Here(k, e)
    BY <1>1, <1>2, <1>7 DEF Place
  <2> QED
    BY <2>1, <2>2, <2>3 DEF Wanted
<1>9. ASSUME NEW c \in Clusters
      PROVE  Runs(c, b)' <=> Wanted(c, b)'
  <2>1. Runs(c, b) => c = Here(k, previous)
    <3>1. Runs(c, b) => Wanted(c, b)
      BY <1>1 DEF Wired, Match
    <3>2. Wanted(c, b) => Wanted(Here(k, previous), b)
      BY <1>6
    <3> QED
      BY <3>1, <3>2 DEF Wanted
  <2>2. Runs(c, b)' <=> child'[c][file] = b
    BY DEF Runs
  <2>3. Runs(c, b) <=> child[c][file] = b
    BY DEF Runs
  <2> HIDE DEF b, file
  <2>4. child'[c][file] = IF c = Here(k, e) THEN b
                          ELSE IF c = Here(k, previous) THEN NoApp ELSE child[c][file]
    BY <1>4, <1>5
  <2> QED
    BY <1>5, <1>8, <2>1, <2>2, <2>3, <2>4
<1>10. ASSUME NEW c \in Clusters, NEW a \in Apps, a # b
       PROVE  Runs(c, a)' <=> Wanted(c, a)'
  <2>1. apps'[a] = apps[a] /\ catalog'[a[1]] = catalog[a[1]]
    BY <1>2, <1>10 DEF TypeOK
  <2>2. Wanted(c, a)' <=> Wanted(c, a)
    BY <2>1, WantedKept
  <2>3. fluxChildFileName(a) \in Files /\ a # NoApp
    BY FileOfApp, WiringAssumption
  <2>4. Runs(c, a) <=> Wanted(c, a)
    BY DEF Wired, Match
  <2>5. CASE fluxChildFileName(a) # file
    <3>1. child'[c][fluxChildFileName(a)] = child[c][fluxChildFileName(a)]
      BY <1>4, <2>3, <2>5
    <3> QED
      BY <2>2, <2>4, <3>1 DEF Runs
  <2>6. CASE fluxChildFileName(a) = file
    <3>1. ~Catalogued(a[1])
      BY <1>1, <1>10, <2>6, CataloguedFilesDiffer DEF Wired
    <3>2. ~Wanted(c, a)
      BY <3>1 DEF Wanted
    <3>3. child[c][file] # a
      BY <2>4, <2>6, <3>2 DEF Runs
    <3> HIDE DEF b, file
    <3>4. child'[c][file] # a
      BY <1>4, <1>5, <1>10, <2>3, <3>3
    <3> QED
      BY <2>2, <2>6, <3>2, <3>4 DEF Runs
  <2> QED
    BY <2>5, <2>6
<1>11. Match'
  BY <1>9, <1>10 DEF Match
<1>12. Owned'
  <2> SUFFICES ASSUME NEW c \in Clusters, NEW f \in Files, child'[c][f] # NoApp
               PROVE  child'[c][f] \in Apps /\ fluxChildFileName(child'[c][f]) = f
    BY DEF Owned
  <2>1. child'[c][f] = child[c][f] \/ (f = file /\ child'[c][f] = b)
    BY <1>4
  <2> QED
    BY <1>1, <2>1 DEF Wired, Owned
<1> QED
  BY <1>11, <1>12

\* Removing the children of a call's application, which is no longer live.
LEMMA RemovalWired ==
    ASSUME TypeOK, Wired, NEW k \in calls, removeFluxChildren(k.app), UNCHANGED catalog,
           ~Live(k.app)', \A a \in Apps \ {k.app} : apps'[a] = apps[a]
    PROVE  Match' /\ Owned'
<1> DEFINE b == k.app
<1>1. b \in Apps /\ Catalogued(b[1])
  BY CallKnows
<1>2. child' = Without(FilePaths(b))
  BY <1>1, RemoveFluxChildrenRewires DEF Rewires, RewriteClusterRoot
<1>3. ASSUME NEW a \in Apps
      PROVE  \/ /\ \A c \in Clusters : ~Wanted(c, a)'
                /\ \A c \in Clusters : <<c, fluxChildFileName(a)>> \in FilePaths(b)
             \/ /\ \A c \in Clusters : Wanted(c, a)' <=> Wanted(c, a)
                /\ \A c \in Clusters :
                      Wanted(c, a) => <<c, fluxChildFileName(a)>> \notin FilePaths(b)
  <2>1. CASE a = b
    <3>1. \A c : ~Wanted(c, a)'
      BY <2>1 DEF Wanted
    <3>2. fluxChildFileName(a) \in Files
      BY FileOfApp
    <3> QED
      BY <2>1, <3>1, <3>2 DEF FilePaths
  <2>2. CASE a # b
    <3>1. \A c : Wanted(c, a)' <=> Wanted(c, a)
      BY <2>2, WantedKept
    <3>2. \A c : Wanted(c, a) => fluxChildFileName(a) # fluxChildFileName(b)
      BY <1>1, <2>2, CataloguedFilesDiffer DEF Wanted, Wired
    <3> QED
      BY <3>1, <3>2 DEF FilePaths
  <2> QED
    BY <2>1, <2>2
<1> QED
  BY <1>2, <1>3, RemovalMatches DEF Wired

LEMMA CommitWired ==
    ASSUME TypeOK, Wired, NEW k \in calls, Commit(k)
    PROVE  Wired'
<1>1. k \in Calls /\ k.app \in Apps /\ (k.op \in {"create", "patch"} => k.env \in Envs)
  BY DEF TypeOK, Calls
<1>2. Live(k.app) => apps[k.app] \in Records /\ apps[k.app].env \in Envs
  BY <1>1 DEF Live, TypeOK, Records
<1>3. ASSUME NEW e \in Envs, NEW previous, Store(k, e, previous),
             \/ apps[k.app] = NoApp
             \/ Live(k.app) /\ previous = apps[k.app].env
      PROVE  Wired'
  <2>1. /\ UNCHANGED catalog /\ calls' = calls \ {k}
        /\ \A a \in Apps \ {k.app} : apps'[a] = apps[a]
    BY <1>3 DEF Store, TypeOK
  <2>2. IdsApart' /\ AppsCatalogued' /\ CallsCurrent'
    BY <2>1, CommitKeepsOrder
  <2> QED
    BY <1>3, <2>2, StoreMatches DEF Wired
<1>4. CASE CreateApplication(k)
  BY <1>1, <1>3, <1>4 DEF CreateApplication
<1>5. CASE PatchApplication(k)
  BY <1>1, <1>3, <1>5 DEF PatchApplication
<1>6. CASE UpdateApplicationImage(k)
  BY <1>2, <1>3, <1>6 DEF UpdateApplicationImage
<1>7. ASSUME removeFluxChildren(k.app), UNCHANGED catalog, calls' = calls \ {k},
             ~Live(k.app)', \A a \in Apps \ {k.app} : apps'[a] = apps[a]
      PROVE  Wired'
  <2>1. IdsApart' /\ AppsCatalogued' /\ CallsCurrent'
    BY <1>7, CommitKeepsOrder
  <2> QED
    BY <1>7, <2>1, RemovalWired DEF Wired
<1>8. CASE ArchiveApplication(k)
  <2>1. \A a \in Apps \ {k.app} : apps'[a] = apps[a]
    BY <1>8 DEF ArchiveApplication, TypeOK
  <2>2. apps'[k.app].status = "archived"
    <3>1. apps'[k.app] = [apps[k.app] EXCEPT !.status = "archived"]
      BY <1>1, <1>8 DEF ArchiveApplication, TypeOK
    <3>2. apps[k.app] \in Records
      BY <1>2, <1>8 DEF ArchiveApplication
    <3> QED
      BY <3>1, <3>2 DEF Records
  <2>3. ~Live(k.app)'
    BY <2>2 DEF Live
  <2> QED
    BY <1>7, <1>8, <2>1, <2>3 DEF ArchiveApplication
<1>9. CASE DeleteApplication(k)
  <2>1. /\ \A a \in Apps \ {k.app} : apps'[a] = apps[a]
        /\ apps'[k.app] = NoApp
    BY <1>1, <1>9 DEF DeleteApplication, TypeOK
  <2>2. ~Live(k.app)'
    BY <2>1 DEF Live
  <2> QED
    BY <1>7, <1>9, <2>1, <2>2 DEF DeleteApplication
<1>10. CASE Fail(k)
  BY <1>10, CallStepWired DEF Fail, fluxVars
<1> QED
  BY <1>4, <1>5, <1>6, <1>8, <1>9, <1>10 DEF Commit

\* Without disturbances there is nothing to clean.
LEMMA NothingToClean ==
    ASSUME Wired
    PROVE  ~CleanupOrphanFluxManifests
<1> SUFFICES ASSUME NEW c \in Clusters, NEW f \in Files, Orphan(c, f)
             PROVE  FALSE
  BY DEF CleanupOrphanFluxManifests
<1> DEFINE a == child[c][f]
<1>1. a \in Apps /\ (Live(a) => Catalogued(a[1]) /\ <<c, f>> # <<Place(a), fluxChildFileName(a)>>)
  BY DEF Orphan
<1>2. a # NoApp
  BY <1>1, WiringAssumption
<1>3. fluxChildFileName(a) = f
  BY <1>2 DEF Wired, Owned
<1>4. Wanted(c, a)
  BY <1>1, <1>3 DEF Wired, Match, Runs
<1> QED
  BY <1>1, <1>3, <1>4 DEF Wanted

LEMMA WiringStep == TypeOK /\ WiringInv /\ [Next]_vars => WiringInv'
<1> SUFFICES ASSUME TypeOK, WiringInv, [Next]_vars, admitted' = {} PROVE Wired'
  BY DEF WiringInv
<1>1. ASSUME UNCHANGED vars PROVE Wired'
  <2>1. admitted = {} /\ UNCHANGED <<catalog, apps, child, calls>>
    BY <1>1 DEF vars
  <2> QED
    BY <2>1, CallStepWired DEF WiringInv
<1>2. ASSUME NEW c \in Clusters, CreateCluster(c) PROVE Wired'
  <2>1. admitted = {} /\ UNCHANGED <<catalog, apps, child, calls>>
    BY <1>2 DEF CreateCluster, EnsureCluster, RewriteClusterRoot
  <2> QED
    BY <2>1, CallStepWired DEF WiringInv
<1>3. ASSUME NEW p \in Projects, NEW l \in EnvLists, NEW q \in Policies, CreateProject(p, l, q)
      PROVE  Wired'
  <2>1. admitted = {}
    BY <1>3 DEF CreateProject, ensureClusterScaffolds
  <2> QED
    BY <1>3, <2>1, CreateProjectWired DEF WiringInv
<1>4. ASSUME NEW p \in Projects, DeleteProject(p) PROVE Wired'
  <2>1. admitted = {}
    BY <1>4 DEF DeleteProject
  <2> QED
    BY <1>4, <2>1, DeleteProjectWired DEF WiringInv
<1>5. ASSUME NEW p \in Projects, NEW q \in Policies, UpdatePolicies(p, q) PROVE Wired'
  <2>1. admitted = {}
    BY <1>5 DEF UpdatePolicies
  <2> QED
    BY <1>5, <2>1, UpdatePoliciesWired DEF WiringInv
<1>6. ASSUME NEW o, NEW a, NEW e, Begin(o, a, e) PROVE Wired'
  <2>1. admitted = {}
    BY <1>6 DEF Begin
  <2> QED
    BY <1>6, <2>1, BeginWired DEF WiringInv
<1>7. ASSUME NEW a \in Apps, NEW e \in Envs, BeginCreate(a, e) \/ BeginPatch(a, e)
      PROVE  Wired'
  BY <1>6, <1>7 DEF BeginCreate, BeginPatch
<1>8. ASSUME NEW a \in Apps, BeginRewrite(a) \/ BeginArchive(a) \/ BeginDelete(a)
      PROVE  Wired'
  BY <1>6, <1>8 DEF BeginRewrite, BeginArchive, BeginDelete
<1>9. ASSUME NEW k \in calls, Commit(k) PROVE Wired'
  <2>1. admitted = {}
    BY <1>9 DEF Commit, CreateApplication, PatchApplication, UpdateApplicationImage,
       ArchiveApplication, DeleteApplication, Fail, Store
  <2> QED
    BY <1>9, <2>1, CommitWired DEF WiringInv
<1>10. ASSUME CleanupOrphanFluxManifests PROVE Wired'
  <2>1. admitted = {}
    BY <1>10 DEF CleanupOrphanFluxManifests
  <2> QED
    BY <1>10, <2>1, NothingToClean DEF WiringInv
<1> QED
  BY <1>1, <1>2, <1>3, <1>4, <1>5, <1>7, <1>8, <1>9, <1>10 DEF Next, ChangeCatalog, Create

LEMMA WiringInit == Init => WiringInv
<1> SUFFICES ASSUME Init, admitted = {} PROVE Wired
  BY DEF WiringInv
<1>1. /\ catalog = [p \in Projects |-> NoProject]
      /\ apps = [a \in Apps |-> NoApp]
      /\ child = [c \in Clusters |-> [f \in Files |-> NoApp]]
      /\ calls = {}
  BY DEF Init, Admits
<1>2. IdsApart /\ AppsCatalogued /\ CallsCurrent /\ Owned
  BY <1>1 DEF IdsApart, AppsCatalogued, CallsCurrent, Owned, Catalogued
<1>3. Match
  BY <1>1, FileOfApp, WiringAssumption DEF Match, Runs, Wanted, Live
<1> QED
  BY <1>2, <1>3 DEF Wired

\* Without disturbances the clusters run exactly the live applications, each where its
\* project places it.
THEOREM ChildrenCorrect == Spec => []ChildrenMatchApplications
<1>1. Init => TypeOK /\ WiringInv
  BY InitTyped, WiringInit
<1>2. TypeOK /\ WiringInv /\ [Next]_vars => (TypeOK /\ WiringInv)'
  BY TypeStep, WiringStep
<1>3. WiringInv => ChildrenMatchApplications
  BY WiredMatches
<1> QED
  BY <1>1, <1>2, <1>3, PTL DEF Spec
=============================================================================
