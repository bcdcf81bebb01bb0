--------------------------- MODULE MCChangeWorkflow ---------------------------
(* Instances of ChangeWorkflow for TLC. *)
EXTENDS ChangeWorkflow, TLC

CONSTANTS c1, c2, h1, h2, create, policy, redeploy, retag, shared, prod

TwoHandlers == {h1, h2}

\* Handlers are interchangeable.
Interchangeable == Permutations(TwoHandlers)

AllRequests == {create, policy, redeploy, retag}

OwnOperation ==
    [q \in AllRequests |-> CASE q = create -> "CreateApplication"
                             [] q = policy -> "UpdatePolicies"
                             [] OTHER      -> "Redeploy"]

\* c1 is drafted as a new application or, before or after, as a deployment of it.
OwnRequests == (c1 :> {create, redeploy}) @@ (c2 :> {policy})

\* c1 is drafted as anything, also as a deployment of one tag or of another.
AnyRequest == c1 :> AllRequests

\* Deployments go to prod, which only the policy may protect.
OwnEnv == [q \in AllRequests |-> IF q \in {redeploy, retag} THEN prod ELSE shared]
SharedReviewed == (shared :> "pull_request") @@ (prod :> "unlisted")
\* prod is listed without a writeMode.
ProdListed == (shared :> "direct") @@ (prod :> "")

PolicyRequiresPR == [q \in AllRequests |-> TRUE]
=============================================================================
