------------------------- MODULE MCDeploymentQueue -------------------------
(* Instances of DeploymentQueue for TLC. *)
EXTENDS DeploymentQueue, TLC

CONSTANTS w1, w2, r1, r2, cart, dev, prod, branch

OneWorker    == {w1}
TwoWorkers   == {w1, w2}
TwoRequests  == {r1, r2}

\* Request ids are distinct, so a request names its own operation.
OwnId     == [r \in Requests |-> r]

OneApp    == [r \in Requests |-> cart]
OneEnv    == [r \in Requests |-> dev]
TwoEnvs   == [r \in Requests |-> IF r = r1 THEN dev ELSE prod]
\* One lock for the branch (server.go).
OneKey    == [r \in Requests |-> branch]

\* Work that fits in its lease; and none of what makes attempts repeat or overtake.
Timely      == {"retryable", "permanent", "pushlost", "db", "crash", "overlap"}
Undisturbed == {"permanent", "db", "crash"}
SafetyScenarios == {Disturbances, Timely, Undisturbed}
=============================================================================
