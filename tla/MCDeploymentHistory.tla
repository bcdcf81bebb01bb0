------------------------- MODULE MCDeploymentHistory -------------------------
(* Instances of DeploymentHistory for TLC. *)
EXTENDS DeploymentHistory, TLC

CONSTANTS w1, w2, r1, r2, cart, dev, branch

TwoWorkers   == {w1, w2}
TwoRequests  == {r1, r2}

\* Request ids are distinct, so a request names its own operation.
OwnId     == [r \in Requests |-> r]

OneApp    == [r \in Requests |-> cart]
OneEnv    == [r \in Requests |-> dev]
\* One lock for the branch (server.go).
OneKey    == [r \in Requests |-> branch]

\* Processes that stay up and a database that answers, whatever else goes wrong.
Up == Disturbances \ {"db", "crash"}

\* Reads beside retries and overlapping claims, beside answers of pushes that are lost, and
\* beside processes that stop or lose database calls.
Beside == {{"retryable", "overlap"}, {"pushlost"}, {"db", "crash"}}

HistoryScenarios == {Up} \cup Beside
=============================================================================
