------------------------ MODULE MCApplicationLifecycle ------------------------
(* Instances of ApplicationLifecycle for TLC. *)
EXTENDS ApplicationLifecycle

CONSTANTS h1, h2, k1, k2

TwoHandlers == {h1, h2}
CallsEnd == {"read", "stage", "commit", "final", "unstage", "purge"}

\* One call after another, ending anywhere, but in a deletion, or but in the secret
\* store; and creations that race.
SequentialScenarios ==
    {CallsEnd \cup {"slow"}, CallsEnd \ {"purge"}, {"commit", "read", "purge"},
     {"race", "commit"}}
\* Calls that overlap and end anywhere, after they read stale records or took long.
ConcurrentScenarios == {CallsEnd \cup {"overlap", f} : f \in {"stale", "slow"}}
AllScenarios == SequentialScenarios \cup ConcurrentScenarios

\* Both kinds tell the first of a loop from the next, two keys what an update sets from
\* what it keeps.
MCLimits == [s \in SUBSET Disturbances |->
    [kinds |-> IF s \cap {"overlap", "slow"} = {} THEN Kinds ELSE {"env"},
     keys  |-> IF "overlap" \in s THEN {k1} ELSE Keys]]
=============================================================================
