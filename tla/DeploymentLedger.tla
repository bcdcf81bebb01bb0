-------------------------- MODULE DeploymentLedger --------------------------
(***************************************************************************)
(* What the deployment queue promises, whatever fails: a deployment is     *)
(* accepted, is written to Git only between its acceptance and its         *)
(* settlement, and once settled keeps its verdict; it is settled as done   *)
(* only when it has been written.                                          *)
(***************************************************************************)
CONSTANT Ids

VARIABLES
    standing,   \* of each deployment
    written     \* the deployments recorded in Git

vars == <<standing, written>>

Standings == {"none", "pending", "done", "failed"}

Init ==
    /\ standing = [i \in Ids |-> "none"]
    /\ written = {}

Accept(i) ==
    /\ standing[i] = "none"
    /\ standing' = [standing EXCEPT ![i] = "pending"]
    /\ UNCHANGED written

\* A retry may write the same record again.
Write(i) ==
    /\ standing[i] = "pending"
    /\ written' = written \cup {i}
    /\ UNCHANGED standing

Settle(i, verdict) ==
    /\ standing[i] = "pending"
    /\ verdict = "done" => i \in written
    /\ standing' = [standing EXCEPT ![i] = verdict]
    /\ UNCHANGED written

Next == \E i \in Ids :
    \/ Accept(i)
    \/ Write(i)
    \/ \E verdict \in {"done", "failed"} : Settle(i, verdict)

Spec == Init /\ [][Next]_vars
=============================================================================
