---------------------------- MODULE MCAutoUpdate ----------------------------
(***************************************************************************)
(* Two applications share the queue and the ids of a second; one of them   *)
(* may have a rollback policy, a repository that asks for a bad tag, and a *)
(* user.                                                                   *)
(***************************************************************************)
EXTENDS AutoUpdate

CONSTANTS a1, a2, good, bad

TwoApps == {a1, a2}
TwoTags == {good, bad}

\* Nobody takes deployments back in the first, which are about updates; in the second, the
\* repository of a1 asks for a tag that is taken back.
Updates == {{}, {"busy"}, {"crash"}, {"retry", "refused"}, {"sync"}}
Rollbacks == {{"rollout"}, {"unmarked"}, {"busy", "unnoted"}, {"crash", "unmarked"}, {"retry"}}
AllScenarios == Updates \cup Rollbacks

\* Where there is another application, rollouts end, or operations of a deployment that is
\* taken back are lost or tried again, one tag is asked for again and again.
OneTag == {{}, {"rollout"}, {"crash", "unmarked"}, {"retry"}}

OwnAsks == [s \in AllScenarios |-> [a \in TwoApps |->
    CASE a = a1 -> IF s \in OneTag THEN {bad} ELSE TwoTags
      [] a = a2 -> IF s = {} THEN {bad} ELSE {}]]

OneWatched == [s \in AllScenarios |-> IF s \in Rollbacks THEN {a1} ELSE {}]
=============================================================================
