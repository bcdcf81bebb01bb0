--------------------------- MODULE MCGitRepository ----------------------------
(* Instances of GitRepository for TLC. *)
EXTENDS GitRepository, TLC

CONSTANTS w1, w2, app, other

TwoWriters == {w1, w2}
\* The files of one application, and a file that both writers write.
SharedFile == (w1 :> {app, other}) @@ (w2 :> {other})

\* Everything, and the two sets from which the clone recovers.
AllScenarios ==
    {Disturbances, Disturbances \ {"others", "killed"}, {"others", "lost", "cancel"}}
\* An edit fails, and another clone pushes.
FailedEdit == {{"fn", "others"}}
=============================================================================
