---------------------------- MODULE MCFluxWiring ----------------------------
(***************************************************************************)
(* Project a has application b-c and project a-b application c: their      *)
(* children have the same file name, which begins with both ids.           *)
(***************************************************************************)
EXTENDS FluxWiring

a == <<"a">>
ab == <<"a", "b">>

MCProjects == {a, ab}
MCApps == {<<a, <<"b", "c">>>>, <<a, <<"d">>>>, <<ab, <<"c">>>>}
MCClusters == {"default", "edge"}
MCEnvs == {"dev", "prod"}

\* Two environments on two clusters, or one of them, placed on the other cluster.
MCEnvLists == {
    <<[id |-> "dev", cluster |-> "default"], [id |-> "prod", cluster |-> "edge"]>>,
    <<[id |-> "dev", cluster |-> "edge"]>>}

MCPolicies == {{}, {"prod"}}
MCScenarios == {{}, {"stale"}, {"prefix"}, {"leftover"}}

\* One call meets the deletion of its project; two calls race with one another.
MCMaxCalls == [s \in MCScenarios |-> IF s \in {{"stale"}, {"prefix"}} THEN 1 ELSE 2]
=============================================================================
