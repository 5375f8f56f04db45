--------------------------- MODULE MCDeploymentRun ---------------------------
(* Small instances of DeploymentRun for TLC. *)
EXTENDS DeploymentRun, TLC

CONSTANTS d1, d2, j1, j2

\* One job per deployment.
OneEach   == [j \in Jobs |-> IF j = j1 THEN d1 ELSE d2]

\* Setups of an application of this strategy; deployments of pr are for pull
\* request 7, those of restart are restarts.
Of(strategy, health, post, build, restart, pr) ==
  [strategy : {strategy}, health_check : health, post_command : post,
   build_server : build, docker_image : {FALSE}, restart_only : {restart},
   pull_request_id : {[d \in Deployments |-> IF d \in pr THEN 7 ELSE 0]}]

\* The same with the build pack 'dockerimage'.
Pulled(S) == {[s EXCEPT !.docker_image = TRUE] : s \in S}

\* A single deployment: each form of rollout, restarts of two of them, and the
\* three that a build server does not expect.
Single ==
  Of("rolling", {TRUE}, {TRUE, FALSE}, {TRUE}, {}, {})
    \cup Of("rolling", {TRUE}, {TRUE}, {FALSE}, {d1}, {})
    \cup Of("ports", {FALSE}, {TRUE}, {TRUE, FALSE}, {}, {})
    \cup Of("consistent", {FALSE}, {TRUE}, {FALSE}, {}, {})
    \cup Of("compose", {FALSE}, {TRUE}, {FALSE}, {d1}, {})
    \cup Of("rolling", {FALSE}, {FALSE}, {TRUE}, {d1}, {})
    \cup Of("compose", {FALSE}, {FALSE}, {TRUE}, {}, {})
    \cup Pulled(Of("rolling", {FALSE}, {FALSE}, {TRUE, FALSE}, {}, {}))

\* A deployment beside another one: of the same application, or its preview.
Pairs ==
  Of("rolling", {TRUE, FALSE}, {FALSE}, {FALSE}, {}, {})
    \cup Of("ports", {FALSE}, {TRUE}, {FALSE}, {}, {d2})
    \cup Of("compose", {FALSE}, {TRUE}, {FALSE}, {d1}, {d2})

\* A builder on a build server.
WithServer == Of("rolling", {TRUE}, {FALSE}, {TRUE}, {}, {})
=============================================================================
