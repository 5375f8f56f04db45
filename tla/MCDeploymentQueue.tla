-------------------------- MODULE MCDeploymentQueue --------------------------
(* Small instances of DeploymentQueue for TLC. *)
EXTENDS DeploymentQueue, TLC

CONSTANTS web, site, main, extra, builder, HEAD, sha

\* Two lanes: those of two applications, or of an application and a preview.
OneServer    == [l \in Lanes |-> main]
NoExtra      == [l \in Lanes |-> {}]
WebExtra     == [l \in Lanes |-> IF l = web THEN {extra} ELSE {}]
NoBuild      == [l \in Lanes |-> {}]
WithBuild    == [l \in Lanes |-> {builder}]
LimitOne     == [s \in Servers |-> 1]
\* Workers are interchangeable.
SameWorkers == Permutations(Workers)
=============================================================================
