--------------------------- MODULE MCServiceRegistry ---------------------------
(* Instances of ServiceRegistry for TLC. *)
EXTENDS ServiceRegistry, TLC

CONSTANTS w1, w2, a, b

OneDeploy == {w1}
TwoDeploys == {w1, w2}
OneService == {a}
TwoServices == {a, b}
AllFaults == {"ecs", "read", "put"}
NoFaults == {}

Symmetry == Permutations(Deploys) \union Permutations(Services)
================================================================================
