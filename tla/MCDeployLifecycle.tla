--------------------------- MODULE MCDeployLifecycle ---------------------------
(* Instances of DeployLifecycle for TLC. *)
EXTENDS DeployLifecycle, TLC

CONSTANTS d1, d2, d3

TwoCalls == {d1, d2}
ThreeCalls == {d1, d2, d3}
FirstCall == d1
AllFaults == FaultKinds
NoFaults == {}
TableWorks == FaultKinds \ {"table"}

CallSymmetry == Permutations(Calls)
================================================================================
