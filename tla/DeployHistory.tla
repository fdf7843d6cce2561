----------------------------- MODULE DeployHistory -----------------------------
(***************************************************************************)
(* What the deployment table promises its readers (the web UI, the         *)
(* autoscaler), who read it sorted by time: deployments are only ever      *)
(* added, each starts running, keeps the time it was added with, which no  *)
(* other has, and its outcome, once known, is never revised.  A deployment *)
(* may be added below the last one: its call took its time earlier.        *)
(***************************************************************************)
EXTENDS Naturals

CONSTANT Calls
VARIABLES time, status

Outcomes == {"success", "failed", "aborted"}

\* The deployments of the past are settled.
Init ==
    /\ status \in [Calls -> {"none"} \union Outcomes]
    /\ time \in [Calls -> Nat]
    /\ \A d \in Calls : status[d] = "none" <=> time[d] = 0
    /\ \A c, d \in Calls : c # d /\ time[c] # 0 => time[c] # time[d]

Start(d) ==
    /\ status[d] = "none"
    /\ time'[d] \in Nat \ {0} /\ \A c \in Calls : time'[d] # time[c]
    /\ time' = [time EXCEPT ![d] = time'[d]]
    /\ status' = [status EXCEPT ![d] = "running"]

Settle(d, outcome) ==
    /\ status[d] = "running"
    /\ status' = [status EXCEPT ![d] = outcome]
    /\ UNCHANGED time

Next == \E d \in Calls :
            Start(d) \/ \E o \in Outcomes : Settle(d, o)

Spec == Init /\ [][Next]_<<time, status>>
================================================================================
