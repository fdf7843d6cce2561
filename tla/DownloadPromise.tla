---------------------------- MODULE DownloadPromise ----------------------------
(***************************************************************************)
(* What a download promises its caller, whatever the number of threads:    *)
(* each chunk is stored once, at its place; the operation ends once; it    *)
(* succeeds only with the whole file and fails only if something misses.   *)
(***************************************************************************)
EXTENDS Naturals

CONSTANT NumChunks

VARIABLES file, outcome

Chunks == 1..NumChunks
Hole == 0

Init == file = [c \in Chunks |-> Hole] /\ outcome = "none"

Store(c) ==
    /\ outcome = "none" /\ file[c] = Hole
    /\ file' = [file EXCEPT ![c] = c]
    /\ UNCHANGED outcome

Succeed ==
    /\ outcome = "none" /\ \A c \in Chunks : file[c] = c
    /\ outcome' = "success" /\ UNCHANGED file

Fail ==
    /\ outcome = "none" /\ \E c \in Chunks : file[c] = Hole
    /\ outcome' = "failed" /\ UNCHANGED file

Next == Succeed \/ Fail \/ \E c \in Chunks : Store(c)

Spec == Init /\ [][Next]_<<file, outcome>>
================================================================================
