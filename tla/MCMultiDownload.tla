---------------------------- MODULE MCMultiDownload ----------------------------
(* Instances of MultiDownload for TLC. *)
EXTENDS MultiDownload, TLC

CONSTANTS s1, s2, s3

TwoSources == {s1, s2}
ThreeSources == {s1, s2, s3}
AllFaults == FaultKinds
OnlyStatus == {"status"}
OnlyIO == {"io"}
NoFaults == {}

\* Threads are interchangeable: only safety runs use this.
SourceSymmetry == Permutations(Sources)
================================================================================
