---------------------------- MODULE MCRecordings ----------------------------
(* Recordings with one crash, on two files for the safety run, so that a   *)
(* stop in flight meets the next recording, and on one for liveness.       *)
EXTENDS Recordings, TLC

FileSymmetry == Permutations(Files)
=============================================================================
