---------------------------- MODULE MCTranscode ----------------------------
(* Transcode on a small instance. *)
EXTENDS Transcode, TLC

WorkerSymmetry == Permutations(Workers) \cup Permutations(Tiers)
=============================================================================
