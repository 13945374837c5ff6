---------------------------- MODULE MCMediaScan -----------------------------
(* Small instances of MediaScan. *)
EXTENDS MediaScan, TLC

CONSTANTS s1, s2

OneList == {{s1}}
BothLists == {{}, {s1, s2}}
TwoLists == {{s1}, {s2}}
WorkerSymmetry == Permutations(Workers)
=============================================================================
