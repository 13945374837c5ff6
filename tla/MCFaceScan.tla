----------------------------- MODULE MCFaceScan -----------------------------
(* Small instances of FaceScan. *)
EXTENDS FaceScan, TLC

CONSTANTS p1, p2, h1, h2, h3, anna, ben

\* A photo of nobody that is replaced by one of two, and another photo of the first; the
\* second photo may change its mtime without changing its content.
Album == (p1 :> <<h1, h3>>) @@ (p2 :> <<h2, h2>>)
Cast == (h1 :> {}) @@ (h2 :> {anna}) @@ (h3 :> {anna, ben})
\* The second engine has another dimension than the first, and so has the third.
Dimensions == [e \in Engine |-> IF e = 1 THEN 512 ELSE 128]

\* Bound: of changed files, merges, crashes and failing statements, two.
TwoEvents == changes + merges + crashes + faults <= 2
=============================================================================
