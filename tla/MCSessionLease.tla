--------------------------- MODULE MCSessionLease ---------------------------
(* Instances of SessionLease for TLC: model values and symmetry.           *)
EXTENDS SessionLease, TLC

CONSTANTS w1, w2, w3, l1, l2, i1, i2, i3, i4

Two == {w1, w2}
Three == {w1, w2, w3}
NoLegacy == {}
OneLegacy == {l1}
ThreeInodes == {i1, i2, i3}
FourInodes == {i1, i2, i3, i4}

\* The inodes are interchangeable, and in a run without liveness so are the
\* processes.
Interchangeable == Permutations(Three) \cup Permutations(FourInodes)
=============================================================================
