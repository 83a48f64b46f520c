---- MODULE MCReleaseStart ----
(* Instances of ReleaseStart for TLC. *)
EXTENDS ReleaseStart, TLC

AllDrift == DriftKinds
Symmetry == Permutations(Runs)
====
