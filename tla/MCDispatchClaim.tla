---- MODULE MCDispatchClaim ----
(* Instances of DispatchClaim for TLC. *)
EXTENDS DispatchClaim, TLC

AllDrift == DriftKinds
Symmetry == Permutations(Dispatchers) \cup Permutations(Natives)
====
