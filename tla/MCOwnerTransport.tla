---- MODULE MCOwnerTransport ----
(* Instances of OwnerTransport for TLC. *)
EXTENDS OwnerTransport, TLC

AllDrift == DriftKinds
NoDrift == {}
Everywhere == 0 .. MaxAttempt
FirstOnly == {0, 1}
Symmetry == Permutations(Bytes)
====
