---- MODULE MCRecoveryHandoff ----
(* Instances of RecoveryHandoff for TLC. *)
EXTENDS RecoveryHandoff
====
