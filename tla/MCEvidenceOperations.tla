---- MODULE MCEvidenceOperations ----
(* Instances of EvidenceOperations for TLC. *)
EXTENDS EvidenceOperations, TLC
====
