---- MODULE MCCandidateRelease ----
(* Instances of CandidateRelease for TLC. *)
EXTENDS CandidateRelease
====
