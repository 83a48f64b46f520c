---- MODULE MCReleaseMatrix ----
(* Instances of ReleaseMatrix for TLC. *)
EXTENDS ReleaseMatrix
====
