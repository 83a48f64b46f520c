---- MODULE MCRetainedOutput ----
(* Instances of RetainedOutput for TLC. *)
EXTENDS RetainedOutput
====
