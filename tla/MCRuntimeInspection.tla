---- MODULE MCRuntimeInspection ----
(* Instances of RuntimeInspection for TLC. *)
EXTENDS RuntimeInspection, TLC
====
