---- MODULE MCCandidateAssembly ----
(* Instances of CandidateAssembly for TLC. *)
EXTENDS CandidateAssembly

CONSTANTS lane, lane2, sdk, sdk2

Two == {lane, lane2}
TwoSdks == {sdk, sdk2}

\* Names that fold to the same: within a stage, across the two stages, of an
\* SBOM with a package, and of two SBOMs.
Clashing == {{<<"member", lane>>, <<"member", lane2>>},
             {<<"member", sdk>>, <<"member", sdk2>>},
             {<<"member", lane>>, <<"member", sdk>>},
             {<<"member", lane2>>, <<"sbom", sdk>>},
             {<<"sbom", sdk>>, <<"sbom", sdk2>>}}
====
