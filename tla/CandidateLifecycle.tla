------------------------- MODULE CandidateLifecycle -------------------------
(***************************************************************************)
(* What the compiler/SDK release-start protocol promises about one         *)
(* candidate version, whatever the provider does between its calls.        *)
(*                                                                         *)
(* A version is tagged once, by one owner that never changes; only the     *)
(* start run that owns the tag can bring it to a private draft and to a    *)
(* retained start; one dispatcher claims that start, and one native run    *)
(* consumes the claim.  No stage is skipped, repeated or taken back.       *)
(*                                                                         *)
(* ReleaseStart implements StartSpec, DispatchClaim implements             *)
(* DispatchSpec: the start run hands a "sealed" version to the dispatcher. *)
(***************************************************************************)
CONSTANTS Versions,     \* versions a release commit can carry
          Starts,       \* protected start runs
          Dispatchers,  \* dispatcher runs
          Natives,      \* native workflow runs
          Stranger,     \* anybody with write access who is not one of them
          None

VARIABLES stage,        \* how far each version has come
          owner,        \* who created its tag
          claimant,     \* the dispatcher whose claim its draft carries
          consumer      \* the native run admitted for it

vars == <<stage, owner, claimant, consumer>>

Fresh == [v \in Versions |-> None]

StartInit == /\ stage = [v \in Versions |-> "absent"]
             /\ owner = Fresh
             /\ claimant = Fresh
             /\ consumer = Fresh

DispatchInit == /\ stage = [v \in Versions |-> "sealed"]
                /\ owner \in [Versions -> Starts]
                /\ claimant = Fresh
                /\ consumer = Fresh

Move(v, from, to) == /\ stage[v] = from
                     /\ stage' = [stage EXCEPT ![v] = to]

Tag(v, o) == /\ Move(v, "absent", "tagged")
             /\ owner' = [owner EXCEPT ![v] = o]
             /\ UNCHANGED <<claimant, consumer>>

Draft(v) == /\ owner[v] \in Starts
            /\ Move(v, "tagged", "drafted")
            /\ UNCHANGED <<owner, claimant, consumer>>

Seal(v) == /\ Move(v, "drafted", "sealed")
           /\ UNCHANGED <<owner, claimant, consumer>>

Claim(v, d) == /\ Move(v, "sealed", "claimed")
               /\ claimant' = [claimant EXCEPT ![v] = d]
               /\ UNCHANGED <<owner, consumer>>

Consume(v, n) == /\ Move(v, "claimed", "consumed")
                 /\ consumer' = [consumer EXCEPT ![v] = n]
                 /\ UNCHANGED <<owner, claimant>>

StartNext == \E v \in Versions : \/ \E o \in Starts \cup {Stranger} : Tag(v, o)
                                 \/ Draft(v)
                                 \/ Seal(v)

DispatchNext == \E v \in Versions : \/ \E d \in Dispatchers : Claim(v, d)
                                    \/ \E n \in Natives : Consume(v, n)

Spec == StartInit /\ [][StartNext \/ DispatchNext]_vars
StartSpec == StartInit /\ [][StartNext]_vars
DispatchSpec == DispatchInit /\ [][DispatchNext]_vars
=============================================================================
