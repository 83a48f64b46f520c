--------------------------- MODULE CandidateRelease ---------------------------
(***************************************************************************)
(* ReleaseStart and DispatchClaim as one system: what wakes a dispatcher   *)
(* is a completed start run, and the tag and draft that it authenticates   *)
(* are those which the start run left at the provider.                     *)
(*                                                                         *)
(* Others may change what ReleaseStart lets them change, before a start    *)
(* completed and after; what they may do to a claim and to the runs that   *)
(* carry it is in DispatchClaim.  A later start may still run while the    *)
(* dispatchers of the one that completed do.                               *)
(***************************************************************************)
EXTENDS ReleaseStart

CONSTANTS Dispatchers, Natives

ASSUME DispatchAssumption == /\ Dispatchers \cap Natives = {}
                             /\ {Stranger, None} \cap (Dispatchers \cup Natives) = {}

VARIABLES
  served,     \* the start whose completion event the dispatchers carry
  claim, signedClaims, bindings, origin, bound, selected, authorized, deleted,
  dStatus, dAttempt, dSeg, dAt, dSpent   \* of the dispatchers and native runs

dispatching == <<served, claim, signedClaims, bindings, origin, bound, selected, authorized,
                 deleted, dStatus, dAttempt, dSeg, dAt, dSpent>>
all == <<vars, dispatching>>

\* What is left at the provider of the start that the dispatchers serve.
Version == head[served]
TagStands == served = None \/ tag[Version] = served
DraftStands == served = None \/ (releases[Version] = {served} /\ served \notin edited)
NewestAttempt == IF served = None THEN 1 ELSE attempt[served]

Dispatch == INSTANCE DispatchClaim
              WITH Drift <- {}, startAttempt <- NewestAttempt,
                   tagged <- TagStands, exact <- DraftStands,
                   status <- dStatus, attempt <- dAttempt, seg <- dSeg, at <- dAt, spent <- dSpent

ReleaseInit == Init /\ served = None /\ Dispatch!Init

StartStep == Next /\ UNCHANGED dispatching
OwnStep(r) == Step(r) /\ UNCHANGED dispatching

\* Any number of starts complete, each of its own version; the dispatchers of
\* one of them are followed.
Completed == {r \in sealed : status[r] = "succeeded"}

Completion == /\ served = None
              /\ served' \in Completed
              /\ UNCHANGED <<vars, claim, signedClaims, bindings, origin, bound, selected,
                             authorized, deleted, dStatus, dAttempt, dSeg, dAt, dSpent>>

\* The completion event wakes dispatchers, which select its start.
Awakened == served # None /\ UNCHANGED <<vars, served>>
DispatcherStep(d) == Awakened /\ (Dispatch!Pass(d) \/ Dispatch!Stop(d) \/ Dispatch!Dispatch(d))
NativeStep(n) == Awakened /\ (Dispatch!Pass(n) \/ Dispatch!Stop(n) \/ Dispatch!Authorize(n))
Awake == /\ Awakened
         /\ \E d \in Dispatchers : Dispatch!Wake(d) \/ \E n \in Natives : Dispatch!Enter(n, d)

ReleaseNext == \/ StartStep \/ Completion \/ Awake
               \/ \E d \in Dispatchers : DispatcherStep(d)
               \/ \E n \in Natives : NativeStep(n)

\* The runners execute the next step of a job that was started.
ReleaseSpec == /\ ReleaseInit /\ [][ReleaseNext]_all
               /\ \A r \in Runs : WF_all(OwnStep(r))
               /\ \A d \in Dispatchers : WF_all(DispatcherStep(d))
               /\ \A n \in Natives : WF_all(NativeStep(n))
-----------------------------------------------------------------------------
\* What a version goes through in both parts: from absent to consumed.
WholeStage(c) == IF StageOf(c) = "sealed" /\ served # None /\ c = Version
                 THEN Dispatch!StageOf ELSE StageOf(c)

WholeLifecycle == INSTANCE CandidateLifecycle
  WITH Versions <- Releases, Starts <- Runs,
       stage <- [c \in Releases |-> WholeStage(c)],
       owner <- [c \in Releases |-> tag[c]],
       claimant <- [c \in Releases |-> IF WholeStage(c) \in {"claimed", "consumed"} THEN claim ELSE None],
       consumer <- [c \in Releases |-> IF WholeStage(c) = "consumed"
                                       THEN CHOOSE n \in authorized : TRUE ELSE None]

\* The composition takes a version through the whole lifecycle and through
\* nothing else: only the tag, draft and start of one run reach a claim, one
\* dispatcher claims them and one native run consumes the claim.
ImplementsWholeLifecycle == WholeLifecycle!Spec

\* What the start left satisfies its readers: of the dispatchers that run one
\* gets through, as the reads after its own upload do not require the draft that
\* the reads before it required, and the native run bound to it is authorized.
QuietReleaseConsumed == Dispatch!QuietDispatchSucceeds /\ Dispatch!QuietEntryAuthorized
=============================================================================
