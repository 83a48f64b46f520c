---------------------------- MODULE DispatchClaim ----------------------------
(***************************************************************************)
(* What happens to one sealed start: dispatchers woken by its completion   *)
(* authenticate it and race to upload the one claim asset of its private   *)
(* draft; the one whose upload is confirmed signs the claim, dispatches a  *)
(* native run, signs a binding of the two and completes; a native run      *)
(* authenticates claim, start, itself and binding before it may work.      *)
(*                                                                         *)
(* The controllers are the read gates and the claim upload; no workflow    *)
(* installs them yet, so the signing and dispatch calls between them are   *)
(* modelled from what the readers require of their results.                *)
(***************************************************************************)
EXTENDS Integers, Sequences, FiniteSets

CONSTANTS Dispatchers,  \* workflow_run runs woken by the start's completion
          Natives,      \* workflow_dispatch runs of the native workflow
          Faults,       \* any job may stop anywhere, any write be unconfirmed
          Drift,        \* the kinds of change others make
          Budget,       \* how many such changes a behaviour holds
          Stranger, None

Actors == Dispatchers \cup Natives
DriftKinds == {"start", "archive", "tag", "draft", "asset", "delete", "rerun", "dispatch"}

ASSUME ActorAssumption == /\ Dispatchers \cap Natives = {}
                          /\ {Stranger, None} \cap Actors = {}
                          /\ Stranger # None
ASSUME ModeAssumption == /\ Faults \in BOOLEAN
                         /\ Drift \subseteq DriftKinds /\ Budget \in Nat

VARIABLES
  \* the provider
  startAttempt,  \* newest attempt of the start run; attempt 1 succeeded
  active,        \* the repository is neither archived nor disabled
  tagged,        \* the tag still selects the start's annotated object
  exact,         \* the draft is private, unedited, holds no foreign asset
  claim,         \* who uploaded the asset that has the claim's fixed name
  signedClaims,  \* dispatchers whose claim signature exists
  bindings,      \* signed <<dispatcher, native>> bindings
  origin,        \* who dispatched each native run
  \* the runs
  status, attempt, seg, at,
  bound,         \* the native run a dispatcher's confirmed response names
  selected,      \* the dispatcher a native run authenticates
  \* history
  authorized,    \* native runs whose entry was ever passed
  deleted,       \* claim assets deleted by people
  spent          \* changes made by others so far

candidate == <<startAttempt, active, tagged, exact>>
runs == <<status, attempt, seg, at>>
vars == <<candidate, claim, signedClaims, bindings, origin, runs, bound, selected,
          authorized, deleted, spent>>
-----------------------------------------------------------------------------
(* The reads of a dispatcher, in order, in segments that end with a write. *)

Auth == <<"active", "self", "start", "self", "start">>
SelectStart == Auth \o Auth
VerifyStart == <<"start", "empty", "start", "empty">>
BeforeClaim == SelectStart \o Auth \o VerifyStart \o Auth \o VerifyStart \o <<"empty">>

\* (seeded fault) the readback reuses the observation of the empty draft
AfterClaimEmpty == <<"claim", "empty", "active", "tag">>

AfterClaim == <<"claim", "sole", "active", "tag">>

Program == << BeforeClaim, AfterClaim, <<>>, <<>>, <<>> >>

\* The reads of a native entry.
ClaimSignature == <<"owner", "signature", "owner">>

\* (seeded fault) the native entry verifies the start as the dispatcher did
ClaimedStartEmpty == VerifyStart

ClaimedStart == <<"start", "claimed", "start", "claimed">>
Identity == <<"active", "self", "active", "self">>
BindingSignature == <<"binding", "owner", "owner", "binding">>
Entry == ClaimSignature \o ClaimedStart \o ClaimSignature \o Identity \o BindingSignature

Reads(x) == IF x \in Natives THEN Entry ELSE Program[seg[x]]
-----------------------------------------------------------------------------
(* What each read requires. *)

Empty == active /\ tagged /\ exact /\ claim = None

Claimed(d) == active /\ tagged /\ exact /\ claim = d

\* the original dispatcher attempt succeeded and was not rerun
Completed(d) == status[d] = "succeeded" /\ attempt[d] = 1

\* (seeded fault) any binding of the dispatcher will do
BoundToAny(d, n) == \E m \in Natives : <<d, m>> \in bindings

\* the signed binding names this very native run
BoundTo(d, n) == <<d, n>> \in bindings

Holds(x, g) ==
  /\ g = "active" => active
  /\ g = "self" => attempt[x] = 1
  /\ g = "start" => startAttempt = 1
  /\ g = "tag" => tagged
  /\ g = "empty" => Empty
  /\ g = "claim" => claim = x
  /\ g = "sole" => exact /\ claim = x
  /\ g = "owner" => Completed(selected[x])
  /\ g = "signature" => selected[x] \in signedClaims
  /\ g = "claimed" => Claimed(selected[x])
  /\ g = "binding" => BoundTo(selected[x], x)
-----------------------------------------------------------------------------
Init ==
  /\ startAttempt = 1
  /\ active = TRUE /\ tagged = TRUE /\ exact = TRUE
  /\ claim = None
  /\ signedClaims = {}
  /\ bindings = {}
  /\ origin = [n \in Natives |-> None]
  /\ status = [x \in Actors |-> "idle"]
  /\ attempt = [x \in Actors |-> 1]
  /\ seg = [x \in Actors |-> 1]
  /\ at = [x \in Actors |-> 1]
  /\ bound = [d \in Dispatchers |-> None]
  /\ selected = [n \in Natives |-> None]
  /\ authorized = {}
  /\ deleted = 0
  /\ spent = 0

Running(x) == status[x] = "running"
Reading(x) == Running(x) /\ at[x] <= Len(Reads(x))
Gate(x) == Reads(x)[at[x]]
AtWrite(d, k) == Running(d) /\ seg[d] = k /\ at[d] = Len(Program[k]) + 1
End(x, how) == status' = [status EXCEPT ![x] = how]

Pass(x) ==
  /\ Reading(x)
  /\ Holds(x, Gate(x))
  /\ at' = [at EXCEPT ![x] = @ + 1]
  /\ UNCHANGED <<candidate, claim, signedClaims, bindings, origin, status, attempt, seg,
                 bound, selected, authorized, deleted, spent>>

\* A refuted read ends the job, and so may a failed one or a lost machine.
Stop(x) ==
  /\ Running(x)
  /\ Faults \/ (Reading(x) /\ ~Holds(x, Gate(x)))
  /\ End(x, "failed")
  /\ UNCHANGED <<candidate, claim, signedClaims, bindings, origin, attempt, seg, at,
                 bound, selected, authorized, deleted, spent>>
-----------------------------------------------------------------------------
(* Dispatchers *)

\* The completion event of attempt 1; it may wake any number of runs.
Wake(d) ==
  /\ status[d] = "idle"
  /\ End(d, "running")
  /\ UNCHANGED <<candidate, claim, signedClaims, bindings, origin, attempt, seg, at,
                 bound, selected, authorized, deleted, spent>>

Confirmed(d) == /\ seg' = [seg EXCEPT ![d] = @ + 1]
                /\ at' = [at EXCEPT ![d] = 1]
                /\ UNCHANGED status

\* An answer other than the one success code: no retry, no next step.
Unconfirmed(d) == /\ Faults
                  /\ End(d, "failed")
                  /\ UNCHANGED <<seg, at>>

\* (seeded fault) the upload replaces an asset of that name
NameReplaced(c) == TRUE

\* An asset name is taken once: a later upload is refused (422, or 404 for the
\* loser of a race).
NameFree(c) == c = None

UploadClaim(d) ==
  /\ AtWrite(d, 1)
  /\ active /\ NameFree(claim)
  /\ claim' = d
  /\ Confirmed(d) \/ Unconfirmed(d)
  /\ UNCHANGED <<candidate, signedClaims, bindings, origin, attempt, bound, selected,
                 authorized, deleted, spent>>

UploadRefused(d) ==
  /\ AtWrite(d, 1)
  /\ ~(active /\ NameFree(claim))
  /\ End(d, "failed")
  /\ UNCHANGED <<candidate, claim, signedClaims, bindings, origin, attempt, seg, at,
                 bound, selected, authorized, deleted, spent>>

SignClaim(d) ==
  /\ AtWrite(d, 2)
  /\ signedClaims' = signedClaims \cup {d}
  /\ Confirmed(d) \/ Unconfirmed(d)
  /\ UNCHANGED <<candidate, claim, bindings, origin, attempt, bound, selected,
                 authorized, deleted, spent>>

\* Only HTTP 200 names the run it created; 204 or silence names none.
DispatchNative(d) ==
  /\ AtWrite(d, 3)
  /\ active
  /\ \E n \in Natives :
       /\ origin[n] = None
       /\ origin' = [origin EXCEPT ![n] = d]
       /\ \/ Confirmed(d) /\ bound' = [bound EXCEPT ![d] = n]
          \/ Unconfirmed(d) /\ UNCHANGED bound
  /\ UNCHANGED <<candidate, claim, signedClaims, bindings, attempt, selected, authorized,
                 deleted, spent>>

DispatchRefused(d) ==
  /\ AtWrite(d, 3)
  /\ ~active
  /\ End(d, "failed")
  /\ UNCHANGED <<candidate, claim, signedClaims, bindings, origin, attempt, seg, at,
                 bound, selected, authorized, deleted, spent>>

SignBinding(d) ==
  /\ AtWrite(d, 4)
  /\ bindings' = bindings \cup {<<d, bound[d]>>}
  /\ Confirmed(d) \/ Unconfirmed(d)
  /\ UNCHANGED <<candidate, claim, signedClaims, origin, attempt, bound, selected,
                 authorized, deleted, spent>>

Complete(d) ==
  /\ AtWrite(d, 5)
  /\ End(d, "succeeded")
  /\ UNCHANGED <<candidate, claim, signedClaims, bindings, origin, attempt, seg, at,
                 bound, selected, authorized, deleted, spent>>
-----------------------------------------------------------------------------
(* Native runs *)

\* The entry selects a dispatcher's claim and binding to authenticate; nothing
\* makes it wait for that dispatcher to complete.
Enter(n, d) ==
  /\ status[n] = "idle" /\ origin[n] # None
  /\ End(n, "running")
  /\ selected' = [selected EXCEPT ![n] = d]
  /\ UNCHANGED <<candidate, claim, signedClaims, bindings, origin, attempt, seg, at,
                 bound, authorized, deleted, spent>>

Authorize(n) ==
  /\ Running(n) /\ at[n] = Len(Entry) + 1
  /\ End(n, "succeeded")
  /\ authorized' = authorized \cup {n}
  /\ UNCHANGED <<candidate, claim, signedClaims, bindings, origin, attempt, seg, at,
                 bound, selected, deleted, spent>>
-----------------------------------------------------------------------------
(* Others *)

Change(kind) == /\ kind \in Drift
                /\ spent < Budget
                /\ spent' = spent + 1
                /\ UNCHANGED <<signedClaims, bindings, bound, selected, authorized>>

RerunStart ==
  /\ Change("start")
  /\ startAttempt' = 2
  /\ UNCHANGED <<active, tagged, exact, claim, origin, runs, deleted>>

ToggleArchive ==
  /\ Change("archive")
  /\ active' = ~active
  /\ UNCHANGED <<startAttempt, tagged, exact, claim, origin, runs, deleted>>

MoveTag ==
  /\ Change("tag")
  /\ tagged' = ~tagged
  /\ UNCHANGED <<startAttempt, active, exact, claim, origin, runs, deleted>>

EditDraft ==
  /\ Change("draft")
  /\ exact' = ~exact
  /\ UNCHANGED <<startAttempt, active, tagged, claim, origin, runs, deleted>>

StrangerAsset ==
  /\ Change("asset")
  /\ claim = None
  /\ claim' = Stranger
  /\ UNCHANGED <<candidate, origin, runs, deleted>>

DeleteClaim ==
  /\ Change("delete")
  /\ claim # None
  /\ claim' = None
  /\ deleted' = deleted + 1
  /\ UNCHANGED <<candidate, origin, runs>>

\* A rerun keeps the run's ID and is its attempt 2.
Rerun(x) ==
  /\ Change("rerun")
  /\ status[x] \in {"failed", "succeeded"}
  /\ status' = [status EXCEPT ![x] = "running"]
  /\ attempt' = [attempt EXCEPT ![x] = 2]
  /\ seg' = [seg EXCEPT ![x] = 1]
  /\ at' = [at EXCEPT ![x] = 1]
  /\ UNCHANGED <<candidate, claim, origin, deleted>>

StrangerDispatch(n) ==
  /\ Change("dispatch")
  /\ origin[n] = None
  /\ origin' = [origin EXCEPT ![n] = Stranger]
  /\ UNCHANGED <<candidate, claim, runs, deleted>>

Others == \/ RerunStart \/ ToggleArchive \/ MoveTag \/ EditDraft
          \/ StrangerAsset \/ DeleteClaim
          \/ \E x \in Actors : Rerun(x)
          \/ \E n \in Natives : StrangerDispatch(n)

Dispatch(d) == \/ UploadClaim(d) \/ UploadRefused(d) \/ SignClaim(d)
               \/ DispatchNative(d) \/ DispatchRefused(d) \/ SignBinding(d) \/ Complete(d)

Next == \/ \E x \in Actors : Pass(x) \/ Stop(x)
        \/ \E d \in Dispatchers : Wake(d) \/ Dispatch(d)
        \/ \E n \in Natives : Authorize(n) \/ \E d \in Dispatchers : Enter(n, d)
        \/ Others

Spec == Init /\ [][Next]_vars

\* The runner executes the next step of a job within its time limit.
FairSpec == /\ Spec
            /\ \A x \in Actors : WF_vars(Pass(x) \/ Stop(x))
            /\ \A d \in Dispatchers : WF_vars(Dispatch(d))
            /\ \A n \in Natives : WF_vars(Authorize(n))
-----------------------------------------------------------------------------
(* Properties *)

\* Every variable keeps its type; in particular no binding is ever signed for
\* a run the provider did not name (confirmed_run).
TypeOK ==
  /\ startAttempt \in {1, 2} /\ active \in BOOLEAN /\ tagged \in BOOLEAN /\ exact \in BOOLEAN
  /\ claim \in Dispatchers \cup {Stranger, None}
  /\ signedClaims \subseteq Dispatchers
  /\ bindings \subseteq Dispatchers \X Natives
  /\ origin \in [Natives -> Dispatchers \cup {Stranger, None}]
  /\ status \in [Actors -> {"idle", "running", "failed", "succeeded"}]
  /\ attempt \in [Actors -> {1, 2}]
  /\ seg \in [Actors -> 1 .. 5] /\ at \in [Actors -> Nat \ {0}]
  /\ bound \in [Dispatchers -> Natives \cup {None}]
  /\ selected \in [Natives -> Dispatchers \cup {None}]
  /\ authorized \subseteq Natives
  /\ deleted \in Nat /\ spent \in Nat

\* A claim is worth one dispatch: however many dispatchers race, rerun or lose
\* the provider's answer, no second native run is dispatched for the start
\* unless a person deletes a claim from the draft.
SoleDispatch == Cardinality({n \in Natives : origin[n] \in Dispatchers}) <= 1 + deleted

\* A claim is worth one consumer: likewise for the native runs that pass entry.
SoleConsumption == Cardinality(authorized) <= 1 + deleted

\* A native run that passed entry is the one its dispatcher's confirmed
\* response named, and that dispatcher had signed claim and binding and
\* completed: not a manual run beside it, nor one of a dispatcher that failed.
AuthorizedIsBound ==
  \A n \in authorized :
    LET d == origin[n] IN
      /\ d \in signedClaims /\ bound[d] = n
      /\ Completed(d) \/ attempt[d] = 2

\* Until a person deletes a claim, every step is a step of the abstract
\* lifecycle: claimed once, consumed once, by one run, neither taken back.
StageOf == IF authorized # {} THEN "consumed"
           ELSE IF claim \in Dispatchers THEN "claimed" ELSE "sealed"

Lifecycle == INSTANCE CandidateLifecycle
               WITH Versions <- {"v"}, Starts <- {"start"},
                    stage <- [v \in {"v"} |-> StageOf],
                    owner <- [v \in {"v"} |-> "start"],
                    claimant <- [v \in {"v"} |-> IF claim \in Dispatchers THEN claim ELSE None],
                    consumer <- [v \in {"v"} |-> IF authorized = {} THEN None
                                                 ELSE CHOOSE n \in authorized : TRUE]

LifecycleUntilDeleted ==
  Lifecycle!DispatchInit /\ [][deleted' = 0 => [Lifecycle!DispatchNext]_(Lifecycle!vars)]_vars

\* Undisturbed, of the dispatchers that run one gets through: the reads after
\* its own upload must not require the draft the reads before it required.
QuietDispatchSucceeds ==
  (\E d \in Dispatchers : Running(d)) ~> (\E d \in Dispatchers : status[d] = "succeeded")

\* Undisturbed, a bound native run that enters after its dispatcher completed
\* is authorized.
QuietEntryAuthorized ==
  \A n \in Natives, d \in Dispatchers :
    Running(n) /\ at[n] = 1 /\ selected[n] = d /\ bound[d] = n /\ Completed(d)
      ~> n \in authorized
=============================================================================
