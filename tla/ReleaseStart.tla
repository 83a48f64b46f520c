----------------------------- MODULE ReleaseStart -----------------------------
(***************************************************************************)
(* The protected compiler/SDK start: one job of                            *)
(* compiler-sdk-release-start.yml, from the completed "Producer contracts" *)
(* run that wakes it to the uploaded start transport, run against a        *)
(* provider whose state other people change between any two of its reads.  *)
(*                                                                         *)
(* The job is four segments of reads, each ended by one provider write:    *)
(*   1 admit, create-tag up to the POST of the annotated tag object        *)
(*   2 the recheck up to the POST of the tag ref                           *)
(*   3 the recheck up to the Release Please draft                          *)
(*   4 bind-draft, construct, attest, seal up to the artifact upload       *)
(* A read that does not hold, fails or times out ends the job; nothing is  *)
(* retried or undone.                                                      *)
(* The signature made between construct and seal follows the same reads as *)
(* the upload and writes nothing of the candidate: it is part of segment 4.*)
(***************************************************************************)
EXTENDS Integers, Sequences, FiniteSets

CONSTANTS Runs,        \* start runs (attempt 1 of distinct workflow runs)
          MaxCommit,   \* main advances along commits 1 .. MaxCommit
          Releases,    \* the commits that merge a Release Please PR
          Serialized,  \* the template's concurrency group is honoured
          Faults,      \* reads and writes may fail or have an unknown outcome
          Drift,       \* the kinds of change others make
          Budget,      \* how many such changes a behaviour holds
          Stranger, None

Commits == 1 .. MaxCommit
DriftKinds == {"main", "label", "ci", "inputs", "policy", "expiry", "archive",
               "tag", "draft", "edit"}
Policies == {"enforced", "altered", "open"}

ASSUME CommitAssumption == MaxCommit \in Nat \ {0} /\ Releases \subseteq Commits
ASSUME RunAssumption == None \notin Runs /\ Stranger \notin Runs /\ None # Stranger
ASSUME ModeAssumption == /\ Serialized \in BOOLEAN /\ Faults \in BOOLEAN
                         /\ Drift \subseteq DriftKinds /\ Budget \in Nat

VARIABLES
  \* the provider, as the job's token sees it
  main,       \* the head of the protected main branch
  label,      \* the autorelease labels of each release PR
  retired,    \* release PRs that were once merged and not pending
  ci,         \* the newest attempt of each commit's Producer contracts run
  policy,     \* the tag ruleset
  active,     \* the repository is neither archived nor disabled
  objects,    \* annotated tag objects, named by the run that created them
  tag,        \* who created the object the version's tag ref selects
  releases,   \* the release records of each version, by creator
  edited,     \* creators whose record is no longer an empty private draft
  \* the job's own machine
  intact,     \* checkout, input blobs, runtime closure and retained files
  \* the start runs
  status, attempt, head, ciHead,
  receipt,    \* the ruleset digest in the run's admission receipt
  expired,    \* that receipt's governance reading is over 900 seconds old
  seg, at,    \* the segment and the read within it
  rp,         \* the version Release Please reported
  sealed,     \* runs whose start transport is a provider artifact
  staleWrites,\* writes of the run that landed when it was already stale
  spent       \* changes made by others so far

provider == <<main, label, retired, ci, policy, active, objects, tag, releases, edited>>
run == <<status, attempt, head, ciHead, receipt, expired, seg, at, rp>>
vars == <<provider, intact, run, sealed, staleWrites, spent>>
-----------------------------------------------------------------------------
(* The reads, in the order the controllers make them. *)

Admission == <<"event", "main", "clean", "pull", "inputs", "governance", "runtime",
               "ci", "active", "visible", "active", "main">>

\* (seeded fault) the frozen recheck repeats the absence gate of the admission
FrozenWithAbsence == <<"event", "main", "clean", "pending", "inputs", "governance",
                       "runtime", "ci", "visible", "active", "main">>

Frozen == <<"event", "main", "clean", "pending", "inputs", "governance", "runtime",
            "ci", "active", "main">>

Recheck == <<"event", "ci", "main", "clean", "inputs">>

CreateTag == <<"config", "inputs", "event", "identity">> \o Admission
             \o <<"absent", "evidence">>

BeforeObject == Admission \o <<"identity">> \o Frozen
                \o <<"evidence", "inputs", "absent", "main", "evidence">>

\* (seeded fault) the object POST's admission is reused for the ref POST
BeforeRefUnadmitted == <<"identity", "absent", "inputs", "evidence">>

BeforeRef == Admission \o <<"identity", "absent", "inputs", "evidence">>

AfterRef == <<"tag", "identity">> \o Frozen \o <<"main", "inputs", "evidence">>

BindDraft == <<"evidence", "event", "identity">> \o Frozen \o <<"output", "identity">>
             \o Frozen \o <<"evidence", "inputs", "draft">>
             \o Frozen \o <<"identity", "evidence", "inputs", "tag", "evidence">>

Construct == <<"event", "active">> \o Recheck \o <<"identity", "evidence", "candidate">>
             \o Recheck \o <<"identity", "evidence", "candidate", "event">>

Seal == <<"transport">>

Program == << Admission \o CreateTag \o BeforeObject, BeforeRef, AfterRef,
              BindDraft \o Construct \o Seal >>
-----------------------------------------------------------------------------
(* What each read requires. *)

Merged == {c \in Releases : c <= main}
Pending == {c \in Merged : "pending" \in label[c]}

\* (seeded fault) some pending release PR, not the only one
AnyPending(c) == c \in Pending

\* the commit merges a release PR that is the only pending one
SolePending(c) == Pending = {c}

Governed(r) == /\ policy # "open"
               /\ receipt[r] # None => policy = receipt[r] /\ ~expired[r]

TagAbsent(c) == tag[c] = None

\* a private draft of an archived repository reads as 404
ReleaseAbsent(c) == active => releases[c] = {}

ExactDraft(r) == /\ active
                 /\ tag[head[r]] = r
                 /\ r \in releases[head[r]] \ edited

SoleDraft(r) == ExactDraft(r) /\ releases[head[r]] = {r}

\* Reads of the job's own disk: the admitted blobs in the checkout, the
\* materialized runtime, the Release Please configuration, the sealed files.
CheckoutReads == {"clean", "inputs"}
RuntimeReads == {"runtime", "evidence"}
ConfigReads == {"config"}
TransportReads == {"transport"}
LocalReads == CheckoutReads \cup RuntimeReads \cup ConfigReads \cup TransportReads

Holds(r, g) ==
  /\ g = "event" => ciHead[r] = head[r]
  /\ g = "main" => main = head[r]
  /\ g = "pull" => SolePending(head[r])
  /\ g = "pending" => SolePending(head[r]) /\ "tagged" \notin label[head[r]]
  /\ g = "governance" => Governed(r)
  /\ g = "ci" => ci[head[r]] = 1
  /\ g = "active" => active
  /\ g = "visible" => TagAbsent(head[r])
  /\ g = "absent" => TagAbsent(head[r]) /\ ReleaseAbsent(head[r])
  /\ g = "identity" => attempt[r] = 1
  /\ g = "tag" => tag[head[r]] = r
  /\ g = "output" => rp[r] = head[r]
  /\ g = "draft" => SoleDraft(r)
  /\ g = "candidate" => ExactDraft(r)
  /\ g \in LocalReads => intact

\* The by-tag lookup of a second draft may select either.
Ambiguous(r, g) == g = "candidate" /\ releases[head[r]] # {r}

\* The first admission ends quietly when its commit is no candidate at all.
NoCandidate(r, g) ==
  /\ g \in {"event", "main", "pull", "ci", "visible"}
  /\ ~Holds(r, g)
  /\ g = "pull" => head[r] \notin Pending

Stale(r) == \/ main # head[r]
            \/ ci[head[r]] # 1
            \/ ~intact
            \/ expired[r]
-----------------------------------------------------------------------------
Init ==
  /\ main = 1
  /\ label = [c \in Commits |-> IF c \in Releases THEN {"pending"} ELSE {}]
  /\ retired = {}
  /\ ci = [c \in Commits |-> 1]
  /\ policy = "enforced"
  /\ active = TRUE
  /\ objects = {}
  /\ tag = [c \in Commits |-> None]
  /\ releases = [c \in Commits |-> {}]
  /\ edited = {}
  /\ intact = TRUE
  /\ status = [r \in Runs |-> "idle"]
  /\ attempt = [r \in Runs |-> 1]
  /\ head = [r \in Runs |-> 1]
  /\ ciHead = [r \in Runs |-> 1]
  /\ receipt = [r \in Runs |-> None]
  /\ expired = [r \in Runs |-> FALSE]
  /\ seg = [r \in Runs |-> 1]
  /\ at = [r \in Runs |-> 1]
  /\ rp = [r \in Runs |-> None]
  /\ sealed = {}
  /\ staleWrites = [r \in Runs |-> 0]
  /\ spent = 0

Running(r) == status[r] = "running"
Gate(r) == Program[seg[r]][at[r]]
Reading(r) == Running(r) /\ at[r] <= Len(Program[seg[r]])
AtWrite(r, k) == Running(r) /\ seg[r] = k /\ at[r] = Len(Program[k]) + 1
End(r, how) == status' = [status EXCEPT ![r] = how]

\* A successful push run of Producer contracts wakes the template; the job
\* checks out the main it finds, which may already be past that commit.
Trigger(r, c) ==
  /\ status[r] = "idle"
  /\ c <= main
  /\ Serialized => \A q \in Runs : ~Running(q)
  /\ End(r, "running")
  /\ head' = [head EXCEPT ![r] = main]
  /\ ciHead' = [ciHead EXCEPT ![r] = c]
  /\ UNCHANGED <<provider, intact, attempt, receipt, expired, seg, at, rp, sealed,
                 staleWrites, spent>>

Pass(r) ==
  /\ Reading(r)
  /\ Holds(r, Gate(r))
  /\ at' = [at EXCEPT ![r] = @ + 1]
  /\ receipt' = IF Gate(r) = "governance" THEN [receipt EXCEPT ![r] = policy] ELSE receipt
  /\ UNCHANGED <<provider, intact, status, attempt, head, ciHead, expired, seg, rp, sealed,
                 staleWrites, spent>>

\* ready=false: every later step is skipped and the run succeeds.
Decline(r) ==
  /\ Reading(r)
  /\ seg[r] = 1
  /\ at[r] <= Len(Admission)
  /\ NoCandidate(r, Gate(r))
  /\ End(r, "declined")
  /\ UNCHANGED <<provider, intact, attempt, head, ciHead, receipt, expired, seg, at, rp,
                 sealed, staleWrites, spent>>

\* A read that is refuted, rejected, rate limited or late stops the job, as
\* does the loss of its machine.
Stop(r) ==
  /\ Reading(r)
  /\ Faults \/ ~Holds(r, Gate(r)) \/ Ambiguous(r, Gate(r))
  /\ End(r, "failed")
  /\ UNCHANGED <<provider, intact, attempt, head, ciHead, receipt, expired, seg, at, rp,
                 sealed, staleWrites, spent>>

\* Re-running a finished start is attempt 2, which the job's condition skips.
Rerun(r) ==
  /\ status[r] = "failed" /\ attempt[r] = 1
  /\ attempt' = [attempt EXCEPT ![r] = 2]
  /\ End(r, "declined")
  /\ UNCHANGED <<provider, intact, head, ciHead, receipt, expired, seg, at, rp, sealed,
                 staleWrites, spent>>
-----------------------------------------------------------------------------
(* The writes.  A confirmed one opens the next segment; one that is rejected *)
(* or has an unknown outcome ends the job, applied or not.                   *)

Confirmed(r) == /\ seg' = [seg EXCEPT ![r] = @ + 1]
                /\ at' = [at EXCEPT ![r] = 1]
                /\ UNCHANGED status

Unknown(r) == /\ Faults
              /\ End(r, "failed")
              /\ UNCHANGED <<seg, at>>

Applied(r) == staleWrites' = [staleWrites EXCEPT ![r] = IF Stale(r) THEN @ + 1 ELSE @]

Rejected(r, possible) == /\ Faults \/ ~possible
                         /\ End(r, "failed")
                         /\ UNCHANGED <<seg, at, staleWrites>>

PostTagObject(r) ==
  /\ AtWrite(r, 1)
  /\ \/ /\ active
        /\ objects' = objects \cup {r}
        /\ Applied(r)
        /\ Confirmed(r) \/ Unknown(r)
     \/ Rejected(r, active) /\ UNCHANGED objects
  /\ UNCHANGED <<main, label, retired, ci, policy, active, tag, releases, edited, intact,
                 attempt, head, ciHead, receipt, expired, rp, sealed, spent>>

\* (seeded fault) the ref is put, not created
RefPut(c) == c \in Commits

\* POST git/refs answers 422 for a ref that exists
RefFree(c) == TagAbsent(c)

PostTagRef(r) ==
  /\ AtWrite(r, 2)
  /\ \/ /\ active /\ RefFree(head[r])
        /\ tag' = [tag EXCEPT ![head[r]] = r]
        /\ Applied(r)
        /\ Confirmed(r) \/ Unknown(r)
     \/ Rejected(r, active /\ RefFree(head[r])) /\ UNCHANGED tag
  /\ UNCHANGED <<main, label, retired, ci, policy, active, objects, releases, edited, intact,
                 attempt, head, ciHead, receipt, expired, rp, sealed, spent>>

\* Release Please drafts every merged PR it finds pending, without looking at
\* tags, and reports one of them; a failed step may have drafted some.
DraftRelease(r) ==
  /\ AtWrite(r, 3)
  /\ \/ \E drafted \in SUBSET Pending :
          /\ active
          /\ releases' = [c \in Commits |-> IF c \in drafted THEN releases[c] \cup {r}
                                                             ELSE releases[c]]
          /\ Applied(r)
          /\ \/ /\ drafted = Pending
                /\ Confirmed(r)
                /\ \E c \in IF Pending = {} THEN {None} ELSE Pending : rp' = [rp EXCEPT ![r] = c]
             \/ Unknown(r) /\ UNCHANGED rp
     \/ Rejected(r, active) /\ UNCHANGED <<releases, rp>>
  /\ UNCHANGED <<main, label, retired, ci, policy, active, objects, tag, edited, intact,
                 attempt, head, ciHead, receipt, expired, sealed, spent>>

\* The run succeeds only if its last step, the upload, does.
UploadStart(r) ==
  /\ AtWrite(r, 4)
  /\ \/ /\ sealed' = sealed \cup {r}
        /\ Applied(r)
        /\ \/ End(r, "succeeded") /\ UNCHANGED <<seg, at>>
           \/ Unknown(r)
     \/ Rejected(r, TRUE) /\ UNCHANGED sealed
  /\ UNCHANGED <<provider, intact, attempt, head, ciHead, receipt, expired, rp, spent>>
-----------------------------------------------------------------------------
(* Others: pushes, maintainers, reruns, the clock, the job's own disk. *)

Change(kind) == /\ kind \in Drift
                /\ spent < Budget
                /\ spent' = spent + 1
                /\ UNCHANGED <<objects, status, attempt, head, ciHead, receipt, seg, at, rp,
                               sealed, staleWrites>>

AdvanceMain ==
  /\ Change("main")
  /\ main < MaxCommit
  /\ main' = main + 1
  /\ UNCHANGED <<label, retired, ci, policy, active, tag, releases, edited, intact, expired>>

Relabel(c, labels) ==
  /\ Change("label")
  /\ c \in Merged
  /\ label' = [label EXCEPT ![c] = labels]
  /\ retired' = IF "pending" \in labels THEN retired ELSE retired \cup {c}
  /\ UNCHANGED <<main, ci, policy, active, tag, releases, edited, intact, expired>>

RerunCI(c) ==
  /\ Change("ci")
  /\ c <= main
  /\ ci' = [ci EXCEPT ![c] = 2]
  /\ UNCHANGED <<main, label, retired, policy, active, tag, releases, edited, intact, expired>>

ChangeLocalFiles ==
  /\ Change("inputs")
  /\ intact' = FALSE
  /\ UNCHANGED <<main, label, retired, ci, policy, active, tag, releases, edited, expired>>

EditRuleset(p) ==
  /\ Change("policy")
  /\ policy' = p
  /\ UNCHANGED <<main, label, retired, ci, active, tag, releases, edited, intact, expired>>

ExpireReceipt(r) ==
  /\ Change("expiry")
  /\ receipt[r] # None
  /\ expired' = [expired EXCEPT ![r] = TRUE]
  /\ UNCHANGED <<main, label, retired, ci, policy, active, tag, releases, edited, intact>>

ToggleArchive ==
  /\ Change("archive")
  /\ active' = ~active
  /\ UNCHANGED <<main, label, retired, ci, policy, tag, releases, edited, intact, expired>>

\* The ruleset forbids moving or deleting a v* tag, not creating one.
StrangerTag(c) ==
  /\ Change("tag")
  /\ active /\ TagAbsent(c)
  /\ tag' = [tag EXCEPT ![c] = Stranger]
  /\ UNCHANGED <<main, label, retired, ci, policy, active, releases, edited, intact, expired>>

StrangerDraft(c) ==
  /\ Change("draft")
  /\ active
  /\ releases' = [releases EXCEPT ![c] = @ \cup {Stranger}]
  /\ UNCHANGED <<main, label, retired, ci, policy, active, tag, edited, intact, expired>>

EditDraft(c, r) ==
  /\ Change("edit")
  /\ active /\ r \in releases[c]
  /\ \/ edited' = edited \cup {r} /\ UNCHANGED releases
     \/ releases' = [releases EXCEPT ![c] = @ \ {r}] /\ UNCHANGED edited
  /\ UNCHANGED <<main, label, retired, ci, policy, active, tag, intact, expired>>

Others ==
  \/ AdvanceMain \/ ChangeLocalFiles \/ ToggleArchive
  \/ \E c \in Releases, labels \in SUBSET {"pending", "tagged"} : Relabel(c, labels)
  \/ \E c \in Commits : RerunCI(c)
  \/ \E p \in Policies : EditRuleset(p)
  \/ \E r \in Runs : ExpireReceipt(r)
  \/ \E c \in Releases : StrangerTag(c) \/ StrangerDraft(c)
  \/ \E c \in Releases, r \in Runs : EditDraft(c, r)

Step(r) == \/ Pass(r) \/ Decline(r) \/ Stop(r)
           \/ PostTagObject(r) \/ PostTagRef(r) \/ DraftRelease(r) \/ UploadStart(r)

Next == \/ \E r \in Runs : Step(r) \/ Rerun(r) \/ \E c \in Commits : Trigger(r, c)
        \/ Others

Spec == Init /\ [][Next]_vars

\* The runner executes an undisturbed job's next step within its time limit.
FairSpec == Spec /\ \A r \in Runs : WF_vars(Step(r))
-----------------------------------------------------------------------------
(* Properties *)

\* Every variable keeps its type; in particular no admission receipt names a
\* ruleset that was not enforced when it was read (_governance).
TypeOK ==
  /\ main \in Commits /\ label \in [Commits -> SUBSET {"pending", "tagged"}]
  /\ retired \subseteq Releases /\ ci \in [Commits -> {1, 2}] /\ policy \in Policies
  /\ active \in BOOLEAN /\ objects \subseteq Runs
  /\ tag \in [Commits -> Runs \cup {Stranger, None}]
  /\ releases \in [Commits -> SUBSET (Runs \cup {Stranger})] /\ edited \subseteq Runs
  /\ intact \in BOOLEAN
  /\ status \in [Runs -> {"idle", "running", "declined", "failed", "succeeded"}]
  /\ attempt \in [Runs -> {1, 2}] /\ head \in [Runs -> Commits] /\ ciHead \in [Runs -> Commits]
  /\ receipt \in [Runs -> (Policies \ {"open"}) \cup {None}] /\ expired \in [Runs -> BOOLEAN]
  /\ seg \in [Runs -> 1 .. 4] /\ at \in [Runs -> Nat \ {0}]
  /\ rp \in [Runs -> Commits \cup {None}] /\ sealed \subseteq Runs
  /\ staleWrites \in [Runs -> Nat] /\ spent \in Nat

\* Once main has moved, CI was rerun, a local input changed or the governance
\* reading expired, the job lands at most the one write it had already been
\* cleared for: every segment rechecks all four before the next write
\* ("drift must not turn a confirmed object creation into permission for a
\* second write", _create_tag).
StaleWriteIsLast == \A r \in Runs : staleWrites[r] <= 1

\* A retained start names the run's own candidate: the tag ref selects the
\* object this run posted and had confirmed, Release Please reported that
\* version to this run, and no other run retains a start for the version,
\* however many starts race and whoever else creates tags and drafts.
SealedIsOwnCandidate ==
  \A r \in sealed : /\ head[r] \in Releases
                    /\ r \in objects /\ tag[head[r]] = r /\ rp[r] = head[r]
                    /\ \A q \in sealed : head[q] = head[r] => q = r

\* The controller tags a version only after every earlier release PR has been
\* taken off "autorelease: pending": since the draft is made with
\* skip-labeling, an unretired release blocks its successors (_candidate_pull).
OneReleaseInFlight ==
  \A c \in Releases : tag[c] \in Runs => \A b \in Releases : b < c => b \in retired

\* The job keeps the promise of the abstract lifecycle.
StageOf(c) == IF tag[c] = None THEN "absent"
              ELSE IF tag[c] = Stranger \/ seg[tag[c]] < 4 THEN "tagged"
              ELSE IF tag[c] \in sealed THEN "sealed" ELSE "drafted"

Lifecycle == INSTANCE CandidateLifecycle
               WITH Versions <- Releases, Starts <- Runs, Dispatchers <- {}, Natives <- {},
                    stage <- [c \in Releases |-> StageOf(c)],
                    owner <- [c \in Releases |-> tag[c]],
                    claimant <- [c \in Releases |-> None],
                    consumer <- [c \in Releases |-> None]

\* Every step on the provider is a lifecycle step of one version or none:
\* tagged once and never retagged, drafted and sealed only by the tag's owner.
ImplementsLifecycle == Lifecycle!StartSpec

\* Undisturbed, the gates can all be met: of the starts that run for a release
\* commit one retains its start.  (The binding steps must not repeat the
\* absence gates that the job's own tag and draft now refute.)
QuietStartSeals ==
  \A c \in Releases : (\E r \in Runs : Running(r) /\ head[r] = c /\ ciHead[r] = c)
                        ~> (\E r \in sealed : head[r] = c /\ status[r] = "succeeded")
=============================================================================
