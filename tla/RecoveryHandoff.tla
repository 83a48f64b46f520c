----------------------------- MODULE RecoveryHandoff -----------------------------
(***************************************************************************)
(* toolchain-release-recovery.yml: the recovery of a release whose builds, *)
(* comparisons and compatibility jobs all succeeded and whose draft alone  *)
(* failed.  The job judges one attempt of the source run, downloads what   *)
(* that run retained, repackages it under a fresh tag and makes a draft.   *)
(*                                                                         *)
(* Meanwhile the source run may be run again, its artifacts may expire or  *)
(* be overwritten, tags may move and others may make releases.  The        *)
(* recoveries of one tag run one at a time (concurrency group), each may   *)
(* fail anywhere and be dispatched again.                                  *)
(***************************************************************************)
EXTENDS Integers, Sequences, FiniteSets

CONSTANTS Attempts,  \* of the source run
          Budget,    \* changes that others make
          Faults,    \* recoveries that are stopped or fail
          Outages,   \* lookups of a release that fail
          None

Names == {"release", "evidence"}   \* qualified-final-release and qualification-evidence

\* Annotated tag objects; what an object points to never changes.
Objects == {"source", "recovery", "another", "elsewhere"}
Target(object) == IF object = "elsewhere" THEN "foreign" ELSE "produced"

ASSUME BoundAssumption == Attempts \in Nat \ {0} /\ Budget \in Nat /\ Faults \in Nat /\ Outages \in Nat
ASSUME NoneAssumption == None \notin Objects

VARIABLES
  \* the source run
  attempt, over,
  verdict,   \* how each attempt ended: "handoff" if draft-release alone failed
  exact,     \* whether the listing of an attempt's jobs states that attempt
  artifacts,
  \* the repository
  tag,       \* the objects of the source and the recovery tag
  drafts,    \* the releases that have the recovery tag
  \* the recovery in progress
  at,        \* its step, 0 while there is none
  judged,    \* the attempt it judged
  got,       \* what it downloaded
  admitted,  \* the tag objects it read first
  \* accounts
  late,      \* what of the recovery tag was last read before it was moved
  answered,  \* a lookup of the release did not fail
  changes, faults, outages

sourceRun == <<attempt, over, verdict, exact, artifacts>>
locals == <<judged, got, admitted>>
lookups == <<answered, outages>>
vars == <<sourceRun, tag, drafts, at, locals, late, lookups, changes, faults>>

Verdicts == {"handoff", "other", "success", None}
Artifact == [name : Names, of : 1 .. Attempts, object : Objects \cup {None}, intact : BOOLEAN, live : BOOLEAN]
Draft == [by : {"recovery", "others"}, of : 1 .. Attempts, whole : BOOLEAN, intact : BOOLEAN,
          admittedAt : Objects \cup {None}, madeAt : Objects \cup {None},
          unseen : SUBSET {"object", "commit"}, answered : BOOLEAN]

Steps == <<"run", "count", "release", "evidence", "attempt", "jobs", "sourceTag", "recoveryTag",
           "absent", "attested", "request", "recoveryObject", "recoveryCommit",
           "sourceObject", "sourceCommit", "absent", "create">>

TypeOK ==
  /\ attempt \in 1 .. Attempts /\ over \in BOOLEAN
  /\ verdict \in [1 .. Attempts -> Verdicts] /\ exact \in [1 .. Attempts -> BOOLEAN]
  /\ artifacts \subseteq Artifact
  /\ tag \in [{"source", "recovery"} -> Objects \cup {None}]
  /\ drafts \in Seq(Draft) /\ at \in 0 .. 17 /\ judged \in 0 .. attempt
  /\ got \in [Names -> Artifact \cup {None}]
  /\ admitted \in [{"source", "recovery"} -> Objects \cup {None}]
  /\ late \subseteq {"object", "commit"} /\ answered \in BOOLEAN
  /\ changes \in 0 .. Budget /\ faults \in 0 .. Faults /\ outages \in 0 .. Outages
  \* a recovery that judged an attempt found it ended
  /\ judged # 0 => verdict[judged] # None

Init ==
  /\ attempt = 1 /\ over = FALSE /\ verdict = [a \in 1 .. Attempts |-> None]
  /\ exact = [a \in 1 .. Attempts |-> a = 1] /\ artifacts = {}
  /\ tag = [source |-> "source", recovery |-> "recovery"] /\ drafts = <<>>
  /\ at = 0 /\ judged = 0 /\ got = [n \in Names |-> None] /\ admitted = [t \in DOMAIN tag |-> None]
  /\ late = {} /\ answered = FALSE /\ changes = 0 /\ faults = 0 /\ outages = 0

Live(n) == {a \in artifacts : a.name = n /\ a.live}
-----------------------------------------------------------------------------
(* The source run: what draft-release retains before it creates the draft. *)

\* A name in use is refused, also to a later attempt.
RetainInput(n) ==
  /\ ~over /\ verdict[attempt] = None /\ Live(n) = {}
  /\ n = "evidence" => \E a \in Live("release") : a.of = attempt
  /\ artifacts' = artifacts \cup
       {[name |-> n, of |-> attempt, object |-> tag["source"], intact |-> TRUE, live |-> TRUE]}
  /\ UNCHANGED <<attempt, over, verdict, exact, tag, drafts, at, locals, late, lookups, changes, faults>>

\* The run ends: with a draft, without one alone, or with another job failed.
Conclude(v) ==
  /\ ~over /\ over' = TRUE
  /\ v = "success" => \A n \in Names : \E a \in Live(n) : a.of = attempt
  /\ verdict' = [verdict EXCEPT ![attempt] = v]
  /\ UNCHANGED <<attempt, exact, artifacts, tag, drafts, at, locals, late, lookups, changes, faults>>
-----------------------------------------------------------------------------
(* The recovery job. *)

\* Dispatched, or run again, when no other one for the tag is in progress.
Dispatch ==
  /\ at = 0 /\ at' = 1 /\ judged' = 0 /\ late' = {} /\ answered' = FALSE
  /\ got' = [n \in Names |-> None] /\ admitted' = [t \in DOMAIN tag |-> None]
  /\ UNCHANGED <<sourceRun, tag, drafts, outages, changes, faults>>

Doing(step) == at # 0 /\ Steps[at] = step
Advance == at' = at + 1 /\ UNCHANGED <<sourceRun, tag, drafts, changes, faults>>

\* A push run of the producer that completed.
ReadRun == Doing("run") /\ over /\ Advance /\ UNCHANGED <<locals, late, lookups>>

CountArtifacts == /\ Doing("count") /\ \A n \in Names : Cardinality(Live(n)) = 1
                  /\ Advance /\ UNCHANGED <<locals, late, lookups>>

\* Downloaded by name.
Download(n) == /\ Doing(n) /\ \E a \in Live(n) : got' = [got EXCEPT ![n] = a]
               /\ Advance /\ UNCHANGED <<judged, admitted, late, lookups>>

\* The run once more: completed, and the attempt it is in.
ReadAttempt == /\ Doing("attempt") /\ over /\ judged' = attempt
               /\ Advance /\ UNCHANGED <<got, admitted, late, lookups>>

\* (seeded fault) every job has to have succeeded
AllSucceeded(a) == verdict[a] = "success" /\ exact[a]

\* Every job of that attempt, completed, of it, and draft-release the only one
\* that neither succeeded nor was skipped.
HandoffFailed(a) == verdict[a] = "handoff" /\ exact[a]

JudgeJobs == Doing("jobs") /\ HandoffFailed(judged) /\ Advance /\ UNCHANGED <<locals, late, lookups>>

FetchSourceTag ==
  /\ Doing("sourceTag") /\ tag["source"] # None
  /\ tag["source"] = got["evidence"].object /\ Target(tag["source"]) = "produced"
  /\ admitted' = [admitted EXCEPT !["source"] = tag["source"]]
  /\ Advance /\ UNCHANGED <<judged, got, late, lookups>>

FetchRecoveryTag ==
  /\ Doing("recoveryTag") /\ tag["recovery"] # None
  /\ tag["recovery"] # admitted["source"] /\ Target(tag["recovery"]) = Target(admitted["source"])
  /\ admitted' = [admitted EXCEPT !["recovery"] = tag["recovery"]]
  /\ Advance /\ UNCHANGED <<judged, got, late, lookups>>

\* (seeded fault) a release that nobody finished does not count
NoWholeRelease == \A i \in DOMAIN drafts : ~drafts[i].whole

NoRelease == drafts = <<>>

\* gh release view finds none.
RequireAbsent == /\ Doing("absent") /\ NoRelease /\ answered' = TRUE
                 /\ Advance /\ UNCHANGED <<locals, late, outages>>

\* Or it fails for another reason, with its message dropped: only its success
\* stops the job, so whatever cannot be looked up counts as absent.
LookupFails == /\ Doing("absent") /\ outages < Outages /\ outages' = outages + 1
               /\ Advance /\ UNCHANGED <<locals, late, answered>>

\* (seeded fault) signed by the source run, whichever attempt of it
SignedByRun(a) == got["release"].intact

\* Every checksummed file is signed by that attempt of the source run.
SignedBy(a) == got["release"].intact /\ got["release"].of = a
VerifyAttestation == Doing("attested") /\ SignedBy(judged) /\ Advance /\ UNCHANGED <<locals, late, lookups>>

\* The native CLI joins release, evidence and tags into a recovery request; the
\* release is then packaged again from it.
PrepareRequest == /\ Doing("request") /\ got["evidence"].intact /\ got["evidence"].of = got["release"].of
                  /\ Advance /\ UNCHANGED <<locals, late, lookups>>

\* (seeded fault) only what the tag points to is compared
Pointing(t) == tag[t] # None /\ Target(tag[t]) = Target(admitted[t])

\* The tag on the remote is still the admitted object; then, by a read of its
\* own, it still peels to the admitted commit.
HeldObject(t) == tag[t] # None /\ tag[t] = admitted[t]
HeldCommit(t) == tag[t] # None /\ Target(tag[t]) = Target(admitted[t])

Recheck(t, part) == /\ late' = IF t = "recovery" THEN late \ {part} ELSE late
                    /\ Advance /\ UNCHANGED <<locals, lookups>>
RecheckObject(t, step) == Doing(step) /\ HeldObject(t) /\ Recheck(t, "object")
RecheckCommit(t, step) == Doing(step) /\ HeldCommit(t) /\ Recheck(t, "commit")

\* gh release create --verify-tag --draft, with all files, or with some of them
\* and a failure.
CreateDraft(whole) ==
  /\ Doing("create") /\ tag["recovery"] # None
  /\ drafts' = Append(drafts, [by |-> "recovery", of |-> got["release"].of, whole |-> whole,
                               intact |-> got["release"].intact, admittedAt |-> admitted["recovery"],
                               madeAt |-> tag["recovery"], unseen |-> late, answered |-> answered])
  /\ at' = 0
  /\ faults' = IF whole THEN faults ELSE faults + 1
  /\ whole \/ faults < Faults
  /\ UNCHANGED <<sourceRun, tag, locals, late, lookups, changes>>

RecoveryStep ==
  \/ ReadRun \/ CountArtifacts \/ (\E n \in Names : Download(n)) \/ ReadAttempt \/ JudgeJobs
  \/ FetchSourceTag \/ FetchRecoveryTag \/ RequireAbsent \/ VerifyAttestation \/ PrepareRequest
  \/ RecheckObject("recovery", "recoveryObject") \/ RecheckCommit("recovery", "recoveryCommit")
  \/ RecheckObject("source", "sourceObject") \/ RecheckCommit("source", "sourceCommit")
  \/ CreateDraft(TRUE)

Blocked == at # 0 /\ ~ENABLED RecoveryStep
Fail == /\ at # 0 /\ at' = 0
        /\ \/ Blocked /\ UNCHANGED faults
           \/ faults < Faults /\ faults' = faults + 1
        /\ UNCHANGED <<sourceRun, tag, drafts, locals, late, lookups, changes>>
-----------------------------------------------------------------------------
(* Others. *)

Change == changes < Budget /\ changes' = changes + 1 /\ UNCHANGED <<at, locals, lookups, faults>>

\* All jobs again or the failed ones only; whether a listing then states the
\* attempt of a job carried over is left open.
RerunSource ==
  /\ Change /\ over /\ attempt < Attempts /\ attempt' = attempt + 1 /\ over' = FALSE
  /\ \E e \in BOOLEAN : exact' = [exact EXCEPT ![attempt + 1] = e]
  /\ UNCHANGED <<verdict, artifacts, tag, drafts, late>>

\* Retention ends, or a maintainer deletes it.
Expire(a) == /\ Change /\ a.live
             /\ artifacts' = (artifacts \ {a}) \cup {[a EXCEPT !.live = FALSE]}
             /\ UNCHANGED <<attempt, over, verdict, exact, tag, drafts, late>>

\* Another job of the source run overwrites it.
Overwrite(a) == /\ Change /\ ~over /\ a.live
                /\ artifacts' = (artifacts \ {a}) \cup {[a EXCEPT !.intact = FALSE]}
                /\ UNCHANGED <<attempt, over, verdict, exact, tag, drafts, late>>

MoveTag(t) == /\ Change /\ \E o \in (Objects \cup {None}) \ {tag[t]} : tag' = [tag EXCEPT ![t] = o]
              /\ late' = (IF t = "recovery" THEN {"object", "commit"} ELSE late)
              /\ UNCHANGED <<sourceRun, drafts>>

MakeRelease == /\ Change /\ Len(drafts) < 2
               /\ drafts' = Append(drafts, [by |-> "others", of |-> attempt, whole |-> TRUE, intact |-> TRUE,
                                            admittedAt |-> None, madeAt |-> tag["recovery"],
                                            unseen |-> {}, answered |-> FALSE])
               /\ UNCHANGED <<sourceRun, tag, late>>

DeleteRelease(i) ==
  /\ Change
  /\ drafts' = [j \in 1 .. Len(drafts) - 1 |-> IF j < i THEN drafts[j] ELSE drafts[j + 1]]
  /\ UNCHANGED <<sourceRun, tag, late>>

Next == \/ \E n \in Names : RetainInput(n)
        \/ \E v \in Verdicts \ {None} : Conclude(v)
        \/ Dispatch \/ RecoveryStep \/ LookupFails \/ CreateDraft(FALSE) \/ Fail
        \/ RerunSource \/ \E t \in DOMAIN tag : MoveTag(t)
        \/ \E a \in artifacts : Expire(a) \/ Overwrite(a)
        \/ MakeRelease \/ \E i \in DOMAIN drafts : DeleteRelease(i)

Spec == Init /\ [][Next]_vars
FairSpec == Spec /\ WF_vars(RecoveryStep \/ (Blocked /\ Fail))
-----------------------------------------------------------------------------
\* What a recovery publishes was attested, unchanged, by an attempt in which
\* draft-release alone failed: although the run is read, its artifacts are
\* downloaded by name and the run is read again, with reruns and overwritten
\* artifacts between any two of these, it is that attempt's bytes which passed.
RecoveredAsJudged ==
  \A i \in DOMAIN drafts : drafts[i].by = "recovery" =>
    drafts[i].intact /\ verdict[drafts[i].of] = "handoff"

\* "refuses to create the draft if either the object or its peeled commit
\* changes while the release is assembled": a draft stands at the object that
\* was admitted, and at the produced commit, unless the tag moved after the
\* object, or the commit, was read for the last time.
DraftAtAdmittedTag ==
  \A i \in DOMAIN drafts : drafts[i].by = "recovery" =>
    /\ "object" \notin drafts[i].unseen => drafts[i].madeAt = drafts[i].admittedAt
    /\ "commit" \notin drafts[i].unseen => Target(drafts[i].madeAt) = "produced"

\* However often a recovery is dispatched, fails half way or is run again, it
\* makes no draft beside that of an earlier recovery, partial ones included,
\* unless neither of its two lookups of the release was answered.
NoSecondDraftOnceAnswered ==
  \A i, j \in DOMAIN drafts :
    drafts[i].by = "recovery" /\ drafts[j].by = "recovery" /\ i < j => ~drafts[j].answered

\* A failed handoff whose inputs were retained is recovered: the recovery reads
\* nothing that it would have to have failed itself.
Recoverable ==
  /\ over /\ attempt = 1 /\ verdict[1] = "handoff" /\ drafts = <<>>
  /\ \A n \in Names : Live(n) # {}
QuietRecovers ==
  at = 1 /\ Recoverable ~> (changes + faults > 0 \/ \E i \in DOMAIN drafts : drafts[i].whole)
=============================================================================
