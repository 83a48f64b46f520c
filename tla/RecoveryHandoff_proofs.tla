------------------------- MODULE RecoveryHandoff_proofs -------------------------
(***************************************************************************)
(* Proofs about RecoveryHandoff, for any number of attempts of the source  *)
(* run, of changes by others and of failed recoveries.                     *)
(*                                                                         *)
(* The argument: an attempt that has ended keeps its verdict, so what was  *)
(* judged at one step still holds at every later one, whatever reruns      *)
(* come in between; the attestation then ties the bytes, downloaded by     *)
(* name before, to the judged attempt.  Tags and releases do change, and   *)
(* each is read again after the last step that could take long.            *)
(***************************************************************************)
EXTENDS RecoveryHandoff, TLAPS

\* An attempt has a verdict exactly when it is over, and then for good.
VerdictInv ==
  /\ over <=> verdict[attempt] # None
  /\ \A a \in 1 .. Attempts : a > attempt => verdict[a] = None

\* What the recovery has read so far.
ProgressInv ==
  /\ at > 3 => got["release"] \in Artifact
  /\ at > 4 => got["evidence"] \in Artifact
  /\ at > 5 => judged # 0
  /\ at > 6 => verdict[judged] = "handoff"
  /\ at > 10 => got["release"].intact /\ got["release"].of = judged

\* The tag objects it admitted, and the last look at the recovery tag.
TagInv ==
  /\ at > 7 => Target(admitted["source"]) = "produced"
  /\ at > 8 => Target(admitted["recovery"]) = "produced"
  /\ at > 12 => "object" \in late \/ tag["recovery"] = admitted["recovery"]
  /\ at > 13 => "commit" \in late \/ Target(tag["recovery"]) = Target(admitted["recovery"])

\* Releases of recoveries, and none of them once a lookup was answered.
DraftInv ==
  /\ RecoveredAsJudged /\ DraftAtAdmittedTag /\ NoSecondDraftOnceAnswered
  /\ \A i \in DOMAIN drafts : drafts[i].by = "recovery" => verdict[drafts[i].of] # None
  /\ at # 0 /\ answered => \A i \in DOMAIN drafts : drafts[i].by # "recovery"

Inv == TypeOK /\ VerdictInv /\ ProgressInv /\ TagInv /\ DraftInv
-----------------------------------------------------------------------------
\* The number of each named step.
LEMMA StepNumbers ==
  /\ Len(Steps) = 17
  /\ Steps[1] = "run" /\ Steps[2] = "count" /\ Steps[3] = "release" /\ Steps[4] = "evidence"
  /\ Steps[5] = "attempt" /\ Steps[6] = "jobs" /\ Steps[7] = "sourceTag"
  /\ Steps[8] = "recoveryTag" /\ Steps[9] = "absent" /\ Steps[10] = "attested"
  /\ Steps[11] = "request" /\ Steps[12] = "recoveryObject" /\ Steps[13] = "recoveryCommit"
  /\ Steps[14] = "sourceObject" /\ Steps[15] = "sourceCommit"
  /\ Steps[16] = "absent" /\ Steps[17] = "create"
BY DEF Steps

LEMMA StepIs ==
  ASSUME TypeOK
  PROVE  /\ Doing("run") => at = 1
         /\ Doing("count") => at = 2
         /\ Doing("release") => at = 3
         /\ Doing("evidence") => at = 4
         /\ Doing("attempt") => at = 5
         /\ Doing("jobs") => at = 6
         /\ Doing("sourceTag") => at = 7
         /\ Doing("recoveryTag") => at = 8
         /\ Doing("absent") => at = 9 \/ at = 16
         /\ Doing("attested") => at = 10
         /\ Doing("request") => at = 11
         /\ Doing("recoveryObject") => at = 12
         /\ Doing("recoveryCommit") => at = 13
         /\ Doing("sourceObject") => at = 14
         /\ Doing("sourceCommit") => at = 15
         /\ Doing("create") => at = 17
<1>1. at = 0 \/ at \in {1, 2, 3, 4, 5, 6} \/ at \in {7, 8, 9, 10, 11, 12} \/ at \in {13, 14, 15, 16, 17}
  <2>1. at \in 0 .. 17  BY StepNumbers DEF TypeOK
  <2> QED  BY <2>1
<1>2. CASE at = 0  BY <1>2 DEF Doing
<1>3. CASE at \in {1, 2, 3, 4, 5, 6}  BY <1>3, StepNumbers DEF Doing
<1>4. CASE at \in {7, 8, 9, 10, 11, 12}  BY <1>4, StepNumbers DEF Doing
<1>5. CASE at \in {13, 14, 15}  BY <1>5, StepNumbers DEF Doing
<1>6. CASE at \in {16, 17}  BY <1>6, StepNumbers DEF Doing
<1> QED  BY <1>1, <1>2, <1>3, <1>4, <1>5, <1>6

\* A step that leaves releases, verdicts and lookups alone.
LEMMA DraftFrame ==
  ASSUME DraftInv, drafts' = drafts, verdict' = verdict,
         at' = 0 \/ ~answered' \/ (at # 0 /\ answered)
  PROVE  DraftInv'
BY Zenon DEF DraftInv, RecoveredAsJudged, DraftAtAdmittedTag, NoSecondDraftOnceAnswered

LEMMA RetainInputStep == ASSUME Inv, NEW n \in Names, RetainInput(n) PROVE Inv'
<1> USE BoundAssumption DEF sourceRun, locals, lookups, Advance, Names
<1>1. TypeOK'
  <2>1. [name |-> n, of |-> attempt, object |-> tag["source"], intact |-> TRUE, live |-> TRUE] \in Artifact
    BY DEF Artifact, Inv, TypeOK
  <2>2. artifacts' \subseteq Artifact  BY <2>1 DEF RetainInput, Inv, TypeOK
  <2> QED  BY <2>2 DEF Inv, TypeOK, RetainInput
<1>2. VerdictInv'  BY DEF Inv, TypeOK, VerdictInv, RetainInput
<1>3. ProgressInv'  BY DEF Inv, ProgressInv, RetainInput
<1>4. TagInv'  BY DEF Inv, TypeOK, TagInv, RetainInput
<1>5. DraftInv'
  <2>1. drafts' = drafts /\ verdict' = verdict /\ (at' = 0 \/ ~answered' \/ (at # 0 /\ answered))  BY DEF RetainInput
  <2> QED  BY <2>1, DraftFrame DEF Inv
<1> QED  BY <1>1, <1>2, <1>3, <1>4, <1>5 DEF Inv

LEMMA ConcludeStep == ASSUME Inv, NEW v \in Verdicts \ {None}, Conclude(v) PROVE Inv'
<1> USE BoundAssumption DEF sourceRun, locals, lookups, Advance, Names
<1>1. TypeOK'  BY DEF Inv, TypeOK, Conclude
<1>2. VerdictInv'  BY DEF Inv, TypeOK, VerdictInv, Conclude
<1>3. ProgressInv'  BY DEF Inv, TypeOK, VerdictInv, ProgressInv, Conclude
<1>4. TagInv'  BY DEF Inv, TypeOK, TagInv, Conclude
<1>5. DraftInv'
  <2>1. /\ drafts' = drafts /\ at' = at /\ answered' = answered
        /\ \A a \in 1 .. Attempts : verdict[a] # None => verdict'[a] = verdict[a]
    BY DEF Conclude, Inv, TypeOK, VerdictInv
  <2>2. \A i \in DOMAIN drafts : drafts[i].of \in 1 .. Attempts
    <3>1. \A i \in DOMAIN drafts : drafts[i] \in Draft  BY DEF Inv, TypeOK
    <3>2. \A d \in Draft : d.of \in 1 .. Attempts  BY DEF Draft
    <3> QED  BY <3>1, <3>2
  <2> QED
    BY <2>1, <2>2, Zenon DEF Inv, DraftInv, RecoveredAsJudged, DraftAtAdmittedTag, NoSecondDraftOnceAnswered
<1> QED  BY <1>1, <1>2, <1>3, <1>4, <1>5 DEF Inv

LEMMA DispatchStep == ASSUME Inv, Dispatch PROVE Inv'
<1> USE BoundAssumption DEF sourceRun, locals, lookups, Advance, Names
<1>0. at' \in {0, 1}  BY DEF Dispatch
<1>1. TypeOK'
  <2>1. admitted' \in [{"source", "recovery"} -> Objects \cup {None}]
    BY DEF Dispatch, Inv, TypeOK
  <2>2. got' \in [Names -> Artifact \cup {None}]  BY DEF Dispatch
  <2>3. judged' = 0 /\ late' = {} /\ answered' = FALSE
        /\ UNCHANGED <<sourceRun, tag, drafts, changes, faults, outages>>
    BY DEF Dispatch
  <2>4. attempt' \in Nat /\ judged' \in 0 .. attempt' /\ at' \in 0 .. 17
    BY <1>0, <2>3 DEF Inv, TypeOK
  <2>5. /\ attempt' \in 1 .. Attempts /\ over' \in BOOLEAN /\ verdict' \in [1 .. Attempts -> Verdicts]
        /\ exact' \in [1 .. Attempts -> BOOLEAN] /\ artifacts' \subseteq Artifact
        /\ tag' \in [{"source", "recovery"} -> Objects \cup {None}] /\ drafts' \in Seq(Draft)
        /\ changes' \in 0 .. Budget /\ faults' \in 0 .. Faults /\ outages' \in 0 .. Outages
    BY <2>3 DEF Inv, TypeOK
  <2> QED  BY <2>1, <2>2, <2>3, <2>4, <2>5 DEF TypeOK
<1>2. VerdictInv'  BY <1>0 DEF Inv, TypeOK, VerdictInv, Dispatch
<1>3. ProgressInv'  BY <1>0 DEF ProgressInv
<1>4. TagInv'  BY <1>0 DEF Inv, TypeOK, TagInv, Dispatch
<1>5. DraftInv'
  <2>1. drafts' = drafts /\ verdict' = verdict /\ (at' = 0 \/ ~answered' \/ (at # 0 /\ answered))  BY <1>0 DEF Dispatch
  <2> QED  BY <2>1, DraftFrame DEF Inv
<1> QED  BY <1>1, <1>2, <1>3, <1>4, <1>5 DEF Inv

LEMMA ReadRunStep == ASSUME Inv, ReadRun PROVE Inv'
<1> USE BoundAssumption DEF sourceRun, locals, lookups, Advance, Names
<1>0. at = 1 /\ at' = 2
  <2>1. at = 1
    <3>1. TypeOK /\ Doing("run")  BY DEF ReadRun, Inv
    <3> QED  BY <3>1, StepIs, Zenon
  <2> QED  BY <2>1 DEF ReadRun
<1>1. TypeOK'  BY <1>0 DEF Inv, TypeOK, ReadRun
<1>2. VerdictInv'  BY <1>0 DEF Inv, TypeOK, VerdictInv, ReadRun
<1>3. ProgressInv'  BY <1>0 DEF ProgressInv
<1>4. TagInv'  BY <1>0 DEF Inv, TypeOK, TagInv, ReadRun
<1>5. DraftInv'
  <2>1. drafts' = drafts /\ verdict' = verdict /\ (at' = 0 \/ ~answered' \/ (at # 0 /\ answered))  BY <1>0 DEF ReadRun
  <2> QED  BY <2>1, DraftFrame DEF Inv
<1> QED  BY <1>1, <1>2, <1>3, <1>4, <1>5 DEF Inv

LEMMA CountArtifactsStep == ASSUME Inv, CountArtifacts PROVE Inv'
<1> USE BoundAssumption DEF sourceRun, locals, lookups, Advance, Names
<1>0. at = 2 /\ at' = 3
  <2>1. at = 2
    <3>1. TypeOK /\ Doing("count")  BY DEF CountArtifacts, Inv
    <3> QED  BY <3>1, StepIs, Zenon
  <2> QED  BY <2>1 DEF CountArtifacts
<1>1. TypeOK'  BY <1>0 DEF Inv, TypeOK, CountArtifacts
<1>2. VerdictInv'  BY <1>0 DEF Inv, TypeOK, VerdictInv, CountArtifacts
<1>3. ProgressInv'  BY <1>0 DEF ProgressInv
<1>4. TagInv'  BY <1>0 DEF Inv, TypeOK, TagInv, CountArtifacts
<1>5. DraftInv'
  <2>1. drafts' = drafts /\ verdict' = verdict /\ (at' = 0 \/ ~answered' \/ (at # 0 /\ answered))  BY <1>0 DEF CountArtifacts
  <2> QED  BY <2>1, DraftFrame DEF Inv
<1> QED  BY <1>1, <1>2, <1>3, <1>4, <1>5 DEF Inv

LEMMA DownloadStep == ASSUME Inv, NEW n \in Names, Download(n) PROVE Inv'
<1> USE BoundAssumption DEF sourceRun, locals, lookups, Advance, Names
<1>0. at' = at + 1 /\ ((n = "release" /\ at = 3) \/ (n = "evidence" /\ at = 4))
  <2>0. at' = at + 1 /\ Doing(n)  BY DEF Download
  <2>1. CASE n = "release"
    <3>1. TypeOK /\ Doing("release")  BY <2>0, <2>1 DEF Inv
    <3>2. at = 3  BY <3>1, StepIs, Zenon
    <3> QED  BY <2>0, <2>1, <3>2
  <2>2. CASE n = "evidence"
    <3>1. TypeOK /\ Doing("evidence")  BY <2>0, <2>2 DEF Inv
    <3>2. at = 4  BY <3>1, StepIs, Zenon
    <3> QED  BY <2>0, <2>2, <3>2
  <2> QED  BY <2>1, <2>2
<1>a. \E a \in Artifact : got' = [got EXCEPT ![n] = a]  BY DEF Download, Live, Inv, TypeOK
<1>1. TypeOK'  BY <1>0, <1>a DEF Inv, TypeOK, Download
<1>2. VerdictInv'  BY <1>0, <1>a DEF Inv, TypeOK, VerdictInv, Download
<1>3. ProgressInv'  BY <1>0, <1>a DEF Inv, TypeOK, ProgressInv
<1>4. TagInv'  BY <1>0, <1>a DEF Inv, TypeOK, TagInv, Download
<1>5. DraftInv'
  <2>1. drafts' = drafts /\ verdict' = verdict /\ (at' = 0 \/ ~answered' \/ (at # 0 /\ answered))  BY <1>0 DEF Download
  <2> QED  BY <2>1, DraftFrame DEF Inv
<1> QED  BY <1>1, <1>2, <1>3, <1>4, <1>5 DEF Inv

LEMMA ReadAttemptStep == ASSUME Inv, ReadAttempt PROVE Inv'
<1> USE BoundAssumption DEF sourceRun, locals, lookups, Advance, Names
<1>0. at = 5 /\ at' = 6
  <2>1. at = 5
    <3>1. TypeOK /\ Doing("attempt")  BY DEF ReadAttempt, Inv
    <3> QED  BY <3>1, StepIs, Zenon
  <2> QED  BY <2>1 DEF ReadAttempt
<1>1. TypeOK'  BY <1>0 DEF Inv, TypeOK, VerdictInv, ReadAttempt
<1>2. VerdictInv'  BY <1>0 DEF Inv, TypeOK, VerdictInv, ReadAttempt
<1>3. ProgressInv'  BY <1>0 DEF Inv, TypeOK, ProgressInv, ReadAttempt
<1>4. TagInv'  BY <1>0 DEF Inv, TypeOK, TagInv, ReadAttempt
<1>5. DraftInv'
  <2>1. drafts' = drafts /\ verdict' = verdict /\ (at' = 0 \/ ~answered' \/ (at # 0 /\ answered))  BY <1>0 DEF ReadAttempt
  <2> QED  BY <2>1, DraftFrame DEF Inv
<1> QED  BY <1>1, <1>2, <1>3, <1>4, <1>5 DEF Inv

LEMMA JudgeJobsStep == ASSUME Inv, JudgeJobs PROVE Inv'
<1> USE BoundAssumption DEF sourceRun, locals, lookups, Advance, Names
<1>0. at = 6 /\ at' = 7
  <2>1. at = 6
    <3>1. TypeOK /\ Doing("jobs")  BY DEF JudgeJobs, Inv
    <3> QED  BY <3>1, StepIs, Zenon
  <2> QED  BY <2>1 DEF JudgeJobs
<1>1. TypeOK'  BY <1>0 DEF Inv, TypeOK, JudgeJobs
<1>2. VerdictInv'  BY <1>0 DEF Inv, VerdictInv, JudgeJobs
<1>3. ProgressInv'  BY <1>0 DEF Inv, ProgressInv, JudgeJobs, HandoffFailed
<1>4. TagInv'  BY <1>0 DEF TagInv
<1>5. DraftInv'
  <2>1. drafts' = drafts /\ verdict' = verdict /\ (at' = 0 \/ ~answered' \/ (at # 0 /\ answered))  BY <1>0 DEF JudgeJobs, HandoffFailed
  <2> QED  BY <2>1, DraftFrame DEF Inv
<1> QED  BY <1>1, <1>2, <1>3, <1>4, <1>5 DEF Inv

LEMMA FetchSourceTagStep == ASSUME Inv, FetchSourceTag PROVE Inv'
<1> USE BoundAssumption DEF sourceRun, locals, lookups, Advance, Names
<1>0. at = 7 /\ at' = 8
  <2>1. at = 7
    <3>1. TypeOK /\ Doing("sourceTag")  BY DEF FetchSourceTag, Inv
    <3> QED  BY <3>1, StepIs, Zenon
  <2> QED  BY <2>1 DEF FetchSourceTag
<1>1. TypeOK'  BY <1>0 DEF Inv, TypeOK, FetchSourceTag
<1>2. VerdictInv'  BY <1>0 DEF Inv, TypeOK, VerdictInv, FetchSourceTag
<1>3. ProgressInv'  BY <1>0 DEF Inv, ProgressInv, FetchSourceTag
<1>4. TagInv'  BY <1>0 DEF Inv, TypeOK, TagInv, FetchSourceTag
<1>5. DraftInv'
  <2>1. drafts' = drafts /\ verdict' = verdict /\ (at' = 0 \/ ~answered' \/ (at # 0 /\ answered))  BY <1>0 DEF FetchSourceTag
  <2> QED  BY <2>1, DraftFrame DEF Inv
<1> QED  BY <1>1, <1>2, <1>3, <1>4, <1>5 DEF Inv

LEMMA FetchRecoveryTagStep == ASSUME Inv, FetchRecoveryTag PROVE Inv'
<1> USE BoundAssumption DEF sourceRun, locals, lookups, Advance, Names
<1>0. at = 8 /\ at' = 9
  <2>1. at = 8
    <3>1. TypeOK /\ Doing("recoveryTag")  BY DEF FetchRecoveryTag, Inv
    <3> QED  BY <3>1, StepIs, Zenon
  <2> QED  BY <2>1 DEF FetchRecoveryTag
<1>1. TypeOK'  BY <1>0 DEF Inv, TypeOK, FetchRecoveryTag
<1>2. VerdictInv'  BY <1>0 DEF Inv, TypeOK, VerdictInv, FetchRecoveryTag
<1>3. ProgressInv'  BY <1>0 DEF Inv, ProgressInv, FetchRecoveryTag
<1>4. TagInv'  BY <1>0 DEF Inv, TypeOK, TagInv, FetchRecoveryTag
<1>5. DraftInv'
  <2>1. drafts' = drafts /\ verdict' = verdict /\ (at' = 0 \/ ~answered' \/ (at # 0 /\ answered))  BY <1>0 DEF FetchRecoveryTag
  <2> QED  BY <2>1, DraftFrame DEF Inv
<1> QED  BY <1>1, <1>2, <1>3, <1>4, <1>5 DEF Inv

LEMMA RequireAbsentStep == ASSUME Inv, RequireAbsent PROVE Inv'
<1> USE BoundAssumption DEF sourceRun, locals, lookups, Advance, Names
<1>0. at' = at + 1 /\ (at = 9 \/ at = 16)
  <2>1. TypeOK /\ Doing("absent")  BY DEF RequireAbsent, Inv
  <2>2. at = 9 \/ at = 16  BY <2>1, StepIs, Zenon
  <2> QED  BY <2>2 DEF RequireAbsent
<1>1. TypeOK'  BY <1>0 DEF Inv, TypeOK, RequireAbsent
<1>2. VerdictInv'  BY <1>0 DEF Inv, VerdictInv, RequireAbsent
<1>3. ProgressInv'  BY <1>0 DEF Inv, ProgressInv, RequireAbsent
<1>4. TagInv'  BY <1>0 DEF Inv, TagInv, RequireAbsent
<1>5. DraftInv'
  <2>1. drafts' = drafts /\ drafts = <<>> /\ DOMAIN drafts = {}  BY DEF RequireAbsent, NoRelease
  <2> QED  BY <2>1, Zenon DEF DraftInv, RecoveredAsJudged, DraftAtAdmittedTag, NoSecondDraftOnceAnswered
<1> QED  BY <1>1, <1>2, <1>3, <1>4, <1>5 DEF Inv

LEMMA LookupFailsStep == ASSUME Inv, LookupFails PROVE Inv'
<1> USE BoundAssumption DEF sourceRun, locals, lookups, Advance, Names
<1>0. at' = at + 1 /\ (at = 9 \/ at = 16)
  <2>1. TypeOK /\ Doing("absent")  BY DEF LookupFails, Inv
  <2>2. at = 9 \/ at = 16  BY <2>1, StepIs, Zenon
  <2> QED  BY <2>2 DEF LookupFails
<1>1. TypeOK'  BY <1>0 DEF Inv, TypeOK, LookupFails
<1>2. VerdictInv'  BY <1>0 DEF Inv, VerdictInv, LookupFails
<1>3. ProgressInv'  BY <1>0 DEF Inv, ProgressInv, LookupFails
<1>4. TagInv'  BY <1>0 DEF Inv, TagInv, LookupFails
<1>5. DraftInv'
  <2>1. drafts' = drafts /\ verdict' = verdict /\ (at' = 0 \/ ~answered' \/ (at # 0 /\ answered))
    BY <1>0 DEF LookupFails
  <2> QED  BY <2>1, DraftFrame DEF Inv
<1> QED  BY <1>1, <1>2, <1>3, <1>4, <1>5 DEF Inv

LEMMA VerifyAttestationStep == ASSUME Inv, VerifyAttestation PROVE Inv'
<1> USE BoundAssumption DEF sourceRun, locals, lookups, Advance, Names
<1>0. at = 10 /\ at' = 11
  <2>1. at = 10
    <3>1. TypeOK /\ Doing("attested")  BY DEF VerifyAttestation, Inv
    <3> QED  BY <3>1, StepIs, Zenon
  <2> QED  BY <2>1 DEF VerifyAttestation
<1>1. TypeOK'  BY <1>0 DEF Inv, TypeOK, VerifyAttestation
<1>2. VerdictInv'  BY <1>0 DEF Inv, VerdictInv, VerifyAttestation
<1>3. ProgressInv'  BY <1>0 DEF Inv, ProgressInv, VerifyAttestation, SignedBy
<1>4. TagInv'  BY <1>0 DEF Inv, TagInv, VerifyAttestation
<1>5. DraftInv'
  <2>1. drafts' = drafts /\ verdict' = verdict /\ (at' = 0 \/ ~answered' \/ (at # 0 /\ answered))  BY <1>0 DEF VerifyAttestation, SignedBy
  <2> QED  BY <2>1, DraftFrame DEF Inv
<1> QED  BY <1>1, <1>2, <1>3, <1>4, <1>5 DEF Inv

LEMMA PrepareRequestStep == ASSUME Inv, PrepareRequest PROVE Inv'
<1> USE BoundAssumption DEF sourceRun, locals, lookups, Advance, Names
<1>0. at = 11 /\ at' = 12
  <2>1. at = 11
    <3>1. TypeOK /\ Doing("request")  BY DEF PrepareRequest, Inv
    <3> QED  BY <3>1, StepIs, Zenon
  <2> QED  BY <2>1 DEF PrepareRequest
<1>1. TypeOK'  BY <1>0 DEF Inv, TypeOK, PrepareRequest
<1>2. VerdictInv'  BY <1>0 DEF Inv, TypeOK, VerdictInv, PrepareRequest
<1>3. ProgressInv'  BY <1>0 DEF Inv, ProgressInv, PrepareRequest
<1>4. TagInv'  BY <1>0 DEF Inv, TypeOK, TagInv, PrepareRequest
<1>5. DraftInv'
  <2>1. drafts' = drafts /\ verdict' = verdict /\ (at' = 0 \/ ~answered' \/ (at # 0 /\ answered))  BY <1>0 DEF PrepareRequest
  <2> QED  BY <2>1, DraftFrame DEF Inv
<1> QED  BY <1>1, <1>2, <1>3, <1>4, <1>5 DEF Inv

LEMMA CreateDraftStep == ASSUME Inv, NEW whole \in BOOLEAN, CreateDraft(whole) PROVE Inv'
<1> USE BoundAssumption DEF sourceRun, locals, lookups, Advance, Names
<1>0. at = 17 /\ at' = 0
  <2>1. TypeOK /\ Doing("create")  BY DEF CreateDraft, Inv
  <2>2. at = 17  BY <2>1, StepIs, Zenon
  <2> QED  BY <2>2 DEF CreateDraft
<1> DEFINE new == [by |-> "recovery", of |-> got["release"].of, whole |-> whole,
                   intact |-> got["release"].intact, admittedAt |-> admitted["recovery"],
                   madeAt |-> tag["recovery"], unseen |-> late, answered |-> answered]
<1>a. drafts' = Append(drafts, new) /\ verdict' = verdict  BY DEF CreateDraft
<1>b. /\ new \in Draft /\ new.intact /\ verdict[new.of] = "handoff" /\ verdict[new.of] # None
      /\ "object" \notin new.unseen => new.madeAt = new.admittedAt
      /\ "commit" \notin new.unseen => Target(new.madeAt) = "produced"
      /\ new.answered = answered
  <2>1. /\ got["release"] \in Artifact /\ got["release"].intact /\ got["release"].of = judged
        /\ verdict[judged] = "handoff" /\ verdict[judged] # None
    BY <1>0 DEF Inv, ProgressInv, TypeOK
  <2>2. /\ "object" \notin late => tag["recovery"] = admitted["recovery"]
        /\ "commit" \notin late => Target(tag["recovery"]) = "produced"
    BY <1>0 DEF Inv, TagInv
  <2>3. new \in Draft
    BY <2>1 DEF Draft, Artifact, Inv, TypeOK
  <2> QED  BY <2>1, <2>2, <2>3
<1> HIDE DEF new
<1>1. TypeOK'
  <2>1. drafts' \in Seq(Draft)  BY <1>a, <1>b DEF Inv, TypeOK
  <2> QED  BY <1>0, <2>1 DEF Inv, TypeOK, CreateDraft
<1>2. VerdictInv'  BY DEF Inv, VerdictInv, CreateDraft
<1>3. ProgressInv'  BY <1>0 DEF ProgressInv
<1>4. TagInv'  BY <1>0 DEF TagInv
<1>5. DraftInv'
  <2>1. \A i \in DOMAIN drafts' : \/ i \in DOMAIN drafts /\ i \in 1 .. Len(drafts) /\ drafts'[i] = drafts[i]
                                  \/ i = Len(drafts) + 1 /\ drafts'[i] = new
    BY <1>a DEF Inv, TypeOK
  <2>2. DraftInv  BY DEF Inv
  <2>3. RecoveredAsJudged'  BY <1>a, <1>b, <2>1, <2>2 DEF RecoveredAsJudged, DraftInv
  <2>4. DraftAtAdmittedTag'  BY <1>a, <1>b, <2>1, <2>2 DEF DraftAtAdmittedTag, DraftInv
  <2>5. NoSecondDraftOnceAnswered'
    <3>1. SUFFICES ASSUME NEW i \in DOMAIN drafts', NEW j \in DOMAIN drafts', i < j,
                          drafts'[i].by = "recovery", drafts'[j].by = "recovery"
                   PROVE  ~drafts'[j].answered
      BY DEF NoSecondDraftOnceAnswered
    <3>2. i \in DOMAIN drafts /\ drafts'[i] = drafts[i]
      <4>1. DOMAIN drafts' = 1 .. Len(drafts) + 1  BY <1>a DEF Inv, TypeOK
      <4>2. Len(drafts) \in Nat  BY DEF Inv, TypeOK
      <4>3. i # Len(drafts) + 1  BY <3>1, <4>1, <4>2
      <4> QED  BY <2>1, <4>3
    <3>3. CASE drafts'[j] = new  BY <1>0, <1>b, <2>2, <3>1, <3>2, <3>3 DEF DraftInv
    <3>4. CASE j \in DOMAIN drafts /\ drafts'[j] = drafts[j]
      BY <2>2, <3>1, <3>2, <3>4 DEF DraftInv, NoSecondDraftOnceAnswered
    <3> QED  BY <2>1, <3>3, <3>4
  <2>6. \A i \in DOMAIN drafts' : drafts'[i].by = "recovery" => verdict'[drafts'[i].of] # None
    BY <1>a, <1>b, <2>1, <2>2 DEF DraftInv
  <2> QED  BY <1>0, <2>3, <2>4, <2>5, <2>6 DEF DraftInv
<1> QED  BY <1>1, <1>2, <1>3, <1>4, <1>5 DEF Inv

LEMMA FailStep == ASSUME Inv, Fail PROVE Inv'
<1> USE BoundAssumption DEF sourceRun, locals, lookups, Advance, Names
<1>0. at' \in {0, 1}  BY DEF Fail
<1>1. TypeOK'  BY <1>0 DEF Inv, TypeOK, Fail
<1>2. VerdictInv'  BY <1>0 DEF Inv, TypeOK, VerdictInv, Fail
<1>3. ProgressInv'  BY <1>0 DEF ProgressInv
<1>4. TagInv'  BY <1>0 DEF Inv, TypeOK, TagInv, Fail
<1>5. DraftInv'
  <2>1. drafts' = drafts /\ verdict' = verdict /\ (at' = 0 \/ ~answered' \/ (at # 0 /\ answered))  BY <1>0 DEF Fail
  <2> QED  BY <2>1, DraftFrame DEF Inv
<1> QED  BY <1>1, <1>2, <1>3, <1>4, <1>5 DEF Inv

LEMMA RerunSourceStep == ASSUME Inv, RerunSource PROVE Inv'
<1> USE BoundAssumption DEF sourceRun, locals, lookups, Advance, Names
<1>1. TypeOK'
  <2>1. attempt < Attempts /\ attempt' = attempt + 1 /\ over' = FALSE  BY DEF RerunSource
  <2>2. exact' \in [1 .. Attempts -> BOOLEAN]
    <3>1. PICK e \in BOOLEAN : exact' = [exact EXCEPT ![attempt + 1] = e]  BY DEF RerunSource
    <3> QED  BY <3>1 DEF Inv, TypeOK
  <2>3. changes' \in 0 .. Budget  BY DEF RerunSource, Change, Inv, TypeOK
  <2>4. UNCHANGED <<verdict, artifacts, tag, drafts, at, judged, got, admitted, late, answered, faults, outages>>
    BY DEF RerunSource, Change
  <2>5. attempt' \in 1 .. Attempts /\ judged' \in 0 .. attempt'  BY <2>1, <2>4 DEF Inv, TypeOK
  <2> QED  BY <2>1, <2>2, <2>3, <2>4, <2>5, Zenon DEF Inv, TypeOK
<1>2. VerdictInv'  BY DEF Inv, TypeOK, VerdictInv, RerunSource
<1>3. ProgressInv'  BY DEF Inv, ProgressInv, RerunSource, Change
<1>4. TagInv'  BY DEF Inv, TagInv, RerunSource, Change
<1>5. DraftInv'
  <2>1. drafts' = drafts /\ verdict' = verdict /\ (at' = 0 \/ ~answered' \/ (at # 0 /\ answered))  BY DEF RerunSource, Change
  <2> QED  BY <2>1, DraftFrame DEF Inv
<1> QED  BY <1>1, <1>2, <1>3, <1>4, <1>5 DEF Inv

LEMMA ExpireStep == ASSUME Inv, NEW a \in artifacts, Expire(a) PROVE Inv'
<1> USE BoundAssumption DEF sourceRun, locals, lookups, Advance, Names
<1>1. TypeOK'
  <2>1. [a EXCEPT !.live = FALSE] \in Artifact
    <3>1. a \in Artifact  BY DEF Inv, TypeOK
    <3> QED  BY <3>1 DEF Artifact
  <2>2. artifacts' \subseteq Artifact  BY <2>1 DEF Expire, Inv, TypeOK
  <2> QED  BY <2>2 DEF Inv, TypeOK, Expire, Change
<1>2. VerdictInv'  BY DEF Inv, VerdictInv, Expire
<1>3. ProgressInv'  BY DEF Inv, ProgressInv, Expire, Change
<1>4. TagInv'  BY DEF Inv, TagInv, Expire, Change
<1>5. DraftInv'
  <2>1. drafts' = drafts /\ verdict' = verdict /\ (at' = 0 \/ ~answered' \/ (at # 0 /\ answered))  BY DEF Expire, Change
  <2> QED  BY <2>1, DraftFrame DEF Inv
<1> QED  BY <1>1, <1>2, <1>3, <1>4, <1>5 DEF Inv

LEMMA OverwriteStep == ASSUME Inv, NEW a \in artifacts, Overwrite(a) PROVE Inv'
<1> USE BoundAssumption DEF sourceRun, locals, lookups, Advance, Names
<1>1. TypeOK'
  <2>1. [a EXCEPT !.intact = FALSE] \in Artifact
    <3>1. a \in Artifact  BY DEF Inv, TypeOK
    <3> QED  BY <3>1 DEF Artifact
  <2>2. artifacts' \subseteq Artifact  BY <2>1 DEF Overwrite, Inv, TypeOK
  <2> QED  BY <2>2 DEF Inv, TypeOK, Overwrite, Change
<1>2. VerdictInv'  BY DEF Inv, VerdictInv, Overwrite
<1>3. ProgressInv'  BY DEF Inv, ProgressInv, Overwrite, Change
<1>4. TagInv'  BY DEF Inv, TagInv, Overwrite, Change
<1>5. DraftInv'
  <2>1. drafts' = drafts /\ verdict' = verdict /\ (at' = 0 \/ ~answered' \/ (at # 0 /\ answered))  BY DEF Overwrite, Change
  <2> QED  BY <2>1, DraftFrame DEF Inv
<1> QED  BY <1>1, <1>2, <1>3, <1>4, <1>5 DEF Inv

LEMMA MoveTagStep == ASSUME Inv, NEW t \in {"source", "recovery"}, MoveTag(t) PROVE Inv'
<1> USE BoundAssumption DEF sourceRun, locals, lookups, Advance, Names
<1>1. TypeOK'  BY DEF Inv, TypeOK, MoveTag, Change
<1>2. VerdictInv'  BY DEF Inv, VerdictInv, MoveTag
<1>3. ProgressInv'  BY DEF Inv, ProgressInv, MoveTag, Change
<1>4. TagInv'  BY DEF Inv, TypeOK, TagInv, MoveTag, Change
<1>5. DraftInv'
  <2>1. drafts' = drafts /\ verdict' = verdict /\ (at' = 0 \/ ~answered' \/ (at # 0 /\ answered))  BY DEF MoveTag, Change
  <2> QED  BY <2>1, DraftFrame DEF Inv
<1> QED  BY <1>1, <1>2, <1>3, <1>4, <1>5 DEF Inv

LEMMA MakeReleaseStep == ASSUME Inv, MakeRelease PROVE Inv'
<1> USE BoundAssumption DEF sourceRun, locals, lookups, Advance, Names
<1> DEFINE new == [by |-> "others", of |-> attempt, whole |-> TRUE, intact |-> TRUE,
                   admittedAt |-> None, madeAt |-> tag["recovery"], unseen |-> {}, answered |-> FALSE]
<1>a. drafts' = Append(drafts, new) /\ verdict' = verdict /\ at' = at /\ answered' = answered
  BY DEF MakeRelease, Change
<1>b. new \in Draft /\ new.by # "recovery"  BY DEF Draft, Inv, TypeOK
<1> HIDE DEF new
<1>1. TypeOK'
  <2>1. drafts' \in Seq(Draft)  BY <1>a, <1>b DEF Inv, TypeOK
  <2> QED  BY <2>1 DEF Inv, TypeOK, MakeRelease, Change
<1>2. VerdictInv'  BY DEF Inv, VerdictInv, MakeRelease
<1>3. ProgressInv'  BY DEF Inv, ProgressInv, MakeRelease, Change
<1>4. TagInv'  BY DEF Inv, TagInv, MakeRelease, Change
<1>5. DraftInv'
  <2>1. \A i \in DOMAIN drafts' : \/ i \in DOMAIN drafts /\ drafts'[i] = drafts[i]
                                  \/ drafts'[i] = new
    BY <1>a DEF Inv, TypeOK
  <2>2. \A i \in DOMAIN drafts' : drafts'[i].by = "recovery" => i \in DOMAIN drafts /\ drafts'[i] = drafts[i]
    BY <1>b, <2>1
  <2>3. RecoveredAsJudged'  BY <1>a, <2>2 DEF RecoveredAsJudged, Inv, DraftInv
  <2>4. DraftAtAdmittedTag'  BY <1>a, <2>2 DEF DraftAtAdmittedTag, Inv, DraftInv
  <2>5. NoSecondDraftOnceAnswered'  BY <2>2 DEF NoSecondDraftOnceAnswered, Inv, DraftInv
  <2>6. /\ \A i \in DOMAIN drafts' : drafts'[i].by = "recovery" => verdict'[drafts'[i].of] # None
        /\ at' # 0 /\ answered' => \A i \in DOMAIN drafts' : drafts'[i].by # "recovery"
    BY <1>a, <2>2 DEF Inv, DraftInv
  <2> QED  BY <2>3, <2>4, <2>5, <2>6 DEF DraftInv
<1> QED  BY <1>1, <1>2, <1>3, <1>4, <1>5 DEF Inv

LEMMA DeleteReleaseStep == ASSUME Inv, NEW i \in DOMAIN drafts, DeleteRelease(i) PROVE Inv'
<1> USE BoundAssumption DEF sourceRun, locals, lookups, Advance, Names
<1>a. verdict' = verdict /\ at' = at /\ answered' = answered  BY DEF DeleteRelease, Change
<1>b. /\ drafts' \in Seq(Draft)
      /\ \A j \in DOMAIN drafts' : \/ j < i /\ j \in DOMAIN drafts /\ drafts'[j] = drafts[j]
                                   \/ j >= i /\ j + 1 \in DOMAIN drafts /\ drafts'[j] = drafts[j + 1]
  <2>1. drafts \in Seq(Draft) /\ i \in 1 .. Len(drafts)  BY DEF Inv, TypeOK
  <2>2. drafts' = [j \in 1 .. Len(drafts) - 1 |-> IF j < i THEN drafts[j] ELSE drafts[j + 1]]
    BY DEF DeleteRelease
  <2>3. \A j \in 1 .. Len(drafts) - 1 : (IF j < i THEN drafts[j] ELSE drafts[j + 1]) \in Draft
    BY <2>1
  <2>4. Len(drafts) - 1 \in Nat  BY <2>1
  <2> QED  BY <2>1, <2>2, <2>3, <2>4
<1>1. TypeOK'  BY <1>b DEF Inv, TypeOK, DeleteRelease, Change
<1>2. VerdictInv'  BY DEF Inv, VerdictInv, DeleteRelease
<1>3. ProgressInv'  BY DEF Inv, ProgressInv, DeleteRelease, Change
<1>4. TagInv'  BY DEF Inv, TagInv, DeleteRelease, Change
<1>5. DraftInv'
  <2>1. RecoveredAsJudged'  BY <1>a, <1>b DEF Inv, DraftInv, RecoveredAsJudged
  <2>2. DraftAtAdmittedTag'  BY <1>a, <1>b DEF Inv, DraftInv, DraftAtAdmittedTag
  <2>3. NoSecondDraftOnceAnswered'
    <3>1. SUFFICES ASSUME NEW j \in DOMAIN drafts', NEW k \in DOMAIN drafts', j < k,
                          drafts'[j].by = "recovery", drafts'[k].by = "recovery"
                   PROVE  ~drafts'[k].answered
      BY DEF NoSecondDraftOnceAnswered
    <3>2. DOMAIN drafts' \subseteq Int /\ i \in Int  BY <1>b DEF Inv, TypeOK
    <3>3. \A m \in DOMAIN drafts, n \in DOMAIN drafts :
            drafts[m].by = "recovery" /\ drafts[n].by = "recovery" /\ m < n => ~drafts[n].answered
      BY DEF Inv, DraftInv, NoSecondDraftOnceAnswered
    <3> QED  BY <1>b, <3>1, <3>2, <3>3
  <2>4. /\ \A j \in DOMAIN drafts' : drafts'[j].by = "recovery" => verdict'[drafts'[j].of] # None
        /\ at' # 0 /\ answered' => \A j \in DOMAIN drafts' : drafts'[j].by # "recovery"
    BY <1>a, <1>b, Zenon DEF Inv, DraftInv
  <2> QED  BY <2>1, <2>2, <2>3, <2>4 DEF DraftInv
<1> QED  BY <1>1, <1>2, <1>3, <1>4, <1>5 DEF Inv

LEMMA RecheckObjectStep ==
  ASSUME Inv, NEW t \in {"source", "recovery"}, NEW step, RecheckObject(t, step),
         (t = "recovery" /\ step = "recoveryObject") \/ (t = "source" /\ step = "sourceObject")
  PROVE  Inv'
<1> USE BoundAssumption DEF sourceRun, locals, lookups, Advance, Recheck
<1>0. at' = at + 1 /\ ((t = "recovery" /\ at = 12) \/ (t = "source" /\ at = 14))
  <2>1. CASE t = "recovery"
    <3>1. TypeOK /\ Doing("recoveryObject")  BY <2>1 DEF RecheckObject, Inv
    <3>2. at = 12  BY <3>1, StepIs, Zenon
    <3> QED  BY <2>1, <3>2 DEF RecheckObject
  <2>2. CASE t = "source"
    <3>1. TypeOK /\ Doing("sourceObject")  BY <2>2 DEF RecheckObject, Inv
    <3>2. at = 14  BY <3>1, StepIs, Zenon
    <3> QED  BY <2>2, <3>2 DEF RecheckObject
  <2> QED  BY <2>1, <2>2
<1>1. TypeOK'  BY <1>0 DEF Inv, TypeOK, RecheckObject
<1>2. VerdictInv'  BY <1>0 DEF Inv, VerdictInv, RecheckObject
<1>3. ProgressInv'  BY <1>0 DEF Inv, ProgressInv, RecheckObject
<1>4. TagInv'  BY <1>0 DEF Inv, TypeOK, TagInv, RecheckObject, HeldObject
<1>5. DraftInv'
  <2>1. drafts' = drafts /\ verdict' = verdict /\ (at' = 0 \/ ~answered' \/ (at # 0 /\ answered))
    BY <1>0 DEF RecheckObject
  <2> QED  BY <2>1, DraftFrame DEF Inv
<1> QED  BY <1>1, <1>2, <1>3, <1>4, <1>5 DEF Inv

LEMMA RecheckCommitStep ==
  ASSUME Inv, NEW t \in {"source", "recovery"}, NEW step, RecheckCommit(t, step),
         (t = "recovery" /\ step = "recoveryCommit") \/ (t = "source" /\ step = "sourceCommit")
  PROVE  Inv'
<1> USE BoundAssumption DEF sourceRun, locals, lookups, Advance, Recheck
<1>0. at' = at + 1 /\ ((t = "recovery" /\ at = 13) \/ (t = "source" /\ at = 15))
  <2>1. CASE t = "recovery"
    <3>1. TypeOK /\ Doing("recoveryCommit")  BY <2>1 DEF RecheckCommit, Inv
    <3>2. at = 13  BY <3>1, StepIs, Zenon
    <3> QED  BY <2>1, <3>2 DEF RecheckCommit
  <2>2. CASE t = "source"
    <3>1. TypeOK /\ Doing("sourceCommit")  BY <2>2 DEF RecheckCommit, Inv
    <3>2. at = 15  BY <3>1, StepIs
    <3> QED  BY <2>2, <3>2 DEF RecheckCommit
  <2> QED  BY <2>1, <2>2
<1>1. TypeOK'  BY <1>0 DEF Inv, TypeOK, RecheckCommit
<1>2. VerdictInv'  BY <1>0 DEF Inv, VerdictInv, RecheckCommit
<1>3. ProgressInv'  BY <1>0 DEF Inv, ProgressInv, RecheckCommit
<1>4. TagInv'  BY <1>0 DEF Inv, TypeOK, TagInv, RecheckCommit, HeldCommit
<1>5. DraftInv'
  <2>1. drafts' = drafts /\ verdict' = verdict /\ (at' = 0 \/ ~answered' \/ (at # 0 /\ answered))
    BY <1>0 DEF RecheckCommit
  <2> QED  BY <2>1, DraftFrame DEF Inv
<1> QED  BY <1>1, <1>2, <1>3, <1>4, <1>5 DEF Inv

-----------------------------------------------------------------------------
\* The inductive invariant.
THEOREM Inductive == Spec => []Inv
<1>1. ASSUME Init PROVE Inv
  <2>1. TypeOK
    <3>1. drafts \in Seq(Draft)  BY <1>1 DEF Init
    <3>2. verdict \in [1 .. Attempts -> Verdicts] /\ exact \in [1 .. Attempts -> BOOLEAN]
      BY <1>1 DEF Init, Verdicts
    <3>3. /\ tag \in [{"source", "recovery"} -> Objects \cup {None}]
          /\ admitted \in [{"source", "recovery"} -> Objects \cup {None}]
          /\ got \in [Names -> Artifact \cup {None}] /\ artifacts \subseteq Artifact
      BY <1>1 DEF Init, Objects
    <3>4. /\ attempt \in 1 .. Attempts /\ at \in 0 .. 17 /\ judged \in 0 .. attempt
          /\ changes \in 0 .. Budget /\ faults \in 0 .. Faults /\ outages \in 0 .. Outages /\ judged = 0
      <4>1. attempt = 1 /\ at = 0 /\ judged = 0 /\ changes = 0 /\ faults = 0 /\ outages = 0
        BY <1>1 DEF Init
      <4> QED  BY <4>1, BoundAssumption
    <3>5. over \in BOOLEAN /\ late \subseteq {"object", "commit"} /\ answered \in BOOLEAN  BY <1>1 DEF Init
    <3> QED  BY <3>1, <3>2, <3>3, <3>4, <3>5 DEF TypeOK
  <2>2. VerdictInv  BY <1>1, BoundAssumption DEF Init, VerdictInv
  <2>3. ProgressInv /\ TagInv  BY <1>1 DEF Init, ProgressInv, TagInv
  <2>4. DraftInv
    <3>1. DOMAIN drafts = {} /\ at = 0  BY <1>1 DEF Init
    <3> QED  BY <3>1, Zenon DEF DraftInv, RecoveredAsJudged, DraftAtAdmittedTag, NoSecondDraftOnceAnswered
  <2> QED  BY <2>1, <2>2, <2>3, <2>4 DEF Inv
<1>2. ASSUME Inv, [Next]_vars PROVE Inv'
  <2>1. CASE RecoveryStep
    <3>1. CASE RecheckObject("recovery", "recoveryObject") \/ RecheckObject("source", "sourceObject")
      BY <1>2, <3>1, RecheckObjectStep
    <3>2. CASE RecheckCommit("recovery", "recoveryCommit") \/ RecheckCommit("source", "sourceCommit")
      BY <1>2, <3>2, RecheckCommitStep
    <3>3. CASE CreateDraft(TRUE)  BY <1>2, <3>3, CreateDraftStep
    <3> QED
      BY <1>2, <2>1, <3>1, <3>2, <3>3, ReadRunStep, CountArtifactsStep, DownloadStep, ReadAttemptStep,
         JudgeJobsStep, FetchSourceTagStep, FetchRecoveryTagStep, RequireAbsentStep,
         VerifyAttestationStep, PrepareRequestStep DEF RecoveryStep
  <2>2. CASE Dispatch \/ LookupFails \/ Fail \/ RerunSource \/ MakeRelease
    BY <1>2, <2>2, DispatchStep, LookupFailsStep, FailStep, RerunSourceStep, MakeReleaseStep
  <2>3. CASE CreateDraft(FALSE)  BY <1>2, <2>3, CreateDraftStep
  <2>4. CASE \E n \in Names : RetainInput(n)  BY <1>2, <2>4, RetainInputStep
  <2>5. CASE \E v \in Verdicts \ {None} : Conclude(v)  BY <1>2, <2>5, ConcludeStep
  <2>6. CASE \E t \in DOMAIN tag : MoveTag(t)
    <3>1. DOMAIN tag = {"source", "recovery"}  BY <1>2 DEF Inv, TypeOK
    <3> QED  BY <1>2, <2>6, <3>1, MoveTagStep
  <2>7. CASE \E a \in artifacts : Expire(a) \/ Overwrite(a)  BY <1>2, <2>7, ExpireStep, OverwriteStep
  <2>8. CASE \E i \in DOMAIN drafts : DeleteRelease(i)  BY <1>2, <2>8, DeleteReleaseStep
  <2>9. CASE UNCHANGED vars
    <3>1. DraftInv'  BY <1>2, <2>9, DraftFrame DEF vars, sourceRun, lookups, Inv
    <3>2. TypeOK' /\ VerdictInv'
      BY <1>2, <2>9 DEF vars, sourceRun, locals, lookups, Inv, TypeOK, VerdictInv
    <3>3. ProgressInv' /\ TagInv'
      BY <1>2, <2>9 DEF vars, sourceRun, locals, lookups, Inv, ProgressInv, TagInv
    <3> QED  BY <3>1, <3>2, <3>3 DEF Inv
  <2> QED  BY <1>2, <2>1, <2>2, <2>3, <2>4, <2>5, <2>6, <2>7, <2>8, <2>9 DEF Next
<1> QED  BY <1>1, <1>2, PTL DEF Spec

\* The state is well typed, and a recovery has judged only attempts that ended.
THEOREM Typing == Spec => []TypeOK
<1>1. Inv => TypeOK  BY DEF Inv
<1> QED  BY <1>1, Inductive, PTL

\* What is published passed in the judged attempt.
THEOREM Judgement == Spec => []RecoveredAsJudged
<1>1. Inv => RecoveredAsJudged  BY DEF Inv, DraftInv
<1> QED  BY <1>1, Inductive, PTL

\* A draft stands at the tag object that was admitted.
THEOREM TagHeld == Spec => []DraftAtAdmittedTag
<1>1. Inv => DraftAtAdmittedTag  BY DEF Inv, DraftInv
<1> QED  BY <1>1, Inductive, PTL

\* A recovery with an answered lookup makes no draft beside an earlier one.
THEOREM NoSecondDraft == Spec => []NoSecondDraftOnceAnswered
<1>1. Inv => NoSecondDraftOnceAnswered  BY DEF Inv, DraftInv
<1> QED  BY <1>1, Inductive, PTL
=============================================================================
