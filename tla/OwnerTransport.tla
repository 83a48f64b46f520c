---------------------------- MODULE OwnerTransport ----------------------------
(***************************************************************************)
(* How the bytes of one owner job reach a reader job: the composite action *)
(* build-native-lane-v2 uploads a payload, records and signs its origin in *)
(* the still running job and uploads that proof; a reader later selects    *)
(* both artifacts by name, authenticates them with verify-source and, once *)
(* it has every lane of the matrix, installs its fragment.                 *)
(*                                                                         *)
(* Around them: attempts of one workflow run (all jobs again, or only the  *)
(* failed ones), readers of the same attempt and of another run, artifacts *)
(* that expire, are deleted or are overwritten by some other job of the    *)
(* run.  The artifact API names neither the uploading job nor the attempt. *)
(***************************************************************************)
EXTENDS Integers, FiniteSets

CONSTANTS NumLanes,    \* owner jobs 1 .. NumLanes of the compiler-owner matrix
          MaxAttempt,  \* attempts of the workflow run
          Bytes,       \* what a build can leave in its payload directory
          Same, Cross, \* reader jobs of the run itself, and of other runs
          Faulty,      \* attempts (0: other runs) in which any step may fail
          Drift,       \* the kinds of change others make
          Budget,      \* how many such changes a behaviour holds
          Stray,       \* any other job of the run that uploads artifacts
          None

Lanes == 1 .. NumLanes
Attempts == 1 .. MaxAttempt
Readers == Same \cup Cross
Owners == Lanes \X Attempts
DriftKinds == {"rewrite", "expire", "delete", "overwrite"}

ASSUME SizeAssumption == NumLanes \in Nat \ {0} /\ MaxAttempt \in Nat \ {0}
ASSUME PartyAssumption == Stray \notin Owners /\ None \notin Owners /\ None # Stray
ASSUME ChangeAssumption == /\ Faulty \subseteq 0 .. MaxAttempt
                           /\ Drift \subseteq DriftKinds /\ Budget \in Nat

VARIABLES
  \* the workflow run
  attempt,   \* its current attempt
  listed,    \* per attempt and lane, the attempt its listed job ran in
  job,       \* the owner jobs
  \* its artifacts
  artifacts, \* every one ever uploaded
  live,      \* ids that can be downloaded
  expired,   \* ids that are still listed, as expired
  signed,    \* origin records with a provider signature
  \* the machines of the current attempt's owner jobs
  pc, dir, mine, note,
  \* the reader jobs
  status, own, src, lane, at, sel, origin, kept,
  delivered, \* what installed fragments select, with the attempt they were read for
  spent      \* changes made by others so far

run == <<attempt, listed, job>>
store == <<artifacts, live, expired, signed>>
machine == <<pc, dir, mine, note>>
reader == <<status, own, src, lane, at, sel, origin, kept, delivered>>
vars == <<run, store, machine, reader, spent>>
-----------------------------------------------------------------------------
(* Names carry the lane and the attempt that chose them; an upload takes a *)
(* name that no downloadable artifact of the run has.                      *)

\* (seeded fault) the attempt is left out
NameOfRun(kind, l, n) == [kind |-> kind, lane |-> l, attempt |-> 1]

Name(kind, l, n) == [kind |-> kind, lane |-> l, attempt |-> n]

Names == [kind : {"payload", "proof"}, lane : Lanes, attempt : Attempts]

Listed(name) == {a \in artifacts : a.name = name /\ a.id \in live \cup expired}

NameFree(name) == \A a \in artifacts : a.id \in live => a.name # name

NextId == Cardinality(artifacts) + 1

Add(name, by, body) ==
  /\ artifacts' = artifacts \cup {[id |-> NextId, name |-> name, by |-> by, body |-> body]}
  /\ live' = live \cup {NextId}

\* The owner record: context, lane, job, artifact and file inventory.
Record(n, l, j, id, digest, files) ==
  [attempt |-> n, lane |-> l, job |-> j, payload |-> id, digest |-> digest, files |-> files]
-----------------------------------------------------------------------------
Blank == [job |-> None, payload |-> None, proof |-> None]

Init ==
  /\ attempt = 1
  /\ listed = [n \in Attempts |-> [l \in Lanes |-> 1]]
  /\ job = [o \in Owners |-> IF o[2] = 1 THEN "in_progress" ELSE "none"]
  /\ artifacts = {} /\ live = {} /\ expired = {} /\ signed = {}
  /\ pc = [l \in Lanes |-> "build"]
  /\ dir = [l \in Lanes |-> None]
  /\ mine = [l \in Lanes |-> 0]
  /\ note = [l \in Lanes |-> None]
  /\ status = [r \in Readers |-> "idle"]
  /\ own = [r \in Readers |-> 0]
  /\ src = [r \in Readers |-> 1]
  /\ lane = [r \in Readers |-> 1]
  /\ at = [r \in Readers |-> 1]
  /\ sel = [r \in Readers |-> Blank]
  /\ origin = [r \in Readers |-> None]
  /\ kept = [r \in Readers |-> {}]
  /\ delivered = {}
  /\ spent = 0

Me(l) == <<l, attempt>>
Executing(l) == job[Me(l)] = "in_progress"
AtStep(l, s) == Executing(l) /\ pc[l] = s
Then(l, s) == pc' = [pc EXCEPT ![l] = s] /\ UNCHANGED job

\* A concluded job leaves nothing on its machine.
Conclude(l, how) == /\ job' = [job EXCEPT ![Me(l)] = how]
                    /\ pc' = [pc EXCEPT ![l] = "build"]
                    /\ dir' = [dir EXCEPT ![l] = None]
                    /\ mine' = [mine EXCEPT ![l] = 0]
                    /\ note' = [note EXCEPT ![l] = None]
-----------------------------------------------------------------------------
(* An owner job: the steps of build-native-lane-v2. *)

Build(l) ==
  /\ AtStep(l, "build")
  /\ \E b \in Bytes : dir' = [dir EXCEPT ![l] = b]
  /\ Then(l, "upload")
  /\ UNCHANGED <<attempt, listed, store, mine, note, reader, spent>>

\* The upload may be stored and still be reported failed, which ends the job.
UploadPayload(l) ==
  /\ AtStep(l, "upload")
  /\ NameFree(Name("payload", l, attempt))
  /\ Add(Name("payload", l, attempt), Me(l), dir[l])
  /\ \/ /\ Then(l, "record")
        /\ mine' = [mine EXCEPT ![l] = NextId]
        /\ UNCHANGED <<dir, note>>
     \/ attempt \in Faulty /\ Conclude(l, "failure")
  /\ UNCHANGED <<attempt, listed, expired, signed, reader, spent>>

\* select_job in the OIDC-named check of this attempt: the job still runs
OwnInProgress(l) == job[Me(l)] = "in_progress"

RecordOrigin(l) ==
  /\ AtStep(l, "record")
  /\ OwnInProgress(l)
  /\ mine[l] \in live
  /\ \E a \in artifacts :
       /\ a.id = mine[l]
       /\ note' = [note EXCEPT ![l] = Record(attempt, l, Me(l), a.id, a.body, dir[l])]
  /\ Then(l, "sign")
  /\ UNCHANGED <<attempt, listed, store, dir, mine, reader, spent>>

Sign(l) ==
  /\ AtStep(l, "sign")
  /\ signed' = signed \cup {note[l]}
  /\ Then(l, "proof")
  /\ UNCHANGED <<attempt, listed, artifacts, live, expired, dir, mine, note, reader, spent>>

UploadProof(l) ==
  /\ AtStep(l, "proof")
  /\ NameFree(Name("proof", l, attempt))
  /\ Add(Name("proof", l, attempt), Me(l), note[l])
  /\ \/ Then(l, "finish") /\ UNCHANGED <<dir, mine, note>>
     \/ attempt \in Faulty /\ Conclude(l, "failure")
  /\ UNCHANGED <<attempt, listed, expired, signed, reader, spent>>

Finish(l) ==
  /\ AtStep(l, "finish")
  /\ Conclude(l, "success")
  /\ UNCHANGED <<attempt, listed, store, reader, spent>>

\* A refused step, a fault or the loss of the machine fails the job where it is.
Blocked(l) == \/ pc[l] = "upload" /\ ~NameFree(Name("payload", l, attempt))
              \/ pc[l] = "record" /\ mine[l] \notin live
              \/ pc[l] = "proof" /\ ~NameFree(Name("proof", l, attempt))

FailOwner(l) ==
  /\ Executing(l)
  /\ attempt \in Faulty \/ Blocked(l)
  /\ Conclude(l, "failure")
  /\ UNCHANGED <<attempt, listed, store, reader, spent>>

OwnerStep(l) == \/ Build(l) \/ UploadPayload(l) \/ RecordOrigin(l) \/ Sign(l)
                \/ UploadProof(l) \/ Finish(l) \/ FailOwner(l)
-----------------------------------------------------------------------------
(* Attempts.  The jobs listed under an attempt are those that ran in it and, *)
(* after a rerun of failed jobs only, those carried over from before.        *)

JobListed(l, n) == <<l, listed[n][l]>>

Succeeded(l, n) == job[JobListed(l, n)] = "success"

Carried(l, n) == listed[n][l] # n

AllSucceeded(n) == \A l \in Lanes : Succeeded(l, n)

\* The run is over when no job executes and no reader is still due.
Over == /\ \A l \in Lanes : ~Executing(l)
        /\ \A r \in Same : status[r] # "reading"
        /\ AllSucceeded(attempt) => \A r \in Same : status[r] # "idle"

NewAttempt(lanes) ==
  /\ Over
  /\ attempt < MaxAttempt
  /\ attempt' = attempt + 1
  /\ listed' = [listed EXCEPT ![attempt + 1] =
                  [l \in Lanes |-> IF l \in lanes THEN attempt + 1 ELSE listed[attempt][l]]]
  /\ job' = [o \in Owners |-> IF o[2] = attempt + 1 /\ o[1] \in lanes THEN "in_progress"
                                                                    ELSE job[o]]
  /\ status' = [r \in Readers |-> IF r \in Same THEN "idle" ELSE status[r]]
  /\ UNCHANGED <<store, machine, own, src, lane, at, sel, origin, kept, delivered, spent>>

RerunAll == NewAttempt(Lanes)

\* A failed owner or reader job is what there is to rerun.
RerunFailed ==
  /\ \/ \E l \in Lanes : ~Succeeded(l, attempt)
     \/ \E r \in Same : status[r] = "failed"
  /\ NewAttempt({l \in Lanes : ~Succeeded(l, attempt)})
-----------------------------------------------------------------------------
(* A reader job: collect-compiler-owners-v2 over the lanes of the matrix.   *)
(* Per lane it selects the job and both artifacts by name, then verify-     *)
(* source reads them again by number.                                       *)

Gates == <<"job", "artifacts", "owner", "proof", "record", "joined", "payload", "bytes">>

\* A reader of the same attempt needs every owner job; one of another run is
\* dispatched by hand for any attempt.
Start(r, n) ==
  /\ status[r] = "idle"
  /\ n <= attempt
  /\ r \in Same => n = attempt /\ AllSucceeded(n)
  /\ status' = [status EXCEPT ![r] = "reading"]
  /\ own' = [own EXCEPT ![r] = IF r \in Same THEN n ELSE 0]
  /\ src' = [src EXCEPT ![r] = n]
  /\ UNCHANGED <<run, store, machine, lane, at, sel, origin, kept, delivered, spent>>

Reading(r) == status[r] = "reading" /\ lane[r] \in Lanes
AtGate(r, g) == Reading(r) /\ Gates[at[r]] = g
Advance(r) == at' = [at EXCEPT ![r] = @ + 1]

\* A concluded reader leaves nothing but its installed fragment.
End(r, how) == /\ status' = [status EXCEPT ![r] = how]
               /\ lane' = [lane EXCEPT ![r] = 1]
               /\ at' = [at EXCEPT ![r] = 1]
               /\ sel' = [sel EXCEPT ![r] = Blank]
               /\ origin' = [origin EXCEPT ![r] = None]
               /\ kept' = [kept EXCEPT ![r] = {}]

\* exactly one artifact of that name is listed, and it is not expired
SoleLive(name, a) == Listed(name) = {a} /\ a.id \in live

\* (seeded fault) the record's owner is not compared with the selected job
RecordOfArtifact(r, o) == /\ o.attempt = src[r] /\ o.lane = lane[r]
                          /\ o.payload = sel[r].payload.id
                          /\ o.digest = sel[r].payload.body

\* the signed record equals the independent selection, field by field
RecordMatches(r, o) == /\ o.attempt = src[r] /\ o.lane = lane[r]
                       /\ o.job = sel[r].job
                       /\ o.payload = sel[r].payload.id
                       /\ o.digest = sel[r].payload.body

\* (seeded fault) the ZIP members are not compared with the signed inventory
MembersUnread(r) == sel[r].payload.id \in live

\* the download is the signed inventory, byte for byte
MembersMatch(r) == /\ sel[r].payload.id \in live
                   /\ sel[r].payload.body = origin[r].files

Holds(r, g) ==
  /\ g \in {"job", "owner", "joined"} => Succeeded(lane[r], src[r])
  /\ g = "artifacts" =>
       \A kind \in {"payload", "proof"} :
         \E a \in artifacts : SoleLive(Name(kind, lane[r], src[r]), a)
  /\ g \in {"proof", "record"} => sel[r].proof.id \in live
  /\ g = "record" => sel[r].proof.body \in signed /\ RecordMatches(r, sel[r].proof.body)
  /\ g = "payload" => sel[r].payload.id \in live
  /\ g = "bytes" => MembersMatch(r)

SelectJob(r) ==
  /\ AtGate(r, "job") /\ Holds(r, "job")
  /\ sel' = [sel EXCEPT ![r].job = JobListed(lane[r], src[r])]
  /\ Advance(r)
  /\ UNCHANGED <<run, store, machine, status, own, src, lane, origin, kept, delivered, spent>>

SelectArtifacts(r) ==
  /\ AtGate(r, "artifacts") /\ Holds(r, "artifacts")
  /\ \E p, q \in artifacts :
       /\ SoleLive(Name("payload", lane[r], src[r]), p)
       /\ SoleLive(Name("proof", lane[r], src[r]), q)
       /\ sel' = [sel EXCEPT ![r].payload = p, ![r].proof = q]
  /\ Advance(r)
  /\ UNCHANGED <<run, store, machine, status, own, src, lane, origin, kept, delivered, spent>>

\* The reads of verify-source that only confirm what was selected.
Confirm(r) ==
  /\ \E g \in {"owner", "proof", "joined", "payload"} : AtGate(r, g) /\ Holds(r, g)
  /\ Advance(r)
  /\ UNCHANGED <<run, store, machine, status, own, src, lane, sel, origin, kept, delivered,
                 spent>>

\* Only a signed record is opened: its bytes are the attestation's subject.
OpenProof(r) ==
  /\ AtGate(r, "record") /\ Holds(r, "record")
  /\ origin' = [origin EXCEPT ![r] = sel[r].proof.body]
  /\ Advance(r)
  /\ UNCHANGED <<run, store, machine, status, own, src, lane, sel, kept, delivered, spent>>

\* The verified transport is retained and the next lane of the matrix begins.
Retain(r) ==
  /\ AtGate(r, "bytes") /\ Holds(r, "bytes")
  /\ kept' = [kept EXCEPT ![r] = @ \cup {[lane |-> lane[r], attempt |-> src[r],
                                          payload |-> sel[r].payload, origin |-> origin[r]]}]
  /\ lane' = [lane EXCEPT ![r] = @ + 1]
  /\ at' = [at EXCEPT ![r] = 1]
  /\ sel' = [sel EXCEPT ![r] = Blank]
  /\ origin' = [origin EXCEPT ![r] = None]
  /\ UNCHANGED <<run, store, machine, status, own, src, delivered, spent>>

\* The fragment is linked into place once every lane has been read back.
Collect(r) ==
  /\ status[r] = "reading" /\ lane[r] \notin Lanes
  /\ delivered' = delivered \cup {[kept |-> kept[r], attempt |-> src[r]]}
  /\ End(r, "collected")
  /\ UNCHANGED <<run, store, machine, own, src, spent>>

\* A listing may state a carried job's own attempt, which does not agree.
Refuse(r) ==
  /\ status[r] = "reading"
  /\ \/ own[r] \in Faulty
     \/ /\ Reading(r)
        /\ ~Holds(r, Gates[at[r]]) \/ Carried(lane[r], src[r])
  /\ End(r, "failed")
  /\ UNCHANGED <<run, store, machine, own, src, delivered, spent>>

ReaderStep(r) == \/ SelectJob(r) \/ SelectArtifacts(r) \/ Confirm(r) \/ OpenProof(r)
                 \/ Retain(r) \/ Collect(r) \/ Refuse(r)
-----------------------------------------------------------------------------
(* Others. *)

Change(kind) == /\ kind \in Drift
                /\ spent < Budget
                /\ spent' = spent + 1
                /\ UNCHANGED <<run, pc, mine, note, reader>>

\* The payload directory changes while its job may still read it.
Rewrite(l, b) ==
  /\ Change("rewrite")
  /\ AtStep(l, "upload") \/ AtStep(l, "record")
  /\ dir' = [dir EXCEPT ![l] = b]
  /\ UNCHANGED store

Expire(a) ==
  /\ Change("expire")
  /\ a.id \in live
  /\ live' = live \ {a.id}
  /\ expired' = expired \cup {a.id}
  /\ UNCHANGED <<artifacts, signed, dir>>

Delete(a) ==
  /\ Change("delete")
  /\ live' = live \ {a.id}
  /\ expired' = expired \ {a.id}
  /\ UNCHANGED <<artifacts, signed, dir>>

\* Another job uploads under a name, whatever had it; it records, if at all,
\* its own identity, or it uploads a record that some job signed.
Replace(name, body) ==
  /\ Change("overwrite")
  /\ artifacts' = artifacts \cup {[id |-> NextId, name |-> name, by |-> Stray, body |-> body]}
  /\ live' = (live \ {a.id : a \in Listed(name)}) \cup {NextId}
  /\ expired' = expired \ {a.id : a \in Listed(name)}
  /\ UNCHANGED dir

StrayPayload(l, n, b) ==
  /\ Replace(Name("payload", l, n), b)
  /\ signed' = signed \cup {Record(n, l, Stray, NextId, b, b)}

StrayProof(l, n, o) ==
  /\ Replace(Name("proof", l, n), o)
  /\ UNCHANGED signed

Others == \/ \E l \in Lanes, b \in Bytes : Rewrite(l, b)
          \/ \E a \in artifacts : Expire(a) \/ Delete(a)
          \/ \E l \in Lanes, n \in 1 .. attempt :
               \/ \E b \in Bytes : StrayPayload(l, n, b)
               \/ \E o \in signed : StrayProof(l, n, o)

Next == \/ \E l \in Lanes : OwnerStep(l)
        \/ \E r \in Readers : ReaderStep(r) \/ \E n \in Attempts : Start(r, n)
        \/ RerunAll \/ RerunFailed
        \/ Others

Spec == Init /\ [][Next]_vars

\* The runners execute started jobs, and a dependent job is started.
FairSpec == /\ Spec
            /\ \A l \in Lanes : WF_vars(OwnerStep(l))
            /\ \A r \in Readers : WF_vars(ReaderStep(r))
            /\ \A r \in Same : WF_vars(\E n \in Attempts : Start(r, n))
-----------------------------------------------------------------------------
(* Properties *)

Origins == [attempt : Attempts, lane : Lanes, job : Owners \cup {Stray},
            payload : Nat, digest : Bytes, files : Bytes]
Artifacts == [id : Nat, name : Names, by : Owners \cup {Stray}, body : Bytes \cup Origins]
Selections == [job : Owners \cup {None}, payload : Artifacts \cup {None},
               proof : Artifacts \cup {None}]
Retained == [lane : Lanes, attempt : Attempts, payload : Artifacts, origin : Origins]

\* Every variable keeps its type, and an uploaded artifact is immutable.
TypeOK ==
  /\ attempt \in Attempts /\ listed \in [Attempts -> [Lanes -> Attempts]]
  /\ job \in [Owners -> {"none", "in_progress", "success", "failure"}]
  /\ artifacts \subseteq Artifacts /\ live \subseteq Nat /\ expired \subseteq Nat
  /\ signed \subseteq Origins
  /\ pc \in [Lanes -> {"build", "upload", "record", "sign", "proof", "finish"}]
  /\ dir \in [Lanes -> Bytes \cup {None}] /\ mine \in [Lanes -> Nat]
  /\ note \in [Lanes -> Origins \cup {None}]
  /\ status \in [Readers -> {"idle", "reading", "collected", "failed"}]
  /\ own \in [Readers -> 0 .. MaxAttempt] /\ src \in [Readers -> Attempts]
  /\ lane \in [Readers -> 1 .. NumLanes + 1] /\ at \in [Readers -> 1 .. 8]
  /\ sel \in [Readers -> Selections] /\ origin \in [Readers -> Origins \cup {None}]
  /\ kept \in [Readers -> SUBSET Retained]
  /\ delivered \subseteq [kept : SUBSET Retained, attempt : Attempts]
  /\ spent \in Nat

\* A fragment has every lane of the matrix, each once, and each payload in it
\* was uploaded by the owner job of that lane in the very attempt the reader
\* selected, a job that succeeded: not by the same job of an earlier attempt
\* carried over, not by another lane, not by whoever else uploads under its
\* name (verify, verify_source; "Run-level artifact metadata does not bind
\* artifacts to a job", select-owner-artifacts-v2.py).
DeliveredByOwner ==
  \A f \in delivered :
    /\ {k.lane : k \in f.kept} = Lanes
    /\ \A k, m \in f.kept : k.lane = m.lane => k = m
    /\ \A k \in f.kept : /\ k.attempt = f.attempt
                         /\ k.payload.by = <<k.lane, f.attempt>>
                         /\ job[k.payload.by] = "success"

\* The bytes a fragment selects are the inventory its owner measured when it
\* signed: a payload directory that changed after the upload is refused.
DeliveredAsSigned ==
  \A f \in delivered : \A k \in f.kept :
    /\ k.origin \in signed /\ k.origin.job = k.payload.by
    /\ k.payload.body = k.origin.files

\* An attempt in which every owner job runs again and nothing goes wrong ends
\* with an installed fragment of that attempt, whatever failed before it.
FullAttemptCollects ==
  \A n \in Attempts \ Faulty :
    (attempt = n /\ \A l \in Lanes : ~Carried(l, n)) ~> (\E f \in delivered : f.attempt = n)
=============================================================================
