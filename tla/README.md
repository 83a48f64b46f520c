# A verification of the AROS toolchain release producer

This directory holds TLA+ modules, TLC configurations and TLAPS proofs about
the release machinery of this repository: the Python and shell controllers under
`scripts/toolchain/`, the workflows that run them, and the provider (GitHub)
they act on. Paths below are relative to the repository's root; files without a
directory are in `scripts/toolchain/`.

None of these programs is large or concurrent by itself. What is hard is that
each is a sequence of reads and a few irrevocable writes against a provider that
others change at the same time, that answers can be lost after the write was
applied, that runs can be repeated, and that no write may be retried or undone.
The models are about exactly that.

## 1 The system

A release of the compiler and SDK passes through these components.

| Component | State | Operations | Interacts by |
|---|---|---|---|
| Release admission (`release-admission-v2.py`) | none; writes a receipt | `admit`, `recheck`, `probe-visibility` | reads of main, CI run, release PR, rulesets, tags and releases |
| Candidate controller (`create-compiler-sdk-candidate-v2.py`, `prepare-release-draft-config-v2.py`, `toolchains/workflow-templates/compiler-sdk-release-start.yml`) | tag object, tag ref, private draft, files of the job | `create-tag`, Release Please, `bind-draft` | POSTs to the provider; receipt and identity files between steps |
| Start construction and seal (`construct-`, `seal-compiler-sdk-start-v2.py`, `compiler-sdk-release-start-v2.py`, `compiler-sdk-start-artifact-v2.py`) | start record, signature, artifact | construct, attest, seal, upload, verify | artifact of the run |
| Dispatcher and claim (`select-compiler-sdk-start-v2.py`, `compiler-sdk-dispatcher-auth-v2.py`, `compiler-sdk-authenticated-claim-v2.py`, `compiler-sdk-claim-upload-v2.py`, `compiler-sdk-dispatch-claim-v2.py`) | one asset of the draft | select, authenticate, upload once, sign, verify | completion event of the start; asset name as arbiter |
| Dispatch binding and native entry (`compiler-sdk-dispatch-binding-v2.py` and its verifier, `verify-claimed-compiler-sdk-start-v2.py`, `authenticate-compiler-sdk-native-candidate-v2.py`, `compiler-sdk-native-identity-v2.py`) | signed binding | confirm a dispatch, bind, authenticate | `workflow_dispatch` run |
| Artifact origin (`artifact-origin.py`, `verify-workflow-job-attempt.sh`, `select-owner-artifacts-v2.py`) | origin record, retained output | context, record, verify, verify-source | attempt-specific jobs and artifacts of a run |
| Native lane (`build-lane-v2.sh`, `stage-native-owner-payload-v2.py`, `native-lane-transport.py`, `admit-lane-v2.sh`, `read-native-owner-v2.sh`) | packages, staged payloads | build, stage, read back, admit | artifacts with origin |
| Matrices and scheduling (`select-release-matrix-v2.py`, `compiler-owner-matrix-v2.py`, `sdk-owner-matrix-v2.py`, `select-compiler-sdk-route-v2.py`, `select-replay-matrix.py`, `validate-release-tag.py`) | none | project a plan into job matrices | outputs of the preparing job |
| Owner collection and assembly (`collect-*-owners-v2.sh`, `assemble-*-v2.py`, `select-*-v2.py`, `stage-` and `sdk-owner-*`, `qualify-compiler-sdk-lane-v2.sh`) | operation directory | collect, verify, stage, assemble | local files, `aros` child processes |
| Qualification, recovery, audit (`record-complete-qualification-v2.py`, `prepare-recovery-request-v2.py`, `audit-isolated-release-v2.py`, `verify-provenance-attestation.sh`) | qualification, recovery request | record, prepare, audit | local files, signed bundles |
| Runtime (`materialize-aros-tools-runtime.py`, `check-v2-runtime-interface.py`) | runtime directory | download, verify, unpack and rename | release of another repository |
| Inputs, preflights, caches (`prepare-compiler-sdk-inputs-v2.py`, `check-*-preflight*-v2.py`, `cache-archive-transport.py`, `collect-native-cargo-caches-v2.py` and others) | files | validate, project, restore | local files |
| CI planning (`scripts/ci/plan-changes.py`) | none | classify a change set | job output |
| Workflows (`.github/workflows/*.yml`) | job and run conclusions | `toolchain-release`, recovery, replay, CI, release-please | events, concurrency groups, artifacts |

What makes each correct, and what is hard:

- *Admission, candidate, start.* A tag is created only for the current main head
  that merges the only pending release PR, with green first-attempt CI, under an
  enforced tag ruleset; the tag, the draft and the retained start are of one run.
  Hard: everything read may change before the write it cleared; two writes by two
  different programs; a write whose outcome is unknown; the archived repository
  whose drafts read as absent.
- *Dispatcher, claim, native entry.* One start is dispatched once and consumed
  once. Hard: dispatchers are not serialized, the claim's name is the only
  arbiter; a dispatch may be answered without the run it created; reruns; manual
  runs of the same workflow; people who delete the claim.
- *Artifact origin, native lane.* A consumer accepts exactly the bytes one job
  uploaded. Hard: attempts, same-run readers, artifacts replaced or expired.
- *Matrices.* Every lane has its owners, none twice, none lost at the limit of
  256 entries.
- *Collection, assembly, qualification, recovery, audit.* A failure half way
  leaves nothing a later step accepts; a recovery is admitted for exactly one
  failed job.
- *Workflows.* No publication without every lane; a rerun does not publish twice.

The hazards of the code, each at its line, are listed in `PROJECT.json`.

## 2 Modules

| Module | Contents |
|---|---|
| `CandidateLifecycle` | Abstract specification: what the protocol promises of a version (absent, tagged, drafted, sealed, claimed, consumed; one owner, one claimant, one consumer) |
| `ReleaseStart` | The protected start job, all its programs, against a changing provider; implements `CandidateLifecycle!StartSpec` |
| `DispatchClaim` | Dispatchers, claim, dispatch, binding and native entry for one sealed start; implements `CandidateLifecycle!DispatchSpec` until a person deletes a claim |
| `CandidateRelease` | The composition of the two: dispatchers wake on a start that completed and read the tag and draft it left; implements `CandidateLifecycle!Spec` |
| `OwnerTransport` | Owner jobs of a run, its attempts and artifacts, and the readers that collect every lane |
| `RetainedOutput` | The directory in which `artifact-origin.py` retains verified bytes, file by file, with its clean-up |
| `ReleaseMatrix` | The release plan, its reading, its projection into matrices and the two owner helpers |
| `RuntimeMaterialization` | `materialize` and `verify` of the released runtime, with racing runs and stopped machines |
| `RuntimeInspection` | The frozen inspection and the restoration of a runtime that crossed an artifact transport |
| `EvidenceOperations` | Recording a qualification, auditing an isolated release, preparing a recovery request |
| `CandidateAssembly` | The three assembly programs, from selected packages to an indexed candidate |
| `RecoveryHandoff` | The recovery workflow beside the source run it recovers |
| `MC...` | The instances TLC checks |
| `..._proofs` | Theorems and proofs; `OwnerTransport_proofs` is also about `RetainedOutput`, `RuntimeMaterialization_proofs` about `RuntimeInspection`, `CandidateRelease_proofs` about `ReleaseStart` |

`RetainedOutput` and `RuntimeInspection` are read together with the module whose proofs
they share, so their specifications have names of their own: `RetainSpec` and
`RetainTypeOK`, `InspectSpec` and `InspectTypeOK`.

The modules are one chain. `ReleaseStart` and `DispatchClaim` (joined in
`CandidateRelease`) bring a candidate into being and start one native run for it;
`ReleaseMatrix` says which jobs that run has; `OwnerTransport` carries what they
build to the jobs that read it, and `RetainedOutput` is how such a job keeps it;
`RuntimeMaterialization` and `RuntimeInspection` provide the program that
`CandidateAssembly` and `EvidenceOperations` run; `RecoveryHandoff` is what is
left when the last job of the run failed. Only the first two are composed in one
specification: the others meet in files and artifacts, and each module lets
others change those at any time, which is more than their neighbours do.

### ReleaseStart and the code

A run is one job of the start workflow. Its programs (`admit`, `create-tag`,
the Release Please action, `bind-draft`, construct, attest, seal, upload) make a
fixed sequence of reads; each is one element of a sequence named after the
function that makes it (`Admission`, `Frozen`, `CreateTag`, `BindDraft`, ...),
and the sequences are concatenated in the order the code calls. `Program` cuts
them into four segments that end with a provider write. `Pass` is a read that
holds, `Stop` one that does not (every error path of these programs ends the job
without another write), `Decline` the quiet `ready=false` outcome of the first
admission. `PostTagObject`, `PostTagRef`, `DraftRelease` and `UploadStart` are
the writes; each may be applied and confirmed, applied with its outcome lost, or
rejected. One read is one step, so anything may happen between any two. What a
read requires is in `Holds`, one line per kind of read:

- `event`, `main`, `clean`, `pull`, `pending`, `inputs`, `governance`,
  `runtime`, `ci`, `active`, `visible`: the functions `_event_context` to
  `_no_candidate_tag_or_release` of admission, and the weaker pending-PR check
  of `_frozen_candidate_metadata`;
- `absent`: `_privileged_absence`. A token sees the drafts of an archived
  repository as 404, so it proves nothing there (`ReleaseAbsent`);
- `identity`: the run and its job are attempt 1;
- `tag`, `output`, `draft`, `candidate`: the readbacks of the tag, of the
  Release Please outputs, of the sole draft, and of the draft by number and tag;
- `evidence`, `config`, `transport`: the job's own files.

`intact` stands for all local files: a changed one is never changed back, and a
reader compares bytes. `ci[c]` is the newest attempt of a commit's run; attempt 2
refutes the gate, as the code demands attempt 1. A commit stands for its version.
The signature made between construct and seal follows the same last recheck as
the upload and is not counted as a write of its own.

The environment (`Others`) may, up to `Budget` times: advance main, relabel a
release PR, rerun CI, change local files, edit the ruleset, let the governance
reading pass 900 seconds, archive or unarchive, create a tag, create, edit or
delete a draft. The ruleset is trusted to prevent moving or deleting a `v*` tag.

Release Please is external: it drafts every merged PR that is still pending,
without looking at tags, may stop half way, and reports one version.

### DispatchClaim and the code

The state is one sealed start and its draft. A dispatcher makes the reads of
`select_start_transport`, `_authenticate_and_upload` and `upload_claim_once` up
to the claim upload, then those of the readback, then signs the claim,
dispatches a native run, signs the binding of the two and completes. A native
run makes the reads of `authenticate_candidate`, `authenticate_native_execution`
and `verify_binding_signature`, and is authorized when all hold. The controllers
are libraries that no installed workflow calls yet ("inactive" in
`toolchains/release-start-v2.md`): the order of claim, signature, dispatch and
binding is the one their docstrings and that document require, and signing,
dispatching and completing are actions restricted by what the readers accept.

`Others` may rerun the start, a dispatcher or a native run, archive the
repository, move the tag, edit the draft, upload an asset of the claim's name,
delete the claim, and dispatch the native workflow by hand.

Local-file rechecks and the download of the start artifact appear as reads that
may fail (`Stop`).

### OwnerTransport and the code

The state is one run of `toolchain-release.yml`: its current attempt, the owner
jobs (`<<lane, attempt>>`), which of them an attempt lists, and its artifacts. An
artifact has an identity, a name, the job that uploaded it and its body; the API
reports neither that job nor the attempt, so no read of the model uses `by`: it
is what the properties are about. A body stands for its digest.

An owner makes the steps of `build-native-lane-v2`: `Build` (build and stage),
`UploadPayload`, `RecordOrigin` (`artifact-origin.py record`, in the executing job),
`Sign`, `UploadProof`, `Finish`. Between them its payload directory may change
(`Rewrite`); `record` measures it twice around its reads, which one step stands
for. An upload may be stored and reported failed.

`RerunAll` and `RerunFailed` start a new attempt when the run is over. After the
second an attempt lists jobs of an earlier one (`listed`, `Carried`) whose artifact
names carry the old attempt; nothing of a run's artifacts goes away. Whether a
listing states the attempt of such a job is left open, as `select_job` does.

A reader is the compiler collector: per lane the gates of `Gates`, each a read of
its own. `SelectJob` and `SelectArtifacts` are the two reads of
`select_owner_artifacts` (by name, exactly one, not expired). `Confirm` stands for
the reads of `verify_source` and `verify` that observe again what was selected
(the job twice, the proof's metadata, the payload's metadata). `OpenProof` downloads
and opens the record: it is the signature's subject and equals the selection
field by field. `Retain` downloads the payload and compares its members with the
signed inventory; `Collect` installs the fragment. A `Same` reader is the read-back
job of the run, started when every owner of the attempt succeeded; a `Cross` reader
belongs to another run and may start at any time, for any attempt.

`Others`, up to `Budget` times: change a payload directory, expire or delete an
artifact, or overwrite one by another job of the run, which signs its own
identity for a payload or uploads a record that some job signed. The model lets
such a job claim the context of any attempt so far, which is more than the
certificate check of `verify` admits.

### CandidateRelease and the code

`ReleaseStart` extended by the variables of `DispatchClaim`, whose provider state
is no variable of its own here: `TagStands`, `DraftStands` and `NewestAttempt` are
read off the tags, drafts and attempts that the starts left. Several starts may
complete, each of its own version; `Completion` is the `workflow_run` event of one of
them (`select-compiler-sdk-start-v2.py`), and `served` the start whose dispatchers are
followed from there on, while other starts may still be running. Others change what
`ReleaseStart` lets them change, before a start completed and after; what they may do
to a claim and to the runs that carry it is in `DispatchClaim`.

### RetainedOutput and the code

One call of `retain_verified_output`: the absent-path test, `mkdir`, the identity
of the directory, the descriptor opened on it, per file an exclusive creation and
a write, the listing, a measurement per file, the last provider reads, the last
look at the path. `Fail` goes to the clean-up of the code: per created file a look
and an unlink, then the directory, with `left` for "manual cleanup required".
A directory is `own` or `other`, as everything is reached by descriptor or by path
and the code compares inodes. `Kill` and `Retry` are a stopped process and the next
attempt, for which the remains are another's. Other processes move directories,
put, remove and rewrite files, and move the parent. `late` and `raced` are accounts
of the properties: others acted after the names were listed, or between a look and
the removal it was meant for.

### ReleaseMatrix and the code

A document is not enumerated but read: `ReadGroups`, `ReadLane`, `ReadSdk` are the
iterations of `_validate_plan` and choose any entry; the running keys, owners and
first occurrences are `Key`, `With` and `LaneFollows`. `Project` is the projection
with the limit of builds (`MaxBuilds`, 256 in the code and 12 in the instance, which
the largest plan of the instance exceeds just as well); `Only` is the filter that its
list comprehensions share with the check of crossed hosts. `Referred` and `SdkOwner` are
the loop of `sdk-owner-matrix-v2.py` that gathers SDKs per owner. `ReadPlan`, `Select` and
`PrintOwners` are the steps of the two owner helpers, each its own reading of a plan
file that others may exchange for another valid or empty one. `ResultAssumption` keeps
what is printed apart from the marks for nothing and for a refusal.

### RuntimeMaterialization and the code

A run (`materialize`) reads the lock, the release, the tag and the assets, then makes
the `.partial` sibling, extracts member by member, renames, and completes the
destination with manifest and receipt; the last five steps, the verification, are
also the whole of a verifier (`verify`). `place` says whose directory stands at
which path and `tree` what it holds: all writing goes by path, as in the code. A file
holds the bytes of the release that lock *n* names, or half of something; a receipt
has the fields of one lock and the digest of another if the lock file changed in
between. `Fail`, `RemovePartial` (which may leave something: `ignore_errors`), `Stop`,
`Relock` (the lock file only goes forward) and `Withdraw` are what goes wrong. The
instance adds `calm`, true in the behaviours where none of this happens.

### RuntimeInspection and the code

One pass of `_inspect_runtime` at a time: names, descriptors, bytes and modes; a
second look; then, frozen, a last look that compares change times, or, restoring,
the grants through the descriptors, the verification by path and the roll-back.
A name stands for a generation of files (another inode each), a file has bytes, a
mode and a change time that every change moves. `held` is what the pass recorded
when it opened a file. `Signed` are the files whose modes the manifest states, all but
the manifest and the receipt; of the others no mode is compared. Others edit, replace,
add, remove and move between any two steps, also back to what it was; a machine may
stop, a chmod between two grants may fail (`GrantFails`), and the roll-back may fail.

### EvidenceOperations and the code

Each of the three programs is a sequence of steps (`Record`, `Audit`, `Recover`),
in the order of its `run`: select and measure, compare the documents, keep the
operation directory apart, make it, hold and check, run a child process, write a
document, and, for a recovery, expose the request. A check visits one file after
the other; a child process opens every input by path for itself (`ChildReads`).
What a child verified is compared with what was measured where the native result
repeats it (`Repeated`, of the inputs in `Reported` and of the documents it was told
to open, `Documents`): another directory may be put at the path while a child runs and
the first one moved back, which leaves the fingerprints of its documents as they
were. The policy is held as it is found, since nothing says beforehand what it must
hold. Whether the documents agree with each other is one fact (`agree`). A recovery
that fails after it exposed its request takes it back (`Find`, `Remove`).

### CandidateAssembly and the code

`Program` is the sequence of steps of `assemble-release-candidate-v2.py` with the
two programs it runs in line: what each holds, what it checks before and after
every command, what it copies and reads back. It has four parts: `Opening` selects and
holds everything and makes the root, `Packaging` runs the compiler and the SDK program
(`CompilerWork`, `SdkWork`) and captures their stages, `Publishing` fills the release
directory and makes SBOMs and index, `Closing` compares everything once more. `Holders` are the selections held at
the same time: the compiler program's by measurement and fingerprint, the SDK
program's by measurement, the inventories of what was written. A command runs
whatever program stands at the runtime's path; a program that was put there may
accept anything and write anything. `Clashes` are the pairs of members that may fold to
one name; `ClashAssumption` only says that they are pairs of members. An operation that
failed or was killed removes nothing and may be started again: `Retry` finds the
remains at its root, `RetryCleared` an absent root, and both whatever became of the
selected files.

### RecoveryHandoff and the code

The source run retains its two inputs, ends with a verdict per attempt and may be
run again. A recovery makes the reads of the recovery workflow in order (`Steps`):
the run, the number of artifacts of each name, the downloads, the run once more,
the jobs of that attempt (`verify-workflow-job-attempt.sh`), the tags, the absence
of a release, the attestation, the request, the tags again, the absence again, the
release. A tag is read twice by then, once for its object and once for the commit it
peels to (`RecheckObject`, `RecheckCommit`), and may move between the two. A lookup of the
release stops the recovery only when it finds one: where `gh release view` fails for
any reason, the job goes on (`LookupFails`). Creating the release may stop after some
of its files, and does not mind another draft of the tag. Recoveries of one tag run one
at a time (the workflow's concurrency group).

## 3 Runs

| Run | Instance | Shows |
|---|---|---|
| `start_drift` | 2 runs without the concurrency group, 2 commits both releases, every kind of drift, 1 change, faults | `StaleWriteIsLast`, `OneReleaseInFlight`, `SealedIsOwnCandidate`, `ImplementsLifecycle` |
| `dispatch_drift` | 2 dispatchers, 2 native runs, every kind of drift, 2 changes, faults | `SoleDispatch`, `AuthorizedIsBound`, `LifecycleUntilDeleted` |
| `release_quiet` | 2 starts, one at a time, 2 dispatchers, 1 native run, no drift, no faults, fair | `ImplementsWholeLifecycle`, `QuietStartSeals`, `QuietReleaseConsumed` |
| `transport_drift` | 1 lane, 2 attempts, 2 payloads, a reader of another run, every kind of drift, 3 changes, faults | `DeliveredByOwner`, `DeliveredAsSigned` |
| `transport_quiet` | 2 lanes, 3 attempts, faults in the first only, no drift, fair | `FullAttemptCollects` |
| `materialize` | 2 runs, 1 verifier, 5 archives, 2 locks, faults, and behaviours without any | `PublishedWhole`, `AcceptedComplete`, `OwnDirectoryOnly`, `SomeCalmRunCompletes` |
| `inspect` | 2 files, 2 changes, 3 passes of either kind, 1 stop, damaged bytes, fair | `FrozenSnapshot`, `RestoreAllOrNothing`, `NothingGrantedWhenDamaged`, `RestoreResumes` |
| `evidence` | 2 inputs, all three operations, 2 changes, 1 fault, fair | `StoodTogether`, `ExposedIsVerified`, `FailureLeavesNoRequest`, `QuietCompletes` |
| `assembly` | 2 lanes, 2 SDKs, 5 pairs of clashing names or none, 2 troubles, any number of retries, fair | `GenuineVerdicts`, `InventoryVerified`, `NoFoldedClash`, `QuietReturns` |
| `retain` | 2 files, 1 retry, 2 changes, 1 fault, fair | `RetainedWhole`, `CleanedLeavesNothing`, `OthersKept`, `QuietRetains` |
| `matrix` | 2 groups, 3 profiles, 3 hosts, 1 SDK with up to 2 references, 1 edit | `ExactlyProductsAccepted`, `WholeOrRefused`, `OwnersJoin` |
| `recovery` | 2 attempts of the source run, 3 changes, 1 fault, 2 failed lookups, fair | `RecoveredAsJudged`, `DraftAtAdmittedTag`, `NoSecondDraftOnceAnswered`, `QuietRecovers` |

Every passing run explores its whole state space.

What the properties say of the code:

- `StaleWriteIsLast`. A read and the write it clears cannot be atomic, so one
  stale write is unavoidable. No second one follows: each segment repeats the
  reads of main, CI, local inputs and governance before its write. Without the
  fresh admission between the tag object and its ref it fails.
- `OneReleaseInFlight`. The controller tags a version only after every earlier
  release PR was retired; otherwise Release Please would draft both.
- `SealedIsOwnCandidate`. A retained start names the tag object its own run
  posted and had confirmed, the version Release Please reported to that run, and
  no other run retains one for the version, even without the concurrency group.
- `ImplementsLifecycle`, `LifecycleUntilDeleted`, `ImplementsWholeLifecycle`. Every
  provider step is a step of the abstract lifecycle: for the starts under drift and
  faults, for the dispatchers up to the first deletion of a claim, and for both
  together from the absent tag to the consumed claim.
- `QuietStartSeals`, `QuietReleaseConsumed`. The gates can be met: those after a
  write accept what the write did, and what the start leaves satisfies its readers.
  A controller that repeats the absence gates of the admission, or demands an empty
  draft after its own claim, is safe and useless.
- `SoleDispatch`. At most `1 + deleted` native runs are dispatched by dispatchers.
  The term `deleted` is the documented limit of the design: deleting the claim frees
  its name. `SoleConsumption`, the same for runs that pass entry, is proved.
- `AuthorizedIsBound`. A run that passed entry is the one the confirmed response
  of its dispatcher named; that dispatcher signed both and completed.
- `DeliveredByOwner`. A fragment has each lane of the matrix once, and each payload
  was uploaded by the successful owner of that lane in the attempt selected. Names
  do not ensure it, as anyone in the run may upload under them, nor does the signed
  record alone: it is the record's equality with a separate selection.
- `DeliveredAsSigned`. Those bytes are what the owner measured when it recorded
  them, though it measured after the upload.
- `FullAttemptCollects`. An attempt that runs every owner again is collected unless
  something fails in it. A record demanding a completed job, or names without the
  attempt, would be safe and never deliver. It says nothing of an attempt that
  reran only the failed owners: that one is refused, since the others' artifacts
  carry the earlier attempt's names.
- `RetainedWhole`, `CleanedLeavesNothing`, `OthersKept`, `QuietRetains`. What is
  reported retained is whole; what is reported cleaned left nothing anywhere;
  nobody else's file is removed on the way; an absent path is used.
- `ExactlyProductsAccepted`. The one-pass reader accepts the products of groups,
  profiles and hosts in the producer's order and refuses no part of one. The
  right-hand side is a declarative account, not the reader's running state.
- `WholeOrRefused`, `OwnersJoin`. A projection has both copies of every lane asked
  for, or is refused; what the two helpers print at different times joins.
- `PublishedWhole`, `AcceptedComplete`, `OwnDirectoryOnly`. At no moment does the
  destination hold a payload that is not wholly of one release; success is reported
  about the directory that stands there; no run touches another's directory.
- `SomeCalmRunCompletes`. Of two runs that race without a fault, one completes.
- `FrozenSnapshot`. An accepting pass saw one moment at which the whole closure was
  as signed, though it read the files one after the other: it collects twice.
- `RestoreAllOrNothing`, `NothingGrantedWhenDamaged`, `RestoreResumes`. Modes are
  granted all or not at all, not on the strength of one reading, and an interrupted
  restoration can be run again.
- `StoodTogether`, `ExposedIsVerified`. Success is about files that stood together
  and were read by every program as held. The second quotes
  `toolchains/native-lane-admission-v2.md:114-116`.
- `FailureLeavesNoRequest`, `QuietCompletes`. A failed recovery takes its request
  back, also out of a directory that was moved; an undisturbed operation succeeds,
  or refuses before it has written anything.
- `GenuineVerdicts`, `InventoryVerified`. A returned candidate was judged by the
  selected runtime only, and each member has the selected bytes, read by a command of
  the run that returned, whatever earlier runs left behind.
- `NoFoldedClash`, `QuietReturns`. No two members of a returned candidate fold to
  one name, from whichever stages they come; undisturbed, one is returned.
- `RecoveredAsJudged`. What a recovery publishes is of an attempt whose draft alone
  failed, whatever was rerun between its reads.
- `DraftAtAdmittedTag`, `QuietRecovers`. The draft stands at the tag that was admitted
  (`toolchains/README.md:247`), unless the tag moved after the last read of its object,
  and at the produced commit, unless it moved after the last read of its commit. A
  failed handoff can be recovered.
- `NoSecondDraftOnceAnswered`. A recovery makes no draft beside that of an earlier one,
  partial ones included, provided one of its two lookups was answered. More cannot be
  said: `toolchain-release-recovery.yml:239` and `408` take every failed lookup (network,
  rate limit, authentication) for absence, `gh release create --draft` accepts a tag that has a
  draft, and so a recovery that is dispatched again after a partial draft, and whose
  lookups both fail, makes a second one. The instance contains this behaviour.
  `toolchain-release.yml:2343-2351` demands an explicit 404 instead, as it otherwise "cannot
  prove that the release is absent"; no document promises it of the recovery.

Every property is broken by a seeded fault of the code: the operators marked
`(seeded fault)` stand beside the ones they replace.

Bounds. Two commits are enough for a release to be overtaken by the next, two runs
or dispatchers for a race with one winner, two attempts to carry an owner over, and a
third shows that an attempt after a partial rerun is collected. Two payloads, locks,
files, lanes or groups are enough to be mixed up, and three profiles to be declared
out of order. Two changes are enough to change something and put it back, which is
what checks that compare bytes do not see, or to put a directory in the place of another
and move it back; three to rerun, expire and move. One recovery that stops half way and two failed lookups
are what a second draft takes. Of the runtime's files only two payload files are in the
instance of `inspect`, so `Signed` has both; the proofs cover the others.
`start_drift` has one change, with two starts that already change the provider for
each other; more changes, and the concurrency group, are covered by the proofs, as is
`release_quiet` with more versions and under every kind of change.
`transport_drift` has one lane, since lanes share nothing but the run; two lanes
are in `transport_quiet`, any number in the proofs. `Budget` and the like bound
outside changes and faults only, never the programs. Symmetry is used in runs that
check no liveness, over model values no definition tells apart. Deadlock is not
checked: a run that ended stays ended, so the system really stops.

Types. Each module with actions has a type invariant, `TypeOK` (`RetainTypeOK`,
`InspectTypeOK`), which is a theorem; no cfg lists it.

Fairness. The runner executes the next step of a job within the job's time
limit, and a program that was started takes its next step: weak fairness of each
run's or program's own step, including the failure of one that is blocked. In
`transport_quiet` a job whose `needs` succeeded is started as well, and in `inspect`
a restoration is run again while passes are left. No fairness is assumed of a
trigger, of a dispatcher waking, of a native run entering, of a recovery being
dispatched, or of any change by others.
Nothing is promised when a read fails, since nothing is retried: the liveness
properties concern behaviours without changes and faults, either because the
instance has none, because `calm` selects them, or because the property exempts a
behaviour as soon as one occurred (`spent + faults > 0`).

## 4 Proofs

Proved for any number of runs, actors, files, attempts and changes, from the named
assumptions of the modules (constants are of their types, model values differ).
In each module the type invariant is proved with the rest.

- `CandidateRelease_proofs`, of `ReleaseStart`: `TypeOK`, `StaleWriteIsLast`, `OneReleaseInFlight`,
  `SealedIsOwnCandidate`. None of the last three is inductive: what justifies a
  write is what the run read in this segment. `Passed(r, g)` says that run `r`
  passed a read `g` since its last write, and `RunInv` what that entitles it to,
  by what the provider never takes back (`Monotone`: main only grows, an attempt
  is never 1 again, a tag is never moved). `SegmentReads` shows that every segment
  after the first makes all four freshness reads, so a run at a write has no
  earlier stale write; `RetiredInv` relates labels to retired releases. The refinement
  `ImplementsLifecycle` is proved too: `OwnerInv` says that a tag made by a run is the
  tag of the commit that run checked out, so that a run's confirmed draft and its
  upload move the one version it owns (`OneMoves`, `OtherVersions`) and every other
  step moves none.
- `CandidateRelease_proofs`, of the composition: `ImplementsWholeLifecycle`, for any
  number of starts, versions, dispatchers and native runs, and under every change that
  `ReleaseStart` knows of, so also when others edit the draft that a dispatcher is about
  to claim. It is proved from the theorems of the two parts. `Claims` is the proof module
  of `DispatchClaim` under the substitution of `CandidateRelease`; a step of the starts
  changes only what the dispatchers read of the candidate, of which their invariant says
  nothing but its types (`CandidateFree`, `StartKeeps`), and a step of the dispatchers
  leaves the starts alone (`ServedStep`, `ServedKeeps`). `ServedInv` ties them together:
  a completed start stays completed and owns its tag, so its version is sealed for the
  starts (`ServedSealed`) whatever its dispatchers make of it, and the starts move other
  versions only (`StartRefines`). `ConsumerOfOwnCandidate` is what a user of the whole
  can rely on: at most one native run is ever admitted, and only for a retained start
  that owns the tag of its version and was told that version by Release Please.
- `DispatchClaim_proofs`: `TypeOK`, `SoleDispatch`, `AuthorizedIsBound`,
  `SoleConsumption`. `TypeOK` needs the rest: a binding is well typed only because
  a dispatcher that signs was confirmed. `OwedInv` is the inductive form of
  `SoleDispatch`: the runs dispatched together with the dispatchers that hold a
  confirmed claim and have yet to dispatch are at most the claims made, counted
  as those deleted plus the one in place. The refinement `LifecycleUntilDeleted` rests
  on the same count: while no claim was deleted, nothing is owed unless a dispatcher's
  claim stands (`ClaimStands`), and at most one native run is ever owed (`AtMostOne`).
- `OwnerTransport_proofs`: `TypeOK`, `DeliveredByOwner`, `DeliveredAsSigned`, for any
  number of lanes, attempts, readers and changes. The inductive invariant says that
  identities are unique (`IdsUnique`), that a signed record is true (`Truthful`: its
  artifact exists with that digest and was uploaded by the job it names, and an
  owner's record names its own lane and attempt), what a reader knows past each
  gate (`Known`) and what it kept (`KeptInv`). `OpenedRecord` is the heart: the
  artifact a reader selected by name is the one the record names by identity, so
  its uploader is the job that was selected. `Grows` (artifacts, signatures and
  successes are final) carries this over every step of others.
- `RuntimeMaterialization_proofs`: `TypeOK`, `PublishedWhole`, `AcceptedComplete`,
  `OwnDirectoryOnly`. `PlaceInv` says whose directory stands at which path: a run
  that is extracting has its own at `.partial`, and one that renamed it has its own
  at the destination, from where nothing is ever removed. `ExtractInv` says what of
  it is written, `MetadataInv` what manifest and receipt hold, `CheckInv` what a
  verification has measured; the last relies on a published payload being final.
- `RuntimeMaterialization_proofs`, of `RuntimeInspection`: `InspectTypeOK`,
  `FrozenSnapshot`, `RestoreAllOrNothing`, `NothingGrantedWhenDamaged`. The
  argument is that of a double collect. `HeldInv`: the change time of a file is at
  least the one recorded; `HashInv`: if it is the same, bytes and mode are those
  that were hashed; `LastLookInv`: if not all was as signed when the last look began,
  something that it has yet to compare is out of date, and remains so. `RestoreInv`
  relates the modes in the files to those recorded as replaced. For
  `NothingGrantedWhenDamaged`, `Confirmed` says that a file whose second look passed
  has good bytes unless somebody came after that look, and the grants follow the last.
- `EvidenceOperations_proofs`: `TypeOK`, `StoodTogether`, `ExposedIsVerified`,
  `FailureLeavesNoRequest`, for any inputs, documents, changes and failures. All of it
  rests on `Lost`: a file that is not as it was measured never is again, since whatever
  is written has a new fingerprint (`Stamped`). So a child that read other bytes
  (`Astray`) either left a file that the check after it cannot pass, or was shown a
  document of another directory, whose digest the comparison of the native result
  refuses; `Noticed` says which. `Whole` says the same of the last check. `Placed` says
  what has been done at each step, from lemmas about what stands where in the three
  programs (`Order` and those after it), and `Final` where a final document can be.
- `OwnerTransport_proofs`, of `RetainedOutput`: `RetainTypeOK`, `RetainedWhole`,
  `CleanedLeavesNothing`, `OthersKept`. `OpenInv`: the descriptor is on the directory recorded;
  `RecordInv`: the names recorded as created, and those a loop has left;
  `OwnInv`: every file of the attempt is in that directory and recorded, until it is
  removed; `ReadInv`: what was measured is still so unless others acted.
- `RecoveryHandoff_proofs`: `TypeOK`, `RecoveredAsJudged`, `DraftAtAdmittedTag`,
  `NoSecondDraftOnceAnswered`. `VerdictInv` is the key: an attempt has a verdict exactly when
  it is over, so the verdict of an attempt that was judged never changes. `ProgressInv` says what a recovery
  past each step knows, `TagInv` that a tag is the admitted one, or peels to the produced
  commit, unless moved after the last read of either, `DraftInv` all three promises of the drafts made so far.
- `CandidateAssembly_proofs`: `TypeOK`, `GenuineVerdicts`, `InventoryVerified`,
  `NoFoldedClash`, for any lanes, SDKs, clashing pairs and changes. The program is a
  sequence flattened from sets, so the first half says which steps it has and in which
  order: `Yields` gives each part's steps as a set, `Visits` and `Orders` what precedes
  what, `Sections` that all commands lie between `Opening` and `Closing`. The argument is
  that fingerprints only grow (`Marked`): `KeptFile` says that a file that a command
  found changed can no longer have the fingerprint that `Opening` held, so `Closing` does not
  pass (`NothingAstray`); this is how an exchange that the SDK program cannot see is
  noticed. SDK packages are held by bytes alone: the selected runtime never accepts other
  bytes of them, so `Selected` speaks of them, and of the SBOMs made from them, as long as
  no other program ran. It also says that every copy has the bytes selected, from stage to
  release. `ClashFree`: of two names that fold to one, only one is ever written, while a
  program that ends has written every member (`Left`, what each step leaves behind).
- `ReleaseMatrix_proofs`: `TypeOK`, `ExactlyProductsAccepted`, `WholeOrRefused`,
  `OwnersJoin`, for documents of any length, any names and any limits. Both directions
  of the first are about one order. `Ordered`: the keys of the lanes read ascend strictly,
  and a profile keeps its place when later ones are declared (`WithKeeps`). So alike lanes
  stand together with their hosts rising, and when every declared pair is crossed they
  stand in blocks of three (`Blocks`), which is the product (`Product`). Conversely the next
  lane of a product always follows (`Following`), so no beginning of one is refused, and a
  product has crossed every pair (`Closing`). `OnlyRange` and the lemmas beside it say what a
  filter keeps; a projection then has what was asked for, and as `Bound` compares what a
  helper read with what was validated, the owners of both helpers are of one plan.

In these two modules facts about sequences of any length are needed (a flattened sequence,
a filter). The library's induction theorems take an operator, which the provers cannot
instantiate; `Induction` and `NaturalInduction` state induction over a set of numbers
instead, and are proved from the pigeonhole principle for finite sets.

These proofs assume what the models assume, in particular that every write gives a file
a new fingerprint or change time. A directory above the selected inputs of
`EvidenceOperations` that is exchanged and moved back is not modelled.

Only model-checked:

- what holds under fairness (`QuietStartSeals`, `QuietReleaseConsumed`,
  `FullAttemptCollects`, `SomeCalmRunCompletes`, `RestoreResumes` and the other
  `Quiet...`): the prover handles neither fairness nor `ENABLED`.

Every invariant and every action property that a run checks, and each of the three
refinements, is a theorem.

## 5 Not modelled

Of all components: archive, JSON and HTTP formats, the cryptography of signatures (a
signature is the fact that its signer signed) and rate limits (a failed read). A list
that the provider returns in pages is one read. A row that goes away between two
pages can hide the next one from `paginated` of `release-admission-v2.py`, which
notices only rows it sees twice; `complete_jobs` compares totals.

Not modelled, or in part:

- the SDK owners and the SDK collector (`stage-sdk-owner-payload-v2.py`,
  `sdk-owner-transport-v2.py`, `read-sdk-owner-v2.sh`, `collect-sdk-owners-v2.sh`): the
  same transport as `OwnerTransport` with other payloads;
- admission of a lane (`admit-lane-v2.sh`, `native-lane-transport.py`), the builds;
- the selections before assembly (`select-native-release-evidence-v2.py`,
  `select-sdk-package-inputs-v2.py`), which read and print;
- inputs, preflights and caches, and `check-v2-runtime-interface.py`: one process
  that validates documents, files or help texts;
- `select-compiler-sdk-route-v2.py`, `select-replay-matrix.py`, `validate-release-tag.py`: one
  line of input;
- CI planning;
- the job graphs of `toolchain-release.yml`, of CI and of the replay workflow.

Left out of the modules there are, where a reader might look for it:

- `OwnerTransport`: a job's files are one body; `RetainedOutput` is their detail. The
  collector's repeated local measurements are inside `Collect`.
- `DispatchClaim`: a native run that reaches its entry before its dispatcher completed
  is refused (`verify-compiler-sdk-dispatch-binding-v2.py:141`), and its rerun is attempt
  2 and refused as well: the candidate is then lost. No installed caller waits for the
  completion, so this is a hazard the future workflow has to avoid; the model contains
  the behaviour and no property forbids it.
- `RetainedOutput`: between `mkdir` and the first `stat` another directory could take
  the name and become the recorded one. A look and the removal after it are two
  steps: what others put there in between is lost, which `raced` exempts. A file that
  others replaced by one with the same verified bytes is accepted.
- `RuntimeInspection`: an interrupt between a chmod and the note of it counts as a
  stopped machine, which nothing puts back.
- `RuntimeMaterialization`: an interrupt between the rename and leaving its `try`.
  A verifier that overlaps a run and a change of the lock file may accept a receipt
  whose digest is of the newer lock; `AcceptedComplete` says so.
- `EvidenceOperations`: the logs of child processes. The clean-up looks and unlinks
  in two steps, which `meddled` exempts. Recording a qualification neither compares
  the identity of its directory nor takes its document back when the very last check
  fails: the document was verified by then (`ExposedIsVerified`).
- `CandidateAssembly`: the events of the source run, and the contents of summaries.
  The SDK program compares bytes only, so a runtime exchanged and restored during its
  commands is noticed by the combined program alone. Members in the release directory
  are held by bytes: an index could describe bytes that were exchanged while it was
  made and put back, and nothing is claimed of it.
- `ReleaseMatrix`: formats and lengths of fields, counts, uniqueness of file names.
- `RecoveryHandoff`: when a tag is first fetched, its object and commit are read from
  the local clone in one step; the packages between request and release are one step. The source workflow plans
  only for `workflow_dispatch`, so on a tag push of the present revision the draft job
  is skipped, and only runs of earlier revisions qualify. Artifact names carry no
  attempt: only the attempt that retained its own inputs can be recovered. A rerun of
  the source after the judgement may draft beside the recovery under the source tag;
  the code does not prevent it and no property claims it.

## 6 Plan

In this order; each with its runs and the facts worth proving.

1. The transport of SDK owners and lane admission: an abstract specification of
   transport (a fragment appears, of one attempt, with each owner's bytes) that
   `OwnerTransport` implements and that both collectors share.
2. `ReleaseWorkflow`: the job graph of `toolchain-release.yml` with failed jobs and
   reruns, composed with `RecoveryHandoff`: no publication without every lane.
3. `PlanChanges`, when a change set may take the Markdown-only path, and the cache
   transport, as pure operators against reference definitions.
4. Listings in pages, with rows that come and go, as a module of their own under the
   reads of admission and artifact origin.
