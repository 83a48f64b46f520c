------------------------- MODULE OwnerTransport_proofs -------------------------
(***************************************************************************)
(* Proofs about the two halves of artifact-origin.py: OwnerTransport, for  *)
(* any number of lanes, attempts, readers and changes made by others, and  *)
(* RetainedOutput, for any set of names and any number of attempts, faults *)
(* and changes by others.                                                  *)
(*                                                                         *)
(* The promise about a fragment rests on the truth of signed records (an   *)
(* owner signs its own lane, attempt and upload) and on what the reader    *)
(* knows at each of its gates; both are part of the inductive invariant.   *)
(*                                                                         *)
(* The retention rests on where a file of the attempt can be: only under a *)
(* name that the attempt has on record, in the directory its descriptor is *)
(* open on, so a clean-up that visits the recorded names and then finds    *)
(* the directory empty has left nothing; and what the names and bytes were *)
(* when they were read holds from then on unless others act.               *)
(***************************************************************************)
EXTENDS OwnerTransport, RetainedOutput, FiniteSetTheorems, TLAPS

\* Numeric artifact identities are unique.
IdsUnique == /\ IsFiniteSet(artifacts)
             /\ \A a \in artifacts : a.id \in 1 .. Cardinality(artifacts)
             /\ \A a, b \in artifacts : a.id = b.id => a = b

JobsStarted == \A o \in Owners : job[o] # "none" => o[2] <= attempt

\* A record tells which job uploaded which bytes under which identity; an
\* owner's record also tells the owner's own lane and attempt.
Truthful(o) == /\ \E a \in artifacts : a.id = o.payload /\ a.body = o.digest /\ a.by = o.job
               /\ o.job # Stray => o.job = <<o.lane, o.attempt>>

MachineOf(l) ==
  /\ ~Executing(l) => pc[l] = "build" /\ mine[l] = 0
  /\ pc[l] # "build" => dir[l] \in Bytes
  /\ mine[l] # 0 => \E a \in artifacts : a.id = mine[l] /\ a.by = Me(l) /\ a.body \in Bytes
  /\ pc[l] \in {"sign", "proof", "finish"} => note[l] \in Origins /\ Truthful(note[l])

MachineInv == \A l \in Lanes : MachineOf(l)

SignedInv == \A o \in signed : Truthful(o)

GoodKept(k, n) == /\ k.attempt = n
                  /\ k.payload.by = <<k.lane, n>>
                  /\ job[k.payload.by] = "success"
                  /\ k.origin \in signed /\ k.origin.job = k.payload.by
                  /\ k.payload.body = k.origin.files

\* What a reader knows once it has passed a gate.
Known(r) ==
  /\ at[r] > 1 => sel[r].job \in Owners /\ job[sel[r].job] = "success"
  /\ at[r] > 2 => sel[r].payload \in artifacts
  /\ at[r] > 5 => origin[r] \in signed /\ RecordMatches(r, origin[r])

KeptInv(r) ==
  /\ status[r] # "reading" => kept[r] = {} /\ lane[r] = 1 /\ at[r] = 1
  /\ {k.lane : k \in kept[r]} = 1 .. lane[r] - 1
  /\ \A k, m \in kept[r] : k.lane = m.lane => k = m
  /\ \A k \in kept[r] : GoodKept(k, src[r])

ReaderInv == \A r \in Readers : Known(r) /\ KeptInv(r)

DeliveredInv == \A f \in delivered :
  /\ {k.lane : k \in f.kept} = Lanes
  /\ \A k, m \in f.kept : k.lane = m.lane => k = m
  /\ \A k \in f.kept : GoodKept(k, f.attempt)

Inv == TypeOK /\ IdsUnique /\ JobsStarted /\ MachineInv /\ SignedInv /\ ReaderInv /\ DeliveredInv

\* The part of TypeOK that a reader step touches.
ReaderTypes ==
  /\ status \in [Readers -> {"idle", "reading", "collected", "failed"}]
  /\ own \in [Readers -> 0 .. MaxAttempt] /\ src \in [Readers -> Attempts]
  /\ lane \in [Readers -> 1 .. NumLanes + 1] /\ at \in [Readers -> 1 .. 8]
  /\ sel \in [Readers -> Selections] /\ origin \in [Readers -> Origins \cup {None}]
  /\ kept \in [Readers -> SUBSET Retained]
  /\ delivered \subseteq [kept : SUBSET Retained, attempt : Attempts]

\* What every step preserves: artifacts, signatures and successes are final.
Grows == /\ artifacts \subseteq artifacts' /\ signed \subseteq signed'
         /\ \A o \in Owners : job[o] = "success" => job'[o] = "success"
-----------------------------------------------------------------------------
\* Nothing exists before the run starts, so the invariant holds at first.
LEMMA InitInv == Init => Inv
<1> SUFFICES ASSUME Init PROVE Inv
    OBVIOUS
<1> USE SizeAssumption DEF Init
<1>1. TypeOK
  BY DEF TypeOK, Attempts, Selections, Blank
<1>2. IdsUnique
  BY FS_EmptySet DEF IdsUnique
<1>3. JobsStarted
  BY DEF JobsStarted, Owners, Attempts
<1>4. MachineInv
  BY DEF MachineInv, MachineOf
<1>5. ReaderInv
  BY DEF ReaderInv, Known, KeptInv
<1>6. SignedInv /\ DeliveredInv
  BY DEF SignedInv, DeliveredInv
<1>. QED BY <1>1, <1>2, <1>3, <1>4, <1>5, <1>6 DEF Inv

\* A new artifact gets an identity no other has (the numeric artifact id of
\* the upload step, by which every later read selects it).
LEMMA FreshId ==
  ASSUME IdsUnique
  PROVE  /\ NextId \in Nat \ {0}
         /\ \A a \in artifacts : a.id # NextId
         /\ \A x : x.id = NextId /\ artifacts' = artifacts \cup {x} => IdsUnique'
<1>1. Cardinality(artifacts) \in Nat
  BY FS_CardinalityType DEF IdsUnique
<1>2. \A a \in artifacts : a.id # NextId
  BY <1>1 DEF IdsUnique, NextId
<1>3. ASSUME NEW x, x.id = NextId, artifacts' = artifacts \cup {x}
      PROVE  IdsUnique'
  <2>1. x \notin artifacts
    BY <1>2, <1>3
  <2>2. IsFiniteSet(artifacts') /\ Cardinality(artifacts') = Cardinality(artifacts) + 1
    BY <1>3, <2>1, FS_AddElement DEF IdsUnique
  <2>3. \A a \in artifacts' : a.id \in 1 .. Cardinality(artifacts')
    BY <1>1, <1>3, <2>2 DEF IdsUnique, NextId
  <2>4. \A a, b \in artifacts' : a.id = b.id => a = b
    BY <1>2, <1>3 DEF IdsUnique
  <2>. QED BY <2>2, <2>3, <2>4 DEF IdsUnique
<1>. QED BY <1>1, <1>2, <1>3 DEF NextId

\* A retained payload stays as good as it was.
LEMMA GoodStays ==
  ASSUME Grows, NEW k \in Retained, NEW n \in Attempts, GoodKept(k, n)
  PROVE  GoodKept(k, n)'
<1>1. k.payload.by \in Owners
  BY DEF GoodKept, Retained, Owners
<1>2. job'[k.payload.by] = "success"
  BY <1>1 DEF GoodKept, Grows
<1>. QED BY <1>2 DEF GoodKept, Grows

\* What was true of records, retained payloads and fragments stays true while
\* readers do nothing.
LEMMA ReadersKept ==
  ASSUME TypeOK, ReaderInv, DeliveredInv, Grows, UNCHANGED reader
  PROVE  ReaderInv' /\ DeliveredInv'
<1> USE DEF reader
<1>1. ReaderInv'
  <2> SUFFICES ASSUME NEW r \in Readers PROVE Known(r)' /\ KeptInv(r)'
    BY DEF ReaderInv
  <2>1. Known(r)'
    BY DEF ReaderInv, Known, Grows, RecordMatches
  <2>2. \A k \in kept[r] : GoodKept(k, src[r])'
    BY GoodStays DEF ReaderInv, KeptInv, TypeOK
  <2>. QED BY <2>1, <2>2 DEF ReaderInv, KeptInv
<1>2. DeliveredInv'
  <2> SUFFICES ASSUME NEW f \in delivered, NEW k \in f.kept PROVE GoodKept(k, f.attempt)'
    BY DEF DeliveredInv
  <2>. QED BY GoodStays DEF DeliveredInv, TypeOK
<1>. QED BY <1>1, <1>2

\* Records keep what they tell: what they tell of is never changed.
LEMMA RecordsKept ==
  ASSUME Grows, NEW o, Truthful(o)
  PROVE  (\E a \in artifacts' : a.id = o.payload /\ a.body = o.digest /\ a.by = o.job)
         /\ (o.job # Stray => o.job = <<o.lane, o.attempt>>)
  BY DEF Grows, Truthful

\* The machine of an owner job keeps its invariant while the job does nothing.
LEMMA MachineKept ==
  ASSUME Grows, NEW l \in Lanes, MachineOf(l), attempt' = attempt,
         job'[Me(l)] = job[Me(l)], pc'[l] = pc[l], dir'[l] = dir[l],
         mine'[l] = mine[l], note'[l] = note[l]
  PROVE  MachineOf(l)'
<1>1. Executing(l)' <=> Executing(l)
  BY DEF Executing, Me
<1>2. mine[l] # 0 => \E a \in artifacts' : a.id = mine[l] /\ a.by = Me(l)' /\ a.body \in Bytes
  BY DEF MachineOf, Grows, Me
<1>3. pc[l] \in {"sign", "proof", "finish"} => note'[l] \in Origins /\ Truthful(note[l])'
  BY RecordsKept DEF MachineOf, Truthful
<1>. QED BY <1>1, <1>2, <1>3 DEF MachineOf

\* A concluded owner job leaves nothing behind.
LEMMA MachineConcluded ==
  ASSUME TypeOK, MachineInv, Grows, NEW l \in Lanes, NEW how \in {"success", "failure"},
         Conclude(l, how), attempt' = attempt
  PROVE  MachineInv'
<1> SUFFICES ASSUME NEW m \in Lanes PROVE MachineOf(m)'
    BY DEF MachineInv
<1>1. Me(l) \in Owners /\ Me(m) \in Owners
  BY DEF Me, Owners, TypeOK
<1>2. CASE m = l
  BY <1>1, <1>2 DEF MachineOf, Conclude, TypeOK
<1>3. CASE m # l
  <2>1. Me(m) # Me(l)
    BY <1>3 DEF Me
  <2>2. /\ job'[Me(m)] = job[Me(m)] /\ pc'[m] = pc[m] /\ dir'[m] = dir[m]
        /\ mine'[m] = mine[m] /\ note'[m] = note[m]
    BY <1>1, <1>3, <2>1 DEF Conclude, TypeOK
  <2>. QED BY <2>2, MachineKept DEF MachineInv
<1>. QED BY <1>2, <1>3

\* A rerun starts with every machine at rest.
LEMMA MachineAtRest ==
  ASSUME TypeOK, MachineInv, UNCHANGED machine, \A l \in Lanes : ~Executing(l)
  PROVE  MachineInv'
  BY DEF MachineInv, MachineOf, machine

-----------------------------------------------------------------------------
\* Artifacts are never changed, signatures never withdrawn, and a job that
\* succeeded is never run again under the same attempt.
LEMMA StepGrows ==
  ASSUME TypeOK, JobsStarted, [Next]_vars
  PROVE  Grows
<1>1. ASSUME NEW l \in Lanes, OwnerStep(l) PROVE Grows
  <2>1. ASSUME NEW how, Executing(l), Conclude(l, how)
        PROVE  \A o \in Owners : job[o] = "success" => job'[o] = "success"
    BY <2>1 DEF Conclude, Executing, TypeOK
  <2>2. CASE Build(l) \/ RecordOrigin(l) \/ Sign(l)
    BY <2>2 DEF Build, RecordOrigin, Sign, Then, store, Grows
  <2>3. CASE UploadPayload(l) \/ UploadProof(l)
    BY <2>1, <2>3 DEF UploadPayload, UploadProof, AtStep, Then, Add, Grows
  <2>4. CASE Finish(l) \/ FailOwner(l)
    BY <2>1, <2>4 DEF Finish, FailOwner, AtStep, store, Grows
  <2>. QED BY <1>1, <2>2, <2>3, <2>4 DEF OwnerStep
<1>2. ASSUME NEW r \in Readers, ReaderStep(r) \/ (\E n \in Attempts : Start(r, n)) PROVE Grows
  BY <1>2 DEF ReaderStep, Start, SelectJob, SelectArtifacts, Confirm, OpenProof, Retain,
              Collect, Refuse, run, store, Grows
<1>3. ASSUME NEW lanes, NewAttempt(lanes) PROVE Grows
  <2>1. \A o \in Owners : job[o] = "success" => job'[o] = "success"
    <3> SUFFICES ASSUME NEW o \in Owners, job[o] = "success" PROVE job'[o] = "success"
        OBVIOUS
    <3>1. attempt \in Int /\ o[2] \in Int
      BY DEF TypeOK, Owners, Attempts
    <3>2. o[2] <= attempt
      BY DEF JobsStarted
    <3>3. ~(o[2] = attempt + 1)
      BY <3>1, <3>2
    <3>. QED BY <1>3, <3>3 DEF NewAttempt
  <2>. QED BY <1>3, <2>1 DEF NewAttempt, store, Grows
<1>4. CASE Others
  BY <1>4 DEF Others, Rewrite, Expire, Delete, StrayPayload, StrayProof, Replace, Change, run,
              store, Grows
<1>5. CASE UNCHANGED vars
  BY <1>5 DEF vars, run, store, Grows
<1>. QED BY <1>1, <1>2, <1>3, <1>4, <1>5 DEF Next, RerunAll, RerunFailed

\* An owner job is a machine step: whatever readers hold is out of its reach.
LEMMA MachineMoves ==
  ASSUME TypeOK, MachineInv, Grows, NEW l \in Lanes, attempt' = attempt, MachineOf(l)',
         \A m \in Lanes \ {l} : /\ job'[Me(m)] = job[Me(m)] /\ pc'[m] = pc[m]
                                /\ dir'[m] = dir[m] /\ mine'[m] = mine[m] /\ note'[m] = note[m]
  PROVE  MachineInv'
  BY MachineKept DEF MachineInv

\* Names, records and artifacts of an owner job have their types.
LEMMA OwnerTypes ==
  ASSUME TypeOK, IdsUnique, NEW l \in Lanes
  PROVE  /\ Me(l) \in Owners
         /\ NextId \in Nat \ {0}
         /\ \A k \in {"payload", "proof"} : Name(k, l, attempt) \in Names
         /\ \A k \in {"payload", "proof"}, b \in Bytes \cup Origins :
              [id |-> NextId, name |-> Name(k, l, attempt), by |-> Me(l), body |-> b] \in Artifacts
<1>1. attempt \in Attempts
  BY DEF TypeOK
<1>2. Me(l) \in Owners
  BY <1>1 DEF Me, Owners
<1>3. NextId \in Nat \ {0}
  BY FreshId
<1>4. \A k \in {"payload", "proof"} : Name(k, l, attempt) \in Names
  BY <1>1 DEF Name, Names
<1>. QED BY <1>2, <1>3, <1>4 DEF Artifacts

\* Concluding a job keeps the types.
LEMMA ConcludeTypes ==
  ASSUME TypeOK, NEW l \in Lanes, NEW how \in {"success", "failure"}, Conclude(l, how),
         UNCHANGED <<attempt, listed, expired, signed, reader, spent>>,
         artifacts' \subseteq Artifacts, live' \subseteq Nat
  PROVE  TypeOK' /\ (JobsStarted => JobsStarted')
<1>1. job' \in [Owners -> {"none", "in_progress", "success", "failure"}]
  BY DEF TypeOK, Conclude
<1>2. /\ pc' \in [Lanes -> {"build", "upload", "record", "sign", "proof", "finish"}]
      /\ dir' \in [Lanes -> Bytes \cup {None}] /\ mine' \in [Lanes -> Nat]
      /\ note' \in [Lanes -> Origins \cup {None}]
  BY DEF TypeOK, Conclude
<1>3. TypeOK'
  BY <1>1, <1>2 DEF TypeOK, reader
<1>4. JobsStarted => JobsStarted'
  <2> SUFFICES ASSUME JobsStarted, NEW o \in Owners, job'[o] # "none" PROVE o[2] <= attempt
      BY DEF JobsStarted
  <2>1. CASE o = Me(l)
    BY <2>1 DEF Me, TypeOK, Attempts
  <2>2. CASE o # Me(l)
    BY <2>2 DEF Conclude, TypeOK, JobsStarted
  <2>. QED BY <2>1, <2>2
<1>. QED BY <1>3, <1>4

\* An owner job that concludes, with or without a last upload, keeps the invariant.
LEMMA ConcludeInv ==
  ASSUME Inv, Grows, NEW l \in Lanes, NEW how \in {"success", "failure"}, Conclude(l, how),
         UNCHANGED <<attempt, listed, expired, signed, reader, spent>>,
         \/ UNCHANGED <<artifacts, live>>
         \/ \E k \in {"payload", "proof"}, b \in Bytes \cup Origins :
              Add(Name(k, l, attempt), Me(l), b)
  PROVE  Inv'
<1>1. artifacts' \subseteq Artifacts /\ live' \subseteq Nat
  BY OwnerTypes DEF Inv, TypeOK, Add
<1>2. IdsUnique'
  <2>1. CASE UNCHANGED <<artifacts, live>>
    BY <2>1 DEF Inv, IdsUnique
  <2>2. CASE \E k \in {"payload", "proof"}, b \in Bytes \cup Origins :
               Add(Name(k, l, attempt), Me(l), b)
    BY <2>2, FreshId DEF Inv, Add
  <2>. QED BY <2>1, <2>2
<1>3. SignedInv'
  BY RecordsKept DEF Inv, SignedInv, Truthful
<1>. QED BY <1>1, <1>2, <1>3, ConcludeTypes, MachineConcluded, ReadersKept DEF Inv

\* The next step of a job that executes: only its own machine moves, and of
\* the run only what it uploads or signs.
LEMMA ThenInv ==
  ASSUME Inv, Grows, NEW l \in Lanes, UNCHANGED <<attempt, listed, job, expired, reader, spent>>,
         IdsUnique', SignedInv', MachineOf(l)',
         \A m \in Lanes \ {l} : /\ pc'[m] = pc[m] /\ dir'[m] = dir[m]
                                /\ mine'[m] = mine[m] /\ note'[m] = note[m],
         artifacts' \subseteq Artifacts, live' \subseteq Nat, signed' \subseteq Origins,
         pc' \in [Lanes -> {"build", "upload", "record", "sign", "proof", "finish"}],
         dir' \in [Lanes -> Bytes \cup {None}], mine' \in [Lanes -> Nat],
         note' \in [Lanes -> Origins \cup {None}]
  PROVE  Inv'
<1>1. TypeOK'
  BY DEF Inv, TypeOK, reader
<1>2. JobsStarted'
  BY DEF Inv, JobsStarted
<1>3. MachineInv'
  BY MachineMoves DEF Inv
<1>4. ReaderInv' /\ DeliveredInv'
  BY ReadersKept DEF Inv
<1>. QED BY <1>1, <1>2, <1>3, <1>4 DEF Inv

LEMMA BuildInv ==
  ASSUME Inv, Grows, NEW l \in Lanes, Build(l)
  PROVE  Inv'
<1> USE DEF Build, AtStep, Then, store
<1>1. MachineOf(l)'
  <2>1. Executing(l)' /\ pc'[l] = "upload" /\ dir'[l] \in Bytes
    BY DEF Inv, TypeOK, Executing, Me
  <2>. QED BY <2>1 DEF Inv, MachineInv, MachineOf, Me
<1>2. IdsUnique' /\ SignedInv'
  BY RecordsKept DEF Inv, IdsUnique, SignedInv, Truthful
<1>3. /\ UNCHANGED <<attempt, listed, job, expired, reader, spent>>
      /\ UNCHANGED <<artifacts, live, signed>>
  OBVIOUS
<1>4. \A m \in Lanes \ {l} : /\ pc'[m] = pc[m] /\ dir'[m] = dir[m]
                             /\ mine'[m] = mine[m] /\ note'[m] = note[m]
  BY DEF Inv, TypeOK
<1>5. /\ artifacts' \subseteq Artifacts /\ live' \subseteq Nat /\ signed' \subseteq Origins
      /\ mine' \in [Lanes -> Nat] /\ note' \in [Lanes -> Origins \cup {None}]
  BY DEF Inv, TypeOK
<1>6. /\ pc' \in [Lanes -> {"build", "upload", "record", "sign", "proof", "finish"}]
      /\ dir' \in [Lanes -> Bytes \cup {None}]
  BY DEF Inv, TypeOK
<1>. QED BY ONLY Inv, Grows, l \in Lanes, <1>1, <1>2, <1>3, <1>4, <1>5, <1>6, ThenInv

LEMMA UploadPayloadInv ==
  ASSUME Inv, Grows, NEW l \in Lanes, UploadPayload(l)
  PROVE  Inv'
<1>1. dir[l] \in Bytes
  BY DEF UploadPayload, AtStep, Inv, MachineInv, MachineOf
<1>2. CASE attempt \in Faulty /\ Conclude(l, "failure")
  BY <1>1, <1>2, ConcludeInv DEF UploadPayload
<1>3. CASE Then(l, "record") /\ mine' = [mine EXCEPT ![l] = NextId] /\ UNCHANGED <<dir, note>>
  <2> USE DEF Inv
  <2>1. NextId \in Nat \ {0}
    BY OwnerTypes
  <2>2. MachineOf(l)'
    <3> DEFINE a == [id |-> NextId, name |-> Name("payload", l, attempt), by |-> Me(l),
                     body |-> dir[l]]
    <3>1. a \in artifacts' /\ a.id = mine'[l] /\ a.by = Me(l)' /\ a.body \in Bytes
      BY <1>1, <1>3 DEF UploadPayload, Add, TypeOK, Me
    <3>3. Executing(l)' /\ pc'[l] = "record" /\ dir'[l] = dir[l]
      BY <1>3 DEF UploadPayload, AtStep, Executing, Me, Then, TypeOK
    <3>. QED BY <1>1, <3>1, <3>3 DEF MachineOf
  <2>3. IdsUnique'
    BY FreshId DEF UploadPayload, Add
  <2>4. SignedInv'
    BY RecordsKept DEF UploadPayload, SignedInv, Truthful
  <2>5. artifacts' \subseteq Artifacts /\ live' \subseteq Nat
    BY <1>1, OwnerTypes DEF UploadPayload, Add, TypeOK
  <2>. QED BY <1>3, <2>1, <2>2, <2>3, <2>4, <2>5, ThenInv DEF UploadPayload, Then, TypeOK
<1>. QED BY <1>2, <1>3 DEF UploadPayload

LEMMA RecordOriginInv ==
  ASSUME Inv, Grows, NEW l \in Lanes, RecordOrigin(l)
  PROVE  Inv'
<1> USE DEF Inv
<1>1. PICK a \in artifacts :
        /\ a.id = mine[l]
        /\ note' = [note EXCEPT ![l] = Record(attempt, l, Me(l), a.id, a.body, dir[l])]
  BY DEF RecordOrigin
<1> DEFINE o == Record(attempt, l, Me(l), a.id, a.body, dir[l])
<1>2. a.by = Me(l) /\ a.body \in Bytes /\ a.id \in Nat
  <2>1. mine[l] # 0
    BY <1>1 DEF IdsUnique
  <2>2. PICK b \in artifacts : b.id = mine[l] /\ b.by = Me(l) /\ b.body \in Bytes
    BY <2>1 DEF MachineInv, MachineOf
  <2>3. a = b
    BY <1>1, <2>2 DEF IdsUnique
  <2>. QED BY <2>2, <2>3 DEF TypeOK, Artifacts
<1>3. dir[l] \in Bytes
  BY DEF RecordOrigin, AtStep, MachineInv, MachineOf
<1>4. o \in Origins
  BY <1>2, <1>3, OwnerTypes DEF Record, Origins, TypeOK
<1>5. Truthful(o)
  BY <1>2 DEF Truthful, Record, Me
<1>6. UNCHANGED artifacts
  BY DEF RecordOrigin, store
<1>7. MachineOf(l)'
  <2>1. Executing(l)' /\ pc'[l] = "sign" /\ dir'[l] = dir[l] /\ note'[l] = o
    BY <1>1 DEF RecordOrigin, AtStep, Executing, Me, Then, TypeOK
  <2>2. mine'[l] = mine[l] /\ Me(l)' = Me(l)
    BY DEF RecordOrigin, Me
  <2>3. Truthful(note[l])'
    BY <1>5, <1>6, <2>1 DEF Truthful
  <2>4. mine[l] # 0 => \E b \in artifacts' : b.id = mine'[l] /\ b.by = Me(l)' /\ b.body \in Bytes
    BY <1>6, <2>2 DEF MachineInv, MachineOf
  <2>. QED BY <1>3, <1>4, <2>1, <2>2, <2>3, <2>4 DEF MachineOf
<1>8. IdsUnique' /\ SignedInv'
  BY <1>6, RecordsKept DEF RecordOrigin, store, IdsUnique, SignedInv, Truthful
<1>. QED BY <1>1, <1>4, <1>7, <1>8, ThenInv DEF RecordOrigin, Then, store, TypeOK

LEMMA SignInv ==
  ASSUME Inv, Grows, NEW l \in Lanes, Sign(l)
  PROVE  Inv'
<1> USE DEF Inv
<1>1. note[l] \in Origins /\ Truthful(note[l])
  BY DEF Sign, AtStep, MachineInv, MachineOf
<1>2. UNCHANGED artifacts
  BY DEF Sign
<1>3. MachineOf(l)'
  <2>1. Executing(l)' /\ pc'[l] = "proof" /\ note' = note /\ mine'[l] = mine[l] /\ Me(l)' = Me(l)
    BY DEF Sign, AtStep, Executing, Me, Then, TypeOK
  <2>2. Truthful(note[l])'
    BY <1>1, <1>2, <2>1 DEF Truthful
  <2>3. dir'[l] \in Bytes
    BY DEF Sign, AtStep, MachineInv, MachineOf
  <2>4. mine[l] # 0 => \E b \in artifacts' : b.id = mine'[l] /\ b.by = Me(l)' /\ b.body \in Bytes
    BY <1>2, <2>1 DEF Sign, MachineInv, MachineOf
  <2>. QED BY <1>1, <2>1, <2>2, <2>3, <2>4 DEF MachineOf
<1>4. SignedInv'
  BY <1>1, <1>2 DEF Sign, SignedInv, Truthful
<1>5. IdsUnique'
  BY <1>2 DEF IdsUnique
<1>. QED BY <1>1, <1>3, <1>4, <1>5, ThenInv DEF Sign, Then, TypeOK

LEMMA UploadProofInv ==
  ASSUME Inv, Grows, NEW l \in Lanes, UploadProof(l)
  PROVE  Inv'
<1>1. note[l] \in Origins /\ Truthful(note[l])
  BY DEF UploadProof, AtStep, Inv, MachineInv, MachineOf
<1>2. CASE attempt \in Faulty /\ Conclude(l, "failure")
  BY <1>1, <1>2, ConcludeInv DEF UploadProof
<1>3. CASE Then(l, "finish") /\ UNCHANGED <<dir, mine, note>>
  <2> USE DEF Inv
  <2>1. MachineOf(l)'
    <3>1. Executing(l)' /\ pc'[l] = "finish" /\ Me(l)' = Me(l)
      BY <1>3 DEF UploadProof, AtStep, Executing, Me, Then, TypeOK
    <3>2. Truthful(note[l])'
      BY <1>1, <1>3, RecordsKept DEF Truthful
    <3>3. dir[l] \in Bytes
      BY DEF UploadProof, AtStep, MachineInv, MachineOf
    <3>4. mine[l] # 0 => \E b \in artifacts' : b.id = mine[l] /\ b.by = Me(l)' /\ b.body \in Bytes
      BY <3>1 DEF Grows, MachineInv, MachineOf
    <3>. QED BY <1>1, <1>3, <3>1, <3>2, <3>3, <3>4 DEF MachineOf
  <2>2. IdsUnique'
    BY FreshId DEF UploadProof, Add
  <2>3. SignedInv'
    BY RecordsKept DEF UploadProof, SignedInv, Truthful
  <2>4. artifacts' \subseteq Artifacts /\ live' \subseteq Nat
    BY <1>1, OwnerTypes DEF UploadProof, Add, TypeOK
  <2>. QED BY <1>3, <2>1, <2>2, <2>3, <2>4, ThenInv DEF UploadProof, Then, TypeOK
<1>. QED BY <1>2, <1>3 DEF UploadProof

LEMMA OwnerInv ==
  ASSUME Inv, Grows, NEW l \in Lanes, OwnerStep(l)
  PROVE  Inv'
<1>1. CASE Finish(l) \/ FailOwner(l)
  BY <1>1, ConcludeInv DEF Finish, FailOwner, store
<1>. QED BY <1>1, BuildInv, UploadPayloadInv, RecordOriginInv, SignInv, UploadProofInv
         DEF OwnerStep

\* A rerun begins when the run is over: no owner job is at work, and no
\* reader job of the run is under way.
LEMMA NewAttemptInv ==
  ASSUME Inv, Grows, NEW lanes, NewAttempt(lanes)
  PROVE  Inv'
<1> USE DEF Inv
<1>1. attempt \in Nat /\ attempt' = attempt + 1 /\ attempt' \in Attempts
  BY SizeAssumption DEF NewAttempt, TypeOK, Attempts
<1>2. TypeOK'
  <2>1. listed' \in [Attempts -> [Lanes -> Attempts]]
    BY <1>1 DEF NewAttempt, TypeOK
  <2>2. job' \in [Owners -> {"none", "in_progress", "success", "failure"}]
    BY DEF NewAttempt, TypeOK
  <2>3. status' \in [Readers -> {"idle", "reading", "collected", "failed"}]
    BY DEF NewAttempt, TypeOK
  <2>. QED BY <1>1, <2>1, <2>2, <2>3 DEF NewAttempt, TypeOK, store, machine
<1>3. JobsStarted'
  <2> SUFFICES ASSUME NEW o \in Owners, job'[o] # "none" PROVE o[2] <= attempt'
      BY DEF JobsStarted
  <2>1. o[2] \in Int
    BY DEF Owners, Attempts
  <2>2. CASE o[2] = attempt + 1
    BY <1>1, <2>1, <2>2
  <2>3. CASE o[2] # attempt + 1
    <3>1. job[o] # "none"
      BY <2>3 DEF NewAttempt
    <3>. QED BY <1>1, <2>1, <3>1 DEF JobsStarted
  <2>. QED BY <2>2, <2>3
<1>4. MachineInv'
  BY MachineAtRest DEF NewAttempt, Over
<1>5. IdsUnique' /\ SignedInv'
  BY DEF NewAttempt, store, IdsUnique, SignedInv, Truthful
<1>6. ReaderInv' /\ DeliveredInv'
  <2>1. ASSUME NEW r \in Readers PROVE Known(r)' /\ KeptInv(r)'
    <3>1. Known(r)'
      BY DEF NewAttempt, ReaderInv, Known, Grows, RecordMatches
    <3>2. \A k \in kept[r] : GoodKept(k, src[r])'
      BY GoodStays DEF NewAttempt, ReaderInv, KeptInv, TypeOK
    <3>3. status'[r] # "reading" => status[r] # "reading"
      BY DEF NewAttempt, Over
    <3>. QED BY <3>1, <3>2, <3>3 DEF NewAttempt, ReaderInv, KeptInv
  <2>2. DeliveredInv'
    BY GoodStays DEF NewAttempt, DeliveredInv, TypeOK
  <2>. QED BY <2>1, <2>2 DEF ReaderInv
<1>. QED BY <1>2, <1>3, <1>4, <1>5, <1>6

-----------------------------------------------------------------------------
\* A reader step leaves the run, its artifacts and the other readers alone.
LEMMA ReaderMoves ==
  ASSUME Inv, Grows, NEW r \in Readers, UNCHANGED <<run, store, machine, spent>>,
         \A q \in Readers \ {r} :
           /\ status'[q] = status[q] /\ src'[q] = src[q] /\ lane'[q] = lane[q]
           /\ at'[q] = at[q] /\ sel'[q] = sel[q] /\ origin'[q] = origin[q] /\ kept'[q] = kept[q],
         ReaderTypes', Known(r)', KeptInv(r)', DeliveredInv'
  PROVE  Inv'
<1> USE DEF Inv
<1>1. TypeOK'
  BY DEF ReaderTypes, TypeOK, run, store, machine
<1>2. IdsUnique' /\ JobsStarted' /\ SignedInv'
  BY DEF IdsUnique, JobsStarted, SignedInv, Truthful, run, store
<1>3. MachineInv'
  BY MachineKept DEF MachineInv, run, machine
<1>4. ASSUME NEW q \in Readers \ {r} PROVE Known(q)' /\ KeptInv(q)'
  <2>1. Known(q)'
    BY DEF ReaderInv, Known, Grows, RecordMatches
  <2>2. \A k \in kept[q] : GoodKept(k, src[q])'
    BY GoodStays DEF ReaderInv, KeptInv, TypeOK
  <2>. QED BY <2>1, <2>2 DEF ReaderInv, KeptInv
<1>5. ReaderInv'
  BY <1>4 DEF ReaderInv
<1>. QED BY <1>1, <1>2, <1>3, <1>5

\* Fragments already installed stay as good as they were.
LEMMA DeliveredStays ==
  ASSUME TypeOK, DeliveredInv, Grows, delivered' = delivered
  PROVE  DeliveredInv'
  BY GoodStays DEF DeliveredInv, TypeOK

\* What a reader retained stays as good while it reads on.
LEMMA KeptStays ==
  ASSUME TypeOK, ReaderInv, Grows, NEW r \in Readers, status'[r] = status[r],
         src'[r] = src[r], lane'[r] = lane[r], kept'[r] = kept[r],
         status[r] # "reading" => at'[r] = 1
  PROVE  KeptInv(r)'
<1>1. \A k \in kept[r] : GoodKept(k, src[r])'
  BY GoodStays DEF ReaderInv, KeptInv, TypeOK
<1>. QED BY <1>1 DEF ReaderInv, KeptInv

\* Where a reader reads and what its next gate is.
LEMMA GateFacts ==
  ASSUME TypeOK, NEW r \in Readers, NEW g, AtGate(r, g)
  PROVE  /\ status[r] = "reading" /\ lane[r] \in Lanes /\ at[r] \in 1 .. 8
         /\ g = "job" <=> at[r] = 1
         /\ g = "artifacts" <=> at[r] = 2
         /\ g = "record" <=> at[r] = 5
         /\ g = "bytes" <=> at[r] = 8
<1>1. at[r] \in 1 .. 8
  BY DEF TypeOK
<1>2. \/ at[r] = 1 \/ at[r] = 2 \/ at[r] = 3 \/ at[r] = 4
      \/ at[r] = 5 \/ at[r] = 6 \/ at[r] = 7 \/ at[r] = 8
  BY <1>1
<1>. QED BY <1>1, <1>2 DEF AtGate, Reading, Gates

\* A job that is listed as succeeded is an owner job of that lane.
LEMMA JobTypes ==
  ASSUME TypeOK, NEW l \in Lanes, NEW n \in Attempts
  PROVE  JobListed(l, n) \in Owners
  BY DEF JobListed, Owners, TypeOK

LEMMA StartInv ==
  ASSUME Inv, Grows, NEW r \in Readers, NEW n \in Attempts, Start(r, n)
  PROVE  Inv'
<1> USE DEF Inv
<1>1. ReaderTypes'
  BY SizeAssumption DEF Start, ReaderTypes, TypeOK, Attempts
<1>2. Known(r)' /\ KeptInv(r)'
  <2>1. status[r] = "idle" /\ kept[r] = {} /\ lane[r] = 1 /\ at[r] = 1
    BY DEF Start, ReaderInv, KeptInv
  <2>2. kept'[r] = {} /\ lane'[r] = 1 /\ at'[r] = 1
    BY <2>1 DEF Start
  <2>. QED BY <2>2 DEF Known, KeptInv
<1>3. DeliveredInv'
  BY DeliveredStays DEF Start
<1>. QED BY <1>1, <1>2, <1>3, ReaderMoves DEF Start, TypeOK

LEMMA SelectJobInv ==
  ASSUME Inv, Grows, NEW r \in Readers, SelectJob(r)
  PROVE  Inv'
<1> USE DEF Inv
<1>1. status[r] = "reading" /\ lane[r] \in Lanes /\ at[r] = 1 /\ at'[r] = 2
  BY GateFacts DEF SelectJob, Advance, TypeOK
<1>2. JobListed(lane[r], src[r]) \in Owners /\ job[JobListed(lane[r], src[r])] = "success"
  BY <1>1, JobTypes DEF SelectJob, Holds, Succeeded, TypeOK
<1>3. sel'[r].job = JobListed(lane[r], src[r])
  BY DEF SelectJob, TypeOK, Selections
<1>4. ReaderTypes'
  <2>1. sel' \in [Readers -> Selections]
    <3>1. sel \in [Readers -> Selections]  BY DEF TypeOK
    <3>2. sel' = [sel EXCEPT ![r] = [@ EXCEPT !.job = JobListed(lane[r], src[r])]]  BY DEF SelectJob
    <3>3. [sel[r] EXCEPT !.job = JobListed(lane[r], src[r])] \in Selections
      BY <1>2, <3>1 DEF Selections
    <3>. QED BY ONLY <3>1, <3>2, <3>3, r \in Readers
  <2>2. at' \in [Readers -> 1 .. 8]
    BY <1>1 DEF SelectJob, Advance, TypeOK
  <2>. QED BY <2>1, <2>2 DEF SelectJob, ReaderTypes, TypeOK
<1>5. Known(r)'
  BY <1>1, <1>2, <1>3 DEF Known, SelectJob, run
<1>6. KeptInv(r)' /\ DeliveredInv'
  BY <1>1, KeptStays, DeliveredStays DEF SelectJob
<1>. QED BY <1>4, <1>5, <1>6, ReaderMoves DEF SelectJob, Advance, TypeOK

LEMMA SelectArtifactsInv ==
  ASSUME Inv, Grows, NEW r \in Readers, SelectArtifacts(r)
  PROVE  Inv'
<1> USE DEF Inv
<1>1. status[r] = "reading" /\ at[r] = 2 /\ at'[r] = 3
  BY GateFacts DEF SelectArtifacts, Advance, TypeOK
<1>2. PICK p, q \in artifacts : sel' = [sel EXCEPT ![r].payload = p, ![r].proof = q]
  BY DEF SelectArtifacts
<1>3. sel'[r].payload \in artifacts /\ sel'[r].job = sel[r].job
  BY <1>2 DEF TypeOK, Selections
<1>4. ReaderTypes'
  <2>1. sel' \in [Readers -> Selections]
    <3>1. sel[r] \in Selections /\ p \in Artifacts /\ q \in Artifacts
      BY DEF TypeOK
    <3>2. [[sel[r] EXCEPT !.payload = p] EXCEPT !.proof = q] \in Selections
      BY <3>1 DEF Selections
    <3>3. sel' = [sel EXCEPT ![r] = [[sel[r] EXCEPT !.payload = p] EXCEPT !.proof = q]]
      BY <1>2 DEF TypeOK
    <3>. QED BY <3>2, <3>3 DEF TypeOK
  <2>2. at' \in [Readers -> 1 .. 8]
    BY <1>1 DEF SelectArtifacts, Advance, TypeOK
  <2>. QED BY <2>1, <2>2 DEF SelectArtifacts, ReaderTypes, TypeOK
<1>5. Known(r)'
  BY <1>1, <1>3 DEF Known, SelectArtifacts, run, store, ReaderInv
<1>6. KeptInv(r)' /\ DeliveredInv'
  BY <1>1, KeptStays, DeliveredStays DEF SelectArtifacts
<1>. QED BY <1>2, <1>4, <1>5, <1>6, ReaderMoves DEF SelectArtifacts, Advance, TypeOK

LEMMA ConfirmInv ==
  ASSUME Inv, Grows, NEW r \in Readers, Confirm(r)
  PROVE  Inv'
<1> USE DEF Inv
<1>1. PICK g \in {"owner", "proof", "joined", "payload"} : AtGate(r, g)
  BY DEF Confirm
<1>2. status[r] = "reading" /\ at[r] \in 1 .. 8 /\ at[r] \notin {1, 2, 5, 8} /\ at'[r] = at[r] + 1
  BY <1>1, GateFacts DEF Confirm, Advance, TypeOK
<1>3. ReaderTypes'
  <2>1. at' \in [Readers -> 1 .. 8]
    BY <1>2 DEF Confirm, Advance, TypeOK
  <2>. QED BY <2>1 DEF Confirm, ReaderTypes, TypeOK
<1>4. Known(r)'
  BY <1>2 DEF Known, RecordMatches, Confirm, run, store, ReaderInv
<1>5. KeptInv(r)' /\ DeliveredInv'
  BY <1>2, KeptStays, DeliveredStays DEF Confirm
<1>. QED BY <1>3, <1>4, <1>5, ReaderMoves DEF Confirm, Advance, TypeOK

LEMMA OpenProofInv ==
  ASSUME Inv, Grows, NEW r \in Readers, OpenProof(r)
  PROVE  Inv'
<1> USE DEF Inv
<1>1. status[r] = "reading" /\ at[r] = 5 /\ at'[r] = 6
  BY GateFacts DEF OpenProof, Advance, TypeOK
<1>2. sel[r].proof.body \in signed /\ RecordMatches(r, sel[r].proof.body)
  BY DEF OpenProof, Holds
<1>3. origin'[r] = sel[r].proof.body
  BY DEF OpenProof, TypeOK
<1>4. ReaderTypes'
  <2>1. origin' \in [Readers -> Origins \cup {None}]
    BY <1>2 DEF OpenProof, TypeOK
  <2>2. at' \in [Readers -> 1 .. 8]
    BY <1>1 DEF OpenProof, Advance, TypeOK
  <2>. QED BY <2>1, <2>2 DEF OpenProof, ReaderTypes, TypeOK
<1>5. Known(r)'
  BY <1>1, <1>2, <1>3 DEF Known, RecordMatches, OpenProof, run, store, ReaderInv
<1>6. KeptInv(r)' /\ DeliveredInv'
  BY <1>1, KeptStays, DeliveredStays DEF OpenProof
<1>. QED BY <1>4, <1>5, <1>6, ReaderMoves DEF OpenProof, Advance, TypeOK

\* A record that a reader opened was signed by the owner it selected, in that
\* job, for the very artifact it selected.
LEMMA OpenedRecord ==
  ASSUME Inv, NEW r \in Readers, at[r] > 5, at[r] \in Nat
  PROVE  /\ origin[r] \in signed /\ origin[r] \in Origins
         /\ sel[r].payload \in artifacts /\ sel[r].payload \in Artifacts
         /\ sel[r].payload.by = <<lane[r], src[r]>>
         /\ origin[r].job = sel[r].payload.by
         /\ job[sel[r].payload.by] = "success"
<1> USE DEF Inv
<1>1. /\ sel[r].job \in Owners /\ job[sel[r].job] = "success"
      /\ sel[r].payload \in artifacts
      /\ origin[r] \in signed /\ RecordMatches(r, origin[r])
  BY DEF ReaderInv, Known
<1>2. Truthful(origin[r])
  BY <1>1 DEF SignedInv
<1>3. PICK a \in artifacts : a.id = origin[r].payload /\ a.by = origin[r].job
  BY <1>2 DEF Truthful
<1>4. a = sel[r].payload
  BY <1>1, <1>3 DEF IdsUnique, RecordMatches
<1>5. origin[r].job # Stray
  BY <1>1, PartyAssumption DEF RecordMatches
<1>6. origin[r].job = <<lane[r], src[r]>>
  BY <1>1, <1>2, <1>5 DEF Truthful, RecordMatches
<1>. QED BY <1>1, <1>3, <1>4, <1>6 DEF RecordMatches, TypeOK

LEMMA RetainInv ==
  ASSUME Inv, Grows, NEW r \in Readers, Retain(r)
  PROVE  Inv'
<1> USE DEF Inv
<1> DEFINE k == [lane |-> lane[r], attempt |-> src[r], payload |-> sel[r].payload,
                 origin |-> origin[r]]
<1>1. status[r] = "reading" /\ lane[r] \in Lanes /\ at[r] = 8
  BY GateFacts DEF Retain
<1>2. MembersMatch(r)
  BY DEF Retain, Holds
<1>3. k \in Retained /\ GoodKept(k, src[r])
  <2>1. /\ origin[r] \in signed /\ origin[r] \in Origins
        /\ sel[r].payload \in Artifacts
        /\ sel[r].payload.by = <<lane[r], src[r]>>
        /\ origin[r].job = sel[r].payload.by
        /\ job[sel[r].payload.by] = "success"
    BY <1>1, OpenedRecord
  <2>2. k \in Retained
    BY <1>1, <2>1 DEF Retained, TypeOK
  <2>3. k.lane = lane[r] /\ k.attempt = src[r] /\ k.payload = sel[r].payload /\ k.origin = origin[r]
    OBVIOUS
  <2> HIDE DEF k
  <2>4. GoodKept(k, src[r])
    BY <1>2, <2>1, <2>3 DEF GoodKept, MembersMatch
  <2>. QED BY <2>2, <2>4
<1>4. /\ kept'[r] = kept[r] \cup {k} /\ lane'[r] = lane[r] + 1 /\ at'[r] = 1
      /\ src'[r] = src[r] /\ status'[r] = status[r]
  BY DEF Retain, TypeOK
<1>5. ReaderTypes'
  <2>1. kept' \in [Readers -> SUBSET Retained]
    BY <1>3 DEF Retain, TypeOK
  <2>2. lane' \in [Readers -> 1 .. NumLanes + 1] /\ at' \in [Readers -> 1 .. 8]
    <3>1. lane[r] + 1 \in 1 .. NumLanes + 1  BY <1>1, SizeAssumption DEF Lanes
    <3>2. lane' = [lane EXCEPT ![r] = lane[r] + 1] /\ at' = [at EXCEPT ![r] = 1]  BY DEF Retain
    <3>3. lane \in [Readers -> 1 .. NumLanes + 1] /\ at \in [Readers -> 1 .. 8]  BY DEF TypeOK
    <3>. QED BY ONLY <3>1, <3>2, <3>3, r \in Readers
  <2>3. sel' \in [Readers -> Selections] /\ origin' \in [Readers -> Origins \cup {None}]
    BY DEF Retain, TypeOK, Selections, Blank
  <2>. QED BY <2>1, <2>2, <2>3 DEF Retain, ReaderTypes, TypeOK
<1>6. KeptInv(r)'
  <2>1. \A m \in kept[r] : m.lane \in 1 .. lane[r] - 1
    BY DEF ReaderInv, KeptInv
  <2>2. \A m \in kept'[r] : GoodKept(m, src[r])'
    BY <1>3, <1>4, GoodStays DEF ReaderInv, KeptInv, TypeOK
  <2>3. \A m, h \in kept'[r] : m.lane = h.lane => m = h
    BY <1>1, <1>4, <2>1 DEF ReaderInv, KeptInv, Lanes
  <2>4. {m.lane : m \in kept'[r]} = 1 .. lane'[r] - 1
    <3>1. {m.lane : m \in kept'[r]} = {m.lane : m \in kept[r]} \cup {lane[r]}
      <4>1. k.lane = lane[r]
        OBVIOUS
      <4> HIDE DEF k
      <4>. QED BY <1>4, <4>1
    <3>2. 1 .. lane[r] = (1 .. lane[r] - 1) \cup {lane[r]}
      BY <1>1, SizeAssumption DEF Lanes
    <3>3. {m.lane : m \in kept[r]} = 1 .. lane[r] - 1
      BY DEF ReaderInv, KeptInv
    <3>4. lane'[r] - 1 = lane[r]
      BY <1>1, <1>4, SizeAssumption DEF Lanes
    <3>. QED BY <3>1, <3>2, <3>3, <3>4
  <2>. QED BY <1>1, <1>4, <2>2, <2>3, <2>4 DEF KeptInv
<1>7. Known(r)' /\ DeliveredInv'
  BY <1>4, DeliveredStays DEF Known, Retain
<1>. QED BY <1>5, <1>6, <1>7, ReaderMoves DEF Retain, TypeOK

\* A concluded reader holds nothing.
LEMMA EndInv ==
  ASSUME Inv, Grows, NEW r \in Readers, NEW how \in {"collected", "failed"}, End(r, how),
         UNCHANGED <<run, store, machine, own, src, spent>>, DeliveredInv',
         delivered' \subseteq [kept : SUBSET Retained, attempt : Attempts]
  PROVE  Inv'
<1> USE DEF Inv
<1>1. ReaderTypes'
  BY SizeAssumption DEF End, ReaderTypes, TypeOK, Selections, Blank
<1>2. kept'[r] = {} /\ lane'[r] = 1 /\ at'[r] = 1
  BY DEF End, TypeOK
<1>3. Known(r)' /\ KeptInv(r)'
  BY <1>2 DEF Known, KeptInv
<1>. QED BY <1>1, <1>3, ReaderMoves DEF End, TypeOK

LEMMA CollectInv ==
  ASSUME Inv, Grows, NEW r \in Readers, Collect(r)
  PROVE  Inv'
<1> USE DEF Inv
<1> DEFINE f == [kept |-> kept[r], attempt |-> src[r]]
<1>1. lane[r] = NumLanes + 1
  BY SizeAssumption DEF Collect, TypeOK, Lanes
<1>2. {k.lane : k \in kept[r]} = Lanes
  BY <1>1, SizeAssumption DEF ReaderInv, KeptInv, Lanes
<1>3. \A k \in kept[r] : GoodKept(k, src[r])'
  BY GoodStays DEF Collect, ReaderInv, KeptInv, TypeOK
<1>4. \A g \in delivered : \A k \in g.kept : GoodKept(k, g.attempt)'
  BY GoodStays DEF DeliveredInv, TypeOK
<1>5. DeliveredInv'
  BY <1>2, <1>3, <1>4 DEF Collect, DeliveredInv, ReaderInv, KeptInv
<1>6. delivered' \subseteq [kept : SUBSET Retained, attempt : Attempts]
  BY DEF Collect, TypeOK
<1>. QED BY <1>5, <1>6, EndInv DEF Collect

LEMMA ReaderStepInv ==
  ASSUME Inv, Grows, NEW r \in Readers, ReaderStep(r)
  PROVE  Inv'
<1>1. CASE Refuse(r)
  BY <1>1, EndInv, DeliveredStays DEF Refuse, Inv, TypeOK
<1>. QED BY <1>1, SelectJobInv, SelectArtifactsInv, ConfirmInv, OpenProofInv, RetainInv,
            CollectInv DEF ReaderStep

-----------------------------------------------------------------------------
\* Others add artifacts and signatures of their own and take artifacts away;
\* neither touches what a signed record tells.
LEMMA ChangeInv ==
  ASSUME Inv, Grows, NEW kind, Change(kind), IdsUnique', SignedInv', MachineInv',
         artifacts' \subseteq Artifacts, live' \subseteq Nat, expired' \subseteq Nat,
         signed' \subseteq Origins, dir' \in [Lanes -> Bytes \cup {None}]
  PROVE  Inv'
<1> USE DEF Inv
<1>1. TypeOK'
  BY DEF Change, TypeOK, run, reader
<1>2. JobsStarted'
  BY DEF Change, JobsStarted, run
<1>3. ReaderInv' /\ DeliveredInv'
  BY ReadersKept DEF Change
<1>. QED BY <1>1, <1>2, <1>3

\* A change that leaves the payload directories alone leaves every machine alone.
LEMMA ChangeMachines ==
  ASSUME Inv, Grows, NEW kind, Change(kind), UNCHANGED dir
  PROVE  MachineInv'
  BY MachineKept DEF Inv, MachineInv, Change, run

LEMMA StrayInv ==
  ASSUME Inv, Grows, NEW l \in Lanes, NEW n \in 1 .. attempt,
         \/ \E b \in Bytes : StrayPayload(l, n, b)
         \/ \E o \in signed : StrayProof(l, n, o)
  PROVE  Inv'
<1> USE DEF Inv
<1>1. n \in Attempts /\ NextId \in Nat \ {0} /\ \A k \in {"payload", "proof"} : Name(k, l, n) \in Names
  BY FreshId, SizeAssumption DEF TypeOK, Attempts, Name, Names
<1>2. PICK k \in {"payload", "proof"}, b \in Bytes \cup Origins : Replace(Name(k, l, n), b)
  BY DEF StrayPayload, StrayProof, TypeOK
<1>3. IdsUnique' /\ artifacts' \subseteq Artifacts /\ live' \subseteq Nat /\ expired' \subseteq Nat
  <2> DEFINE a == [id |-> NextId, name |-> Name(k, l, n), by |-> Stray, body |-> b]
  <2>1. artifacts' = artifacts \cup {a} /\ a.id = NextId
    BY <1>2 DEF Replace
  <2>2. a \in Artifacts
    BY <1>1 DEF Artifacts
  <2>3. IdsUnique'
    BY <2>1, FreshId
  <2>4. live' \subseteq Nat /\ expired' \subseteq Nat
    BY <1>1, <1>2 DEF Replace, TypeOK
  <2>. QED BY <2>1, <2>2, <2>3, <2>4 DEF TypeOK
<1>4. SignedInv' /\ signed' \subseteq Origins
  <2>1. \A o \in signed : Truthful(o)'
    BY RecordsKept DEF SignedInv, Truthful
  <2>2. CASE \E o \in signed : StrayProof(l, n, o)
    BY <2>1, <2>2 DEF StrayProof, SignedInv, TypeOK
  <2>3. ASSUME NEW c \in Bytes, StrayPayload(l, n, c) PROVE SignedInv' /\ signed' \subseteq Origins
    <3> PICK i : i = NextId
      OBVIOUS
    <3> DEFINE o == Record(n, l, Stray, i, c, c)
               a == [id |-> i, name |-> Name("payload", l, n), by |-> Stray, body |-> c]
    <3>1. a \in artifacts' /\ signed' = signed \cup {o}
      BY <2>3 DEF StrayPayload, Replace
    <3>2. Truthful(o)'
      BY <3>1 DEF Truthful, Record
    <3>3. o \in Origins
      BY <1>1 DEF Record, Origins
    <3>. QED BY <2>1, <3>1, <3>2, <3>3 DEF SignedInv, TypeOK
  <2>. QED BY <2>2, <2>3
<1>5. MachineInv'
  BY <1>2, ChangeMachines DEF Replace
<1>. QED BY <1>2, <1>3, <1>4, <1>5, ChangeInv DEF Replace, TypeOK

LEMMA OthersInv ==
  ASSUME Inv, Grows, Others
  PROVE  Inv'
<1> USE DEF Inv
<1>1. ASSUME NEW l \in Lanes, NEW b \in Bytes, Rewrite(l, b) PROVE Inv'
  <2>1. IdsUnique' /\ SignedInv'
    BY <1>1 DEF Rewrite, store, IdsUnique, SignedInv, Truthful
  <2>2. MachineInv'
    <3>1. /\ UNCHANGED <<attempt, job, artifacts, signed, pc, mine, note>>
          /\ pc[l] \in {"upload", "record"} /\ dir[l] \in Bytes
          /\ dir' = [dir EXCEPT ![l] = b]
      BY <1>1 DEF Rewrite, Change, run, store, AtStep, MachineInv, MachineOf
    <3>2. ASSUME NEW m \in Lanes PROVE MachineOf(m)'
      <4>1. MachineOf(m)  BY DEF MachineInv
      <4>2. dir'[m] = IF m = l THEN b ELSE dir[m]  BY <3>1 DEF TypeOK
      <4>. QED BY ONLY <1>1, <3>1, <4>1, <4>2 DEF MachineOf, Executing, Me, Truthful
    <3>. QED BY <3>2 DEF MachineInv
  <2>. QED BY <1>1, <2>1, <2>2, ChangeInv DEF Rewrite, store, TypeOK
<1>2. ASSUME NEW a \in artifacts, Expire(a) \/ Delete(a) PROVE Inv'
  <2>1. PICK kind : Change(kind) /\ UNCHANGED <<artifacts, signed, dir>>
    BY <1>2 DEF Expire, Delete
  <2>2. IdsUnique' /\ SignedInv'
    BY <2>1 DEF IdsUnique, SignedInv, Truthful
  <2>3. live' \subseteq Nat /\ expired' \subseteq Nat
    BY <1>2 DEF Expire, Delete, TypeOK
  <2>4. MachineInv'
    BY <2>1, ChangeMachines
  <2>. QED BY <2>1, <2>2, <2>3, <2>4, ChangeInv DEF TypeOK
<1>. QED BY <1>1, <1>2, StrayInv DEF Others

\* Every step of Next, and a stutter, keeps the invariant.
LEMMA StepInv == Inv /\ [Next]_vars => Inv'
<1> SUFFICES ASSUME Inv, [Next]_vars PROVE Inv'
    OBVIOUS
<1>1. Grows
  BY StepGrows DEF Inv
<1>2. ASSUME NEW l \in Lanes, OwnerStep(l) PROVE Inv'
  BY <1>1, <1>2, OwnerInv
<1>3. ASSUME NEW r \in Readers, ReaderStep(r) PROVE Inv'
  BY <1>1, <1>3, ReaderStepInv
<1>4. ASSUME NEW r \in Readers, NEW n \in Attempts, Start(r, n) PROVE Inv'
  BY <1>1, <1>4, StartInv
<1>5. CASE RerunAll \/ RerunFailed
  BY <1>1, <1>5, NewAttemptInv DEF RerunAll, RerunFailed
<1>6. CASE Others
  BY <1>1, <1>6, OthersInv
<1>7. CASE UNCHANGED vars
  <2> USE <1>7 DEF vars, Inv
  <2>1. TypeOK' /\ JobsStarted'
    BY DEF TypeOK, JobsStarted, run, store, machine, reader
  <2>2. IdsUnique' /\ SignedInv'
    BY DEF IdsUnique, SignedInv, Truthful, store
  <2>3. MachineInv'
    BY <1>1, MachineKept DEF MachineInv, run, machine
  <2>4. ReaderInv' /\ DeliveredInv'
    BY <1>1, ReadersKept
  <2>. QED BY <2>1, <2>2, <2>3, <2>4
<1>. QED BY <1>2, <1>3, <1>4, <1>5, <1>6, <1>7 DEF Next

LEMMA AlwaysInv == Spec => []Inv
  BY InitInv, StepInv, PTL DEF Spec

\* Every variable keeps its type, and what was uploaded stays what it was.
THEOREM TypeCorrect == Spec => []TypeOK
<1>1. Inv => TypeOK
  BY DEF Inv
<1>. QED BY <1>1, AlwaysInv, PTL

\* Whatever the number of lanes, attempts, readers and changes: an installed
\* fragment has every lane of the matrix once, each payload uploaded by that
\* lane's owner job in the attempt the reader selected, a job that succeeded
\* (verify and verify_source of artifact-origin.py).
THEOREM OwnersDeliver == Spec => []DeliveredByOwner
<1>1. Inv => DeliveredByOwner
  BY DEF Inv, DeliveredInv, GoodKept, DeliveredByOwner
<1>. QED BY <1>1, AlwaysInv, PTL

\* And each payload is, byte for byte, the inventory its owner signed while it
\* ran (the origin record and the ZIP inventory of artifact-origin.py).
THEOREM SignedDelivered == Spec => []DeliveredAsSigned
<1>1. Inv => DeliveredAsSigned
  BY DEF Inv, DeliveredInv, GoodKept, DeliveredAsSigned
<1>. QED BY <1>1, AlwaysInv, PTL
-----------------------------------------------------------------------------
(* RetainedOutput *)

Writing == {"create", "fill", "list", "measure", "final", "last", "retained"}
Complete == {"list", "measure", "final", "last", "retained"}

\* The descriptor is open while anything is written or removed.
OpenInv ==
  /\ phase \in Writing \cup {"clean", "unlink"} => fd # Nothing
  /\ phase \in {"preflight", "ready", "made", "identified", "secured", "failed", "refused"} => fd = Nothing
  /\ phase \in {"preflight", "ready"} => identity = Nothing
  /\ phase \in {"identified", "secured"} => identity # Nothing

\* The names on record, and those the loop has left.
RecordInv ==
  /\ phase \in {"preflight", "ready", "made", "identified", "secured"} => created = {} /\ todo = OutputNames
  /\ phase = "create" => todo = OutputNames \ created
  /\ phase = "fill" => todo \subseteq created
  /\ phase = "unlink" => \A n, m \in todo : n = m
  /\ phase \in Complete => created = OutputNames

\* Where files of this attempt can be.
Recorded == IF phase = "clean" THEN todo ELSE IF phase = "unlink" THEN todo \cup created ELSE created
OwnInv ==
  /\ \A d \in Dirs, s \in Slots : maker[d][s] = "run" =>
        /\ fd # Nothing /\ d = fd
        /\ phase \in Writing \cup {"clean", "unlink", "left", "killed"}
        /\ phase \in Writing \cup {"clean", "unlink"} => s \in Recorded
  /\ phase = "unlink" /\ ~raced => \A n \in todo : maker[fd][n] = "run"
  /\ phase = "rmdir" /\ ~raced => place # Nothing /\ place = identity

\* What was read of the directory holds as long as others do not act.
ReadInv ==
  phase \in {"measure", "final", "last", "retained"} /\ ~late =>
    /\ \A s \in Slots : maker[fd][s] # Nothing <=> s \in OutputNames
    /\ \A n \in OutputNames \ todo : data[fd][n] = "verified"
    /\ phase # "measure" => todo = {}
    /\ phase = "retained" => place = fd

RetainedInv == RetainTypeOK /\ OpenInv /\ RecordInv /\ OwnInv /\ ReadInv
-----------------------------------------------------------------------------
LEMMA PreflightStep == ASSUME RetainedInv, Preflight PROVE RetainedInv'
<1> USE DEF Phases, Writing, Complete, Goto, files, roots, account
<1>1. RetainTypeOK'  BY DEF RetainedInv, RetainTypeOK, Preflight
<1>2. OpenInv'  BY DEF RetainedInv, OpenInv, Preflight
<1>3. RecordInv'  BY DEF RetainedInv, RecordInv, Preflight
<1>4. OwnInv'  BY DEF RetainedInv, OwnInv, Preflight
<1>5. ReadInv'  BY DEF ReadInv, Preflight
<1> QED  BY <1>1, <1>2, <1>3, <1>4, <1>5 DEF RetainedInv

LEMMA RefuseStep == ASSUME RetainedInv, RefuseOutput PROVE RetainedInv'
<1> USE DEF Ends, Writing, Complete, Goto, files, roots, account
<1>1. RetainTypeOK'  BY DEF RetainedInv, RetainTypeOK, RefuseOutput
<1>2. OpenInv'  BY DEF RetainedInv, OpenInv, RefuseOutput
<1>3. RecordInv'  BY DEF RecordInv, RefuseOutput
<1>4. OwnInv'  BY DEF RetainedInv, OwnInv, RefuseOutput
<1>5. ReadInv'  BY DEF ReadInv, RefuseOutput
<1> QED  BY <1>1, <1>2, <1>3, <1>4, <1>5 DEF RetainedInv

LEMMA MakeRootStep == ASSUME RetainedInv, MakeRoot PROVE RetainedInv'
<1> USE DEF Dirs, Phases, Writing, Complete, Goto, files, account
<1>1. RetainTypeOK'  BY DEF RetainedInv, RetainTypeOK, MakeRoot
<1>2. OpenInv'  BY DEF RetainedInv, OpenInv, MakeRoot
<1>3. RecordInv'  BY DEF RetainedInv, RecordInv, MakeRoot
<1>4. OwnInv'  BY DEF RetainedInv, OwnInv, MakeRoot
<1>5. ReadInv'  BY DEF ReadInv, MakeRoot
<1> QED  BY <1>1, <1>2, <1>3, <1>4, <1>5 DEF RetainedInv

LEMMA IdentifyStep == ASSUME RetainedInv, Identify PROVE RetainedInv'
<1> USE DEF Phases, Writing, Complete, Goto, files, account
<1>1. RetainTypeOK'  BY DEF RetainedInv, RetainTypeOK, OpenInv, Identify
<1>2. OpenInv'  BY DEF RetainedInv, OpenInv, Identify
<1>3. RecordInv'  BY DEF RetainedInv, RecordInv, Identify
<1>4. OwnInv'  BY DEF RetainedInv, OwnInv, Identify
<1>5. ReadInv'  BY DEF ReadInv, Identify
<1> QED  BY <1>1, <1>2, <1>3, <1>4, <1>5 DEF RetainedInv

LEMMA SecureStep == ASSUME RetainedInv, Secure PROVE RetainedInv'
<1> USE DEF Phases, Writing, Complete, Goto, files, roots, account
<1>1. RetainTypeOK'  BY DEF RetainedInv, RetainTypeOK, Secure
<1>2. OpenInv'  BY DEF RetainedInv, OpenInv, Secure
<1>3. RecordInv'  BY DEF RetainedInv, RecordInv, Secure
<1>4. OwnInv'  BY DEF RetainedInv, OwnInv, Secure
<1>5. ReadInv'  BY DEF ReadInv, Secure
<1> QED  BY <1>1, <1>2, <1>3, <1>4, <1>5 DEF RetainedInv

LEMMA OpenRootStep == ASSUME RetainedInv, OpenRoot PROVE RetainedInv'
<1> USE DEF Phases, Writing, Complete, Goto, files, account
<1>1. RetainTypeOK'  BY DEF RetainedInv, RetainTypeOK, OpenRoot
<1>2. OpenInv'  BY DEF RetainedInv, OpenInv, OpenRoot
<1>3. RecordInv'  BY DEF RetainedInv, RecordInv, OpenRoot
<1>4. OwnInv'  BY DEF RetainedInv, OwnInv, OpenRoot
<1>5. ReadInv'  BY DEF ReadInv, OpenRoot
<1> QED  BY <1>1, <1>2, <1>3, <1>4, <1>5 DEF RetainedInv

LEMMA ListStep == ASSUME RetainedInv, List PROVE RetainedInv'
<1> USE DEF Phases, Writing, Complete, Recorded, Goto, files, roots
<1>1. RetainTypeOK'  BY DEF RetainedInv, RetainTypeOK, OpenInv, RecordInv, OwnInv, ReadInv, List
<1>2. OpenInv'  BY DEF RetainedInv, OpenInv, List
<1>3. RecordInv'  BY DEF RetainedInv, RecordInv, List
<1>4. OwnInv'  BY DEF RetainedInv, OwnInv, List
<1>5. ReadInv'  BY DEF ReadInv, List
<1> QED  BY <1>1, <1>2, <1>3, <1>4, <1>5 DEF RetainedInv

LEMMA FinalCheckStep == ASSUME RetainedInv, FinalCheck PROVE RetainedInv'
<1> USE DEF Phases, Writing, Complete, Recorded, Goto, files, roots, account
<1>1. RetainTypeOK'  BY DEF RetainedInv, RetainTypeOK, FinalCheck
<1>2. OpenInv'  BY DEF RetainedInv, OpenInv, FinalCheck
<1>3. RecordInv'  BY DEF RetainedInv, RecordInv, FinalCheck
<1>4. OwnInv'  BY DEF RetainedInv, OwnInv, FinalCheck
<1>5. ReadInv'  BY DEF RetainedInv, ReadInv, FinalCheck
<1> QED  BY <1>1, <1>2, <1>3, <1>4, <1>5 DEF RetainedInv

LEMMA LastLookStep == ASSUME RetainedInv, LastLook PROVE RetainedInv'
<1> USE DEF Ends, Writing, Complete, Recorded, Goto, files, roots, account
<1>1. RetainTypeOK'  BY DEF RetainedInv, RetainTypeOK, LastLook
<1>2. OpenInv'  BY DEF RetainedInv, OpenInv, LastLook
<1>3. RecordInv'  BY DEF RetainedInv, RecordInv, LastLook
<1>4. OwnInv'  BY DEF RetainedInv, OwnInv, LastLook
<1>5. ReadInv'  BY DEF RetainedInv, RetainTypeOK, OpenInv, ReadInv, LastLook
<1> QED  BY <1>1, <1>2, <1>3, <1>4, <1>5 DEF RetainedInv

LEMMA FailStep == ASSUME RetainedInv, Fail PROVE RetainedInv'
<1> USE BoundAssumption DEF Ends, Cleaning, Phases, Writing, Complete, Recorded, files, roots
<1>1. RetainTypeOK'  BY DEF RetainedInv, RetainTypeOK, Fail
<1>2. OpenInv'  BY DEF RetainedInv, OpenInv, Fail
<1>3. RecordInv'  BY DEF RecordInv, Fail
<1>4. OwnInv'  BY DEF RetainedInv, OwnInv, Fail, Working
<1>5. ReadInv'  BY DEF ReadInv, Fail
<1> QED  BY <1>1, <1>2, <1>3, <1>4, <1>5 DEF RetainedInv

LEMMA FailToCleanStep == ASSUME RetainedInv, FailToClean PROVE RetainedInv'
<1> USE BoundAssumption DEF Ends, Writing, Complete, files, roots
<1>1. RetainTypeOK'  BY DEF RetainedInv, RetainTypeOK, FailToClean
<1>2. OpenInv'  BY DEF OpenInv, FailToClean
<1>3. RecordInv'  BY DEF RecordInv, FailToClean
<1>4. OwnInv'  BY DEF RetainedInv, OwnInv, FailToClean
<1>5. ReadInv'  BY DEF ReadInv, FailToClean
<1> QED  BY <1>1, <1>2, <1>3, <1>4, <1>5 DEF RetainedInv

LEMMA EmptiedStep == ASSUME RetainedInv, Emptied PROVE RetainedInv'
<1> USE DEF Ends, Cleaning, Phases, Writing, Complete, Recorded, files, roots, account
<1>1. RetainTypeOK'  BY DEF RetainedInv, RetainTypeOK, Emptied
<1>2. OpenInv'  BY DEF OpenInv, Emptied
<1>3. RecordInv'  BY DEF RecordInv, Emptied
<1>4. OwnInv'  BY DEF RetainedInv, OwnInv, Emptied
<1>5. ReadInv'  BY DEF ReadInv, Emptied
<1> QED  BY <1>1, <1>2, <1>3, <1>4, <1>5 DEF RetainedInv

LEMMA LookForOwnStep == ASSUME RetainedInv, LookForOwn PROVE RetainedInv'
<1> USE DEF Cleaning, Phases, Writing, Complete, files, roots
<1>1. RetainTypeOK'  BY DEF RetainedInv, RetainTypeOK, OpenInv, RecordInv, OwnInv, ReadInv, LookForOwn
<1>2. OpenInv'  BY DEF OpenInv, LookForOwn
<1>3. RecordInv'  BY DEF RecordInv, LookForOwn
<1>4. OwnInv'  BY DEF RetainedInv, OwnInv, LookForOwn
<1>5. ReadInv'  BY DEF ReadInv, LookForOwn
<1> QED  BY <1>1, <1>2, <1>3, <1>4, <1>5 DEF RetainedInv

LEMMA RootGoneStep == ASSUME RetainedInv, RootGone PROVE RetainedInv'
<1> USE DEF Ends, Writing, Complete, Goto, files, roots, account
<1>1. RetainTypeOK'  BY DEF RetainedInv, RetainTypeOK, RootGone
<1>2. OpenInv'  BY DEF OpenInv, RootGone
<1>3. RecordInv'  BY DEF RecordInv, RootGone
<1>4. OwnInv'  BY DEF RetainedInv, OwnInv, RootGone
<1>5. ReadInv'  BY DEF ReadInv, RootGone
<1> QED  BY <1>1, <1>2, <1>3, <1>4, <1>5 DEF RetainedInv

LEMMA LeaveRootStep == ASSUME RetainedInv, LeaveRoot PROVE RetainedInv'
<1> USE DEF Ends, Writing, Complete, Goto, files, roots, account
<1>1. RetainTypeOK'  BY DEF RetainedInv, RetainTypeOK, LeaveRoot
<1>2. OpenInv'  BY DEF OpenInv, LeaveRoot
<1>3. RecordInv'  BY DEF RecordInv, LeaveRoot
<1>4. OwnInv'  BY DEF RetainedInv, OwnInv, LeaveRoot
<1>5. ReadInv'  BY DEF ReadInv, LeaveRoot
<1> QED  BY <1>1, <1>2, <1>3, <1>4, <1>5 DEF RetainedInv

LEMMA RemoveRootStep == ASSUME RetainedInv, RemoveRoot PROVE RetainedInv'
<1> USE DEF Ends, Writing, Complete, files, account
<1>1. RetainTypeOK'  BY DEF RetainedInv, RetainTypeOK, RemoveRoot
<1>2. OpenInv'  BY DEF OpenInv, RemoveRoot
<1>3. RecordInv'  BY DEF RecordInv, RemoveRoot
<1>4. OwnInv'  BY DEF RetainedInv, OwnInv, RemoveRoot
<1>5. ReadInv'  BY DEF ReadInv, RemoveRoot
<1> QED  BY <1>1, <1>2, <1>3, <1>4, <1>5 DEF RetainedInv

LEMMA KillStep == ASSUME RetainedInv, Kill PROVE RetainedInv'
<1> USE BoundAssumption DEF Ends, Writing, Complete, files, roots
<1>1. RetainTypeOK'  BY DEF RetainedInv, RetainTypeOK, Kill
<1>2. OpenInv'  BY DEF OpenInv, Kill
<1>3. RecordInv'  BY DEF RecordInv, Kill
<1>4. OwnInv'  BY DEF RetainedInv, OwnInv, Kill
<1>5. ReadInv'  BY DEF ReadInv, Kill
<1> QED  BY <1>1, <1>2, <1>3, <1>4, <1>5 DEF RetainedInv

LEMMA RetryStep == ASSUME RetainedInv, Retry PROVE RetainedInv'
<1> USE NameAssumption, BoundAssumption DEF Dirs, Phases, Writing, Complete
<1>1. RetainTypeOK'
  <2> DEFINE there == IF place = "own" THEN "own" ELSE "other"
  <2>1. /\ data' = [d \in Dirs |-> data[there]]
        /\ maker' = [d \in Dirs |-> [s \in Slots |->
                      IF d = "other" /\ maker[there][s] # Nothing THEN "others" ELSE Nothing]]
    BY DEF Retry
  <2>2. there \in Dirs  OBVIOUS
  <2> HIDE DEF there
  <2>3. data' \in [Dirs -> [Slots -> {"verified", "half", "other"}]]
    <3>1. data[there] \in [Slots -> {"verified", "half", "other"}]  BY <2>2 DEF RetainedInv, RetainTypeOK
    <3> HIDE DEF Dirs, Slots
    <3> QED  BY <2>1, <3>1
  <2>4. maker' \in [Dirs -> [Slots -> {"run", "others", Nothing}]]
    <3> HIDE DEF Dirs, Slots
    <3> QED  BY <2>1
  <2>5. /\ place' \in Dirs \cup {Nothing} /\ parent' = parent /\ phase' = "preflight"
        /\ identity' = Nothing /\ fd' = Nothing /\ created' = {} /\ todo' = OutputNames /\ late' = FALSE
        /\ UNCHANGED <<raced, meddled, faults>> /\ retries < Retries /\ retries' = retries + 1
    BY DEF Retry
  <2>6. retries' \in 0 .. Retries /\ meddled' \in 0 .. Meddlings /\ faults' \in 0 .. Faults
    BY <2>5 DEF RetainedInv, RetainTypeOK
  <2>7. raced' \in BOOLEAN /\ late' \in BOOLEAN /\ parent' \in BOOLEAN
    BY <2>5 DEF RetainedInv, RetainTypeOK
  <2>8. phase' \in Phases \cup Ends /\ identity' \in Dirs \cup {Nothing} /\ fd' \in {Nothing, identity'}
        /\ created' \subseteq OutputNames /\ todo' \subseteq OutputNames /\ place' \in Dirs \cup {Nothing}
    BY <2>5
  <2> QED  BY <2>3, <2>4, <2>6, <2>7, <2>8, Zenon DEF RetainTypeOK
<1>2. OpenInv'  BY DEF OpenInv, Retry
<1>3. RecordInv'  BY DEF RecordInv, Retry
<1>4. OwnInv'  BY DEF OwnInv, Retry
<1>5. ReadInv'  BY DEF ReadInv, Retry
<1> QED  BY <1>1, <1>2, <1>3, <1>4, <1>5 DEF RetainedInv

LEMMA MoveRootStep == ASSUME RetainedInv, MoveRoot PROVE RetainedInv'
<1> USE BoundAssumption DEF Recorded, files
<1>1. RetainTypeOK'  BY DEF RetainedInv, RetainTypeOK, MoveRoot, Meddle
<1>2. OpenInv'  BY DEF RetainedInv, OpenInv, MoveRoot, Meddle
<1>3. RecordInv'  BY DEF RetainedInv, RecordInv, MoveRoot, Meddle
<1>4. OwnInv'  BY DEF RetainedInv, OwnInv, MoveRoot, Meddle
<1>5. ReadInv'  BY DEF ReadInv, MoveRoot, Meddle
<1> QED  BY <1>1, <1>2, <1>3, <1>4, <1>5 DEF RetainedInv

LEMMA MoveParentStep == ASSUME RetainedInv, MoveParent PROVE RetainedInv'
<1> USE BoundAssumption DEF Recorded, files
<1>1. RetainTypeOK'  BY DEF RetainedInv, RetainTypeOK, MoveParent, Meddle
<1>2. OpenInv'  BY DEF RetainedInv, OpenInv, MoveParent, Meddle
<1>3. RecordInv'  BY DEF RetainedInv, RecordInv, MoveParent, Meddle
<1>4. OwnInv'  BY DEF RetainedInv, OwnInv, MoveParent, Meddle
<1>5. ReadInv'  BY DEF ReadInv, MoveParent, Meddle
<1> QED  BY <1>1, <1>2, <1>3, <1>4, <1>5 DEF RetainedInv

LEMMA CreateStep == ASSUME RetainedInv, NEW n \in OutputNames, Create(n) PROVE RetainedInv'
<1> USE NameAssumption DEF Phases, Writing, Complete, Recorded, Goto, roots, account
<1>1. RetainTypeOK'  BY DEF RetainedInv, RetainTypeOK, OpenInv, Create
<1>2. OpenInv'  BY DEF RetainedInv, OpenInv, Create
<1>3. RecordInv'  BY DEF RecordInv, Create
<1>4. OwnInv'  BY DEF RetainedInv, OwnInv, Create
<1>5. ReadInv'  BY DEF ReadInv, Create
<1> QED  BY <1>1, <1>2, <1>3, <1>4, <1>5 DEF RetainedInv

LEMMA FillStep == ASSUME RetainedInv, NEW n \in OutputNames, Fill(n) PROVE RetainedInv'
<1> USE DEF Phases, Writing, Complete, Recorded, roots, account
<1>1. RetainTypeOK'  BY DEF RetainedInv, RetainTypeOK, OpenInv, RecordInv, OwnInv, ReadInv, Fill
<1>2. OpenInv'  BY DEF RetainedInv, OpenInv, Fill
<1>3. RecordInv'  BY DEF RecordInv, Fill
<1>4. OwnInv'  BY DEF RetainedInv, OwnInv, Fill
<1>5. ReadInv'  BY DEF ReadInv, Fill
<1> QED  BY <1>1, <1>2, <1>3, <1>4, <1>5 DEF RetainedInv

LEMMA MeasureStep == ASSUME RetainedInv, NEW n \in OutputNames, Measure(n) PROVE RetainedInv'
<1> USE DEF Phases, Writing, Complete, Recorded, files, roots, account
<1>1. RetainTypeOK'  BY DEF RetainedInv, RetainTypeOK, Measure
<1>2. OpenInv'  BY DEF RetainedInv, OpenInv, Measure
<1>3. RecordInv'  BY DEF RetainedInv, RecordInv, Measure
<1>4. OwnInv'  BY DEF RetainedInv, OwnInv, Measure
<1>5. ReadInv'  BY DEF RetainedInv, ReadInv, Measure
<1> QED  BY <1>1, <1>2, <1>3, <1>4, <1>5 DEF RetainedInv

LEMMA GoneStep == ASSUME RetainedInv, NEW n \in OutputNames, Gone(n) PROVE RetainedInv'
<1> USE NameAssumption DEF Complete, Recorded, files, roots, account
<1>1. RetainTypeOK'  BY DEF RetainedInv, RetainTypeOK, Gone
<1>2. OpenInv'  BY DEF RetainedInv, OpenInv, Gone
<1>3. RecordInv'  BY DEF RecordInv, Gone
<1>4. OwnInv'  BY DEF RetainedInv, OwnInv, Gone
<1>5. ReadInv'  BY DEF ReadInv, Gone
<1> QED  BY <1>1, <1>2, <1>3, <1>4, <1>5 DEF RetainedInv

LEMMA FindStep == ASSUME RetainedInv, NEW n \in OutputNames, Find(n) PROVE RetainedInv'
<1> USE DEF Cleaning, Phases, Complete, Recorded, files, roots
<1>1. RetainTypeOK'  BY DEF RetainedInv, RetainTypeOK, OpenInv, RecordInv, OwnInv, ReadInv, Find
<1>2. OpenInv'  BY DEF RetainedInv, OpenInv, Find
<1>3. RecordInv'  BY DEF RecordInv, Find
<1>4. OwnInv'  BY DEF RetainedInv, OwnInv, Find
<1>5. ReadInv'  BY DEF ReadInv, Find
<1> QED  BY <1>1, <1>2, <1>3, <1>4, <1>5 DEF RetainedInv

LEMMA UnlinkStep == ASSUME RetainedInv, NEW n \in OutputNames, Unlink(n) PROVE RetainedInv'
<1> USE NameAssumption DEF Cleaning, Phases, Complete, Recorded, Goto, roots, account
<1>1. RetainTypeOK'  BY DEF RetainedInv, RetainTypeOK, OpenInv, Unlink
<1>2. OpenInv'  BY DEF RetainedInv, OpenInv, Unlink
<1>3. RecordInv'  BY DEF RecordInv, Unlink
<1>4. OwnInv'  BY DEF RetainedInv, RetainTypeOK, RecordInv, OwnInv, Unlink
<1>5. ReadInv'  BY DEF ReadInv, Unlink
<1> QED  BY <1>1, <1>2, <1>3, <1>4, <1>5 DEF RetainedInv

LEMMA LeaveFileStep == ASSUME RetainedInv, NEW n \in OutputNames, LeaveFile(n) PROVE RetainedInv'
<1> USE DEF Ends, Writing, Complete, files, roots, account
<1>1. RetainTypeOK'  BY DEF RetainedInv, RetainTypeOK, LeaveFile
<1>2. OpenInv'  BY DEF OpenInv, LeaveFile
<1>3. RecordInv'  BY DEF RecordInv, LeaveFile
<1>4. OwnInv'  BY DEF RetainedInv, OwnInv, LeaveFile
<1>5. ReadInv'  BY DEF ReadInv, LeaveFile
<1> QED  BY <1>1, <1>2, <1>3, <1>4, <1>5 DEF RetainedInv

LEMMA PutStep == ASSUME RetainedInv, NEW d \in Dirs, NEW s \in Slots, Put(d, s) PROVE RetainedInv'
<1> USE NameAssumption, BoundAssumption DEF Recorded
<1>1. RetainTypeOK'
  <2>1. PICK m \in {"others", Nothing}, bytes \in {"verified", "other"} :
          maker' = [maker EXCEPT ![d][s] = m] /\ data' = [data EXCEPT ![d][s] = bytes]
    BY DEF Put
  <2> QED  BY <2>1 DEF RetainedInv, RetainTypeOK, Put, Meddle
<1>2. OpenInv'  BY DEF RetainedInv, OpenInv, Put, Meddle
<1>3. RecordInv'  BY DEF RetainedInv, RecordInv, Put, Meddle
<1>4. OwnInv'  BY DEF RetainedInv, OwnInv, Put, Meddle
<1>5. ReadInv'  BY DEF ReadInv, Put, Meddle
<1> QED  BY <1>1, <1>2, <1>3, <1>4, <1>5 DEF RetainedInv

LEMMA RewriteStep == ASSUME RetainedInv, NEW d \in Dirs, NEW s \in Slots, RewriteFile(d, s) PROVE RetainedInv'
<1> USE BoundAssumption DEF Recorded
<1>1. RetainTypeOK'  BY DEF RetainedInv, RetainTypeOK, OwnInv, RewriteFile, Meddle
<1>2. OpenInv'  BY DEF RetainedInv, OpenInv, RewriteFile, Meddle
<1>3. RecordInv'  BY DEF RetainedInv, RecordInv, RewriteFile, Meddle
<1>4. OwnInv'  BY DEF RetainedInv, OwnInv, RewriteFile, Meddle
<1>5. ReadInv'  BY DEF ReadInv, RewriteFile, Meddle
<1> QED  BY <1>1, <1>2, <1>3, <1>4, <1>5 DEF RetainedInv

-----------------------------------------------------------------------------
\* The inductive invariant.
THEOREM RetainInductive == RetainSpec => []RetainedInv
<1>1. ASSUME RetainInit PROVE RetainedInv
  <2>1. /\ maker \in [Dirs -> [Slots -> {"run", "others", Nothing}]]
        /\ \A d \in Dirs, s \in Slots : maker[d][s] # "run"
    BY <1>1, NameAssumption DEF RetainInit
  <2>2. data \in [Dirs -> [Slots -> {"verified", "half", "other"}]]
    BY <1>1 DEF RetainInit
  <2>3. RetainTypeOK
    <3>1. /\ place \in Dirs \cup {Nothing} /\ phase \in Phases \cup Ends /\ parent \in BOOLEAN
          /\ identity \in Dirs \cup {Nothing} /\ fd \in {Nothing, identity}
          /\ created \subseteq OutputNames /\ todo \subseteq OutputNames /\ late \in BOOLEAN /\ raced \in BOOLEAN
      BY <1>1 DEF RetainInit, Dirs, Phases
    <3>2. retries \in 0 .. Retries /\ meddled \in 0 .. Meddlings /\ faults \in 0 .. Faults
      BY <1>1, BoundAssumption DEF RetainInit
    <3> QED  BY <2>1, <2>2, <3>1, <3>2, Zenon DEF RetainTypeOK
  <2>4. OpenInv /\ RecordInv /\ OwnInv /\ ReadInv
    BY <1>1, <2>1 DEF RetainInit, OpenInv, RecordInv, OwnInv, ReadInv, Writing, Complete
  <2> QED  BY <2>3, <2>4 DEF RetainedInv
<1>2. ASSUME RetainedInv, [RetainNext]_retainVars PROVE RetainedInv'
  <2>1. CASE WriteStep
    BY <1>2, <2>1, PreflightStep, MakeRootStep, IdentifyStep, SecureStep, OpenRootStep, ListStep,
       CreateStep, FillStep, MeasureStep, FinalCheckStep, LastLookStep DEF WriteStep
  <2>2. CASE CleanStep
    BY <1>2, <2>2, EmptiedStep, LookForOwnStep, RootGoneStep, LeaveRootStep, RemoveRootStep,
       GoneStep, FindStep, UnlinkStep, LeaveFileStep DEF CleanStep
  <2>3. CASE RefuseOutput \/ Fail \/ FailToClean \/ Kill \/ Retry
    BY <1>2, <2>3, RefuseStep, FailStep, FailToCleanStep, KillStep, RetryStep
  <2>4. CASE OthersStep
    BY <1>2, <2>4, MoveRootStep, MoveParentStep, PutStep, RewriteStep DEF OthersStep
  <2>5. CASE UNCHANGED retainVars
    BY <1>2, <2>5 DEF retainVars, files, roots, account, RetainedInv, RetainTypeOK, OpenInv, RecordInv, OwnInv, ReadInv, Recorded
  <2> QED  BY <1>2, <2>1, <2>2, <2>3, <2>4, <2>5 DEF RetainNext, RunStep
<1> QED  BY <1>1, <1>2, PTL DEF RetainSpec

\* The state is well typed, and the descriptor is open on the directory recorded.
THEOREM RetainTyping == RetainSpec => []RetainTypeOK
<1>1. RetainedInv => RetainTypeOK  BY DEF RetainedInv
<1> QED  BY <1>1, RetainInductive, PTL

\* What is reported retained is whole.
THEOREM Retention == RetainSpec => []RetainedWhole
<1>1. RetainedInv => RetainedWhole
  BY NameAssumption DEF RetainedInv, RetainedWhole, RecordInv, ReadInv, Complete, Slots
<1> QED  BY <1>1, RetainInductive, PTL

\* A failure that asks for nothing has left nothing.
THEOREM CleanUp == RetainSpec => []CleanedLeavesNothing
<1>1. RetainedInv => CleanedLeavesNothing
  BY DEF RetainedInv, CleanedLeavesNothing, OwnInv, Writing
<1> QED  BY <1>1, RetainInductive, PTL

\* What others made stays as it is.
THEOREM Restraint == RetainSpec => OthersKept
<1>1. ASSUME RetainedInv, RetainNext, RunStep, ~raced
      PROVE /\ \A d \in Dirs, s \in Slots :
                 maker[d][s] = "others" => maker'[d][s] = "others" /\ data'[d][s] = data[d][s]
            /\ place # place' => place = Nothing \/ (place = identity /\ NoEntry(place))
  <2> USE <1>1, NameAssumption DEF RetainedInv, RetainTypeOK, OpenInv, OwnInv, Dirs, Slots, Goto, files, roots,
        account, Writing
  <2>1. CASE WriteStep
    <3>1. CASE \E n \in OutputNames : Create(n)  BY <3>1 DEF Create
    <3>2. CASE \E n \in OutputNames : Fill(n)  BY <3>2 DEF Fill
    <3>3. CASE \E n \in OutputNames : Measure(n)  BY <3>3 DEF Measure
    <3>4. CASE Preflight \/ MakeRoot \/ Identify \/ Secure \/ OpenRoot \/ List \/ FinalCheck \/ LastLook
      BY <3>4 DEF Preflight, MakeRoot, Identify, Secure, OpenRoot, List, FinalCheck, LastLook
    <3> QED  BY <2>1, <3>1, <3>2, <3>3, <3>4 DEF WriteStep
  <2>2. CASE CleanStep
    <3>1. CASE \E n \in OutputNames : Unlink(n)  BY <3>1 DEF Unlink
    <3>2. CASE \E n \in OutputNames : Gone(n) \/ Find(n) \/ LeaveFile(n)  BY <3>2 DEF Gone, Find, LeaveFile
    <3>3. CASE RemoveRoot  BY <3>3 DEF RemoveRoot, NoEntry
    <3>4. CASE Emptied \/ LookForOwn \/ RootGone \/ LeaveRoot
      BY <3>4 DEF Emptied, LookForOwn, RootGone, LeaveRoot
    <3> QED  BY <2>2, <3>1, <3>2, <3>3, <3>4 DEF CleanStep
  <2>3. CASE RefuseOutput \/ Fail \/ FailToClean  BY <2>3 DEF RefuseOutput, Fail, FailToClean
  <2> QED  BY <2>1, <2>2, <2>3 DEF RunStep
<1>2. RetainedInv /\ [RetainNext]_retainVars => [RunStep /\ ~raced =>
       /\ \A d \in Dirs, s \in Slots :
                 maker[d][s] = "others" => maker'[d][s] = "others" /\ data'[d][s] = data[d][s]
       /\ place # place' => place = Nothing \/ (place = identity /\ NoEntry(place))]_retainVars
  BY <1>1
<1> QED  BY <1>2, RetainInductive, PTL DEF RetainSpec, OthersKept
=============================================================================
