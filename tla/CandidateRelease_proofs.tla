------------------------ MODULE CandidateRelease_proofs ------------------------
(***************************************************************************)
(* Theorems of ReleaseStart and of CandidateRelease, which extends it, for *)
(* any number of runs, versions, dispatchers and changes by others.        *)
(*                                                                         *)
(* The invariants of the start hold because of what a run has read since   *)
(* its last write (Passed) and because of what the provider never takes    *)
(* back (Monotone): RunInv says, for one run, what its position entitles   *)
(* it to.  The refinement of CandidateLifecycle follows from who owns      *)
(* which tag.                                                              *)
(*                                                                         *)
(* The composition is proved from the theorems of its parts: those of the  *)
(* start, and those of DispatchClaim under the substitution that hands its *)
(* dispatchers what the start left (Claims).                               *)
(***************************************************************************)
EXTENDS CandidateRelease, TLAPS

\* The initial state has the types.
LEMMA InitTypeOK == Init => TypeOK
  BY CommitAssumption DEF Init, TypeOK, Commits, Policies

\* Every step keeps the types; a receipt only ever takes an enforced ruleset.
LEMMA NextTypeOK == TypeOK /\ [Next]_vars => TypeOK'
<1> SUFFICES ASSUME TypeOK, [Next]_vars PROVE TypeOK'
  OBVIOUS
<1> USE DEF TypeOK, provider
<1>1. ASSUME NEW r \in Runs, NEW c \in Commits, Trigger(r, c) PROVE TypeOK'
  BY <1>1 DEF Trigger, End
<1>2. ASSUME NEW r \in Runs, Rerun(r) PROVE TypeOK'
  BY <1>2 DEF Rerun, End
<1>3. ASSUME NEW r \in Runs, Step(r) PROVE TypeOK'
  <2>1. CASE Pass(r)
    <3>1. receipt' \in [Runs -> (Policies \ {"open"}) \cup {None}]
      <4>1. CASE Gate(r) = "governance"
        BY <2>1, <4>1 DEF Pass, Holds, Governed
      <4>2. CASE Gate(r) # "governance"
        BY <2>1, <4>2 DEF Pass
      <4> QED BY <4>1, <4>2
    <3> QED BY <2>1, <3>1 DEF Pass
  <2>2. CASE Decline(r)
    BY <2>2 DEF Decline, End
  <2>3. CASE Stop(r)
    BY <2>3 DEF Stop, End
  <2>a. ASSUME Applied(r) PROVE staleWrites' \in [Runs -> Nat]
    BY <2>a DEF Applied
  <2>b. ASSUME NEW k \in 1 .. 3, AtWrite(r, k), Confirmed(r) \/ Unknown(r)
        PROVE  /\ status' \in [Runs -> {"idle", "running", "declined", "failed", "succeeded"}]
               /\ seg' \in [Runs -> 1 .. 4] /\ at' \in [Runs -> Nat \ {0}]
    <3>1. seg[r] + 1 \in 1 .. 4
      BY <2>b DEF AtWrite
    <3> QED BY <2>b, <3>1 DEF Confirmed, Unknown, End
  <2>c. ASSUME NEW possible, Rejected(r, possible)
        PROVE  /\ status' \in [Runs -> {"idle", "running", "declined", "failed", "succeeded"}]
               /\ UNCHANGED <<seg, at, staleWrites>>
    BY <2>c DEF Rejected, End
  <2>4. CASE PostTagObject(r)
    BY <2>4, <2>a, <2>b, <2>c DEF PostTagObject
  <2>5. CASE PostTagRef(r)
    BY <2>5, <2>a, <2>b, <2>c DEF PostTagRef
  <2>6. CASE DraftRelease(r)
    <3>1. Pending \subseteq Commits
      BY CommitAssumption DEF Pending, Merged
    <3> QED BY <2>6, <3>1, <2>a, <2>b, <2>c DEF DraftRelease
  <2>7. CASE UploadStart(r)
    <3>1. status' \in [Runs -> {"idle", "running", "declined", "failed", "succeeded"}]
      BY <2>7, <2>c DEF UploadStart, Unknown, End
    <3>2. UNCHANGED <<seg, at>> /\ staleWrites' \in [Runs -> Nat]
      BY <2>7, <2>a, <2>c DEF UploadStart, Unknown
    <3> QED BY <2>7, <3>1, <3>2 DEF UploadStart
  <2> QED BY <1>3, <2>1, <2>2, <2>3, <2>4, <2>5, <2>6, <2>7 DEF Step
<1>4. ASSUME Others PROVE TypeOK'
  <2> USE DEF Change
  <2>1. CASE AdvanceMain
    <3>1. main + 1 \in Commits
      BY <2>1, CommitAssumption DEF AdvanceMain, Commits
    <3> QED BY <2>1, <3>1 DEF AdvanceMain
  <2>2. CASE ChangeLocalFiles \/ ToggleArchive
    <3>1. active' \in BOOLEAN /\ intact' \in BOOLEAN
      BY <2>2 DEF ChangeLocalFiles, ToggleArchive
    <3> QED BY <2>2, <3>1 DEF ChangeLocalFiles, ToggleArchive
  <2>3. ASSUME NEW c \in Releases, NEW labels \in SUBSET {"pending", "tagged"},
               Relabel(c, labels)
        PROVE  TypeOK'
    BY <2>3, CommitAssumption DEF Relabel
  <2>4. ASSUME NEW c \in Commits, RerunCI(c) PROVE TypeOK'
    BY <2>4 DEF RerunCI
  <2>5. ASSUME NEW p \in Policies, EditRuleset(p) PROVE TypeOK'
    BY <2>5 DEF EditRuleset
  <2>6. ASSUME NEW r \in Runs, ExpireReceipt(r) PROVE TypeOK'
    BY <2>6 DEF ExpireReceipt
  <2>7. ASSUME NEW c \in Releases, StrangerTag(c) \/ StrangerDraft(c) PROVE TypeOK'
    BY <2>7, CommitAssumption DEF StrangerTag, StrangerDraft
  <2>8. ASSUME NEW c \in Releases, NEW r \in Runs, EditDraft(c, r) PROVE TypeOK'
    BY <2>8, CommitAssumption DEF EditDraft
  <2> QED BY <1>4, <2>1, <2>2, <2>3, <2>4, <2>5, <2>6, <2>7, <2>8 DEF Others
<1>5. CASE UNCHANGED vars
  BY <1>5 DEF vars, run
<1> QED BY <1>1, <1>2, <1>3, <1>4, <1>5 DEF Next

\* Type correctness, whatever the provider does between the job's calls.
THEOREM TypeCorrect == Spec => []TypeOK
  BY InitTypeOK, NextTypeOK, PTL DEF Spec
-----------------------------------------------------------------------------
(* Which reads occur in which segment. *)

Occurs(g, s) == \E i \in 1 .. Len(s) : s[i] = g

Gates == LocalReads \cup {"event", "main", "pull", "pending", "governance", "ci", "active",
                          "visible", "absent", "identity", "tag", "output", "draft",
                          "candidate"}

\* Every gate the programs name is one of Gates.
LEMMA GateNames ==
  /\ "event" \in Gates /\ "main" \in Gates /\ "pull" \in Gates /\ "pending" \in Gates
  /\ "governance" \in Gates /\ "ci" \in Gates /\ "active" \in Gates /\ "visible" \in Gates
  /\ "absent" \in Gates /\ "identity" \in Gates /\ "tag" \in Gates /\ "output" \in Gates
  /\ "draft" \in Gates /\ "candidate" \in Gates /\ "clean" \in Gates /\ "inputs" \in Gates
  /\ "runtime" \in Gates /\ "evidence" \in Gates /\ "config" \in Gates
  /\ "transport" \in Gates
  BY DEF Gates, LocalReads, CheckoutReads, RuntimeReads, ConfigReads, TransportReads

\* What occurs in either part occurs in the concatenation.
LEMMA OccursInConcat ==
  ASSUME NEW s \in Seq(Gates), NEW t \in Seq(Gates), NEW g
  PROVE  /\ s \o t \in Seq(Gates)
         /\ Occurs(g, s) \/ Occurs(g, t) => Occurs(g, s \o t)
<1>1. s \o t \in Seq(Gates) /\ Len(s \o t) = Len(s) + Len(t)
  OBVIOUS
<1>2. ASSUME NEW i \in 1 .. Len(s), s[i] = g PROVE Occurs(g, s \o t)
  <2>1. i \in 1 .. Len(s \o t) /\ (s \o t)[i] = g
    BY <1>1, <1>2
  <2> QED BY <2>1 DEF Occurs
<1>3. ASSUME NEW i \in 1 .. Len(t), t[i] = g PROVE Occurs(g, s \o t)
  <2>1. Len(s) + i \in 1 .. Len(s \o t) /\ (s \o t)[Len(s) + i] = g
    BY <1>1, <1>3
  <2> QED BY <2>1 DEF Occurs
<1> QED BY <1>1, <1>2, <1>3 DEF Occurs

\* One admission makes the four freshness reads and the pending-PR read.
LEMMA AdmissionReads ==
  /\ Admission \in Seq(Gates)
  /\ \A g \in {"main", "ci", "inputs", "governance", "pull"} : Occurs(g, Admission)
<1>1. Admission \in Seq(Gates) /\ Len(Admission) = 12
  BY GateNames DEF Admission
<1>2. /\ Admission[2] = "main" /\ Admission[4] = "pull" /\ Admission[5] = "inputs"
      /\ Admission[6] = "governance" /\ Admission[8] = "ci"
  BY DEF Admission
<1> QED BY <1>1, <1>2 DEF Occurs

\* One frozen recheck makes the four freshness reads again.
LEMMA FrozenReads ==
  /\ Frozen \in Seq(Gates)
  /\ \A g \in {"main", "ci", "inputs", "governance", "pending"} : Occurs(g, Frozen)
<1>1. Frozen \in Seq(Gates) /\ Len(Frozen) = 10
  BY GateNames DEF Frozen
<1>2. /\ Frozen[2] = "main" /\ Frozen[4] = "pending" /\ Frozen[5] = "inputs"
      /\ Frozen[6] = "governance" /\ Frozen[8] = "ci"
  BY DEF Frozen
<1> QED BY <1>1, <1>2 DEF Occurs

\* Every segment after the first repeats the four reads that staleness fails.
Fresh == {"main", "ci", "inputs", "governance"}

\* Every segment after the first repeats the four freshness reads: no write is
\* cleared by what was read before the previous one.
LEMMA SegmentReads ==
  /\ \A g \in Fresh \cup {"pull"} : Occurs(g, Program[2])
  /\ \A g \in Fresh : Occurs(g, Program[3])
  /\ \A g \in Fresh \cup {"pending", "output"} : Occurs(g, Program[4])
<1> DEFINE before2 == <<"identity", "absent", "inputs", "evidence">>
           before3 == <<"tag", "identity">>
           after3 == <<"main", "inputs", "evidence">>
           a4 == <<"evidence", "event", "identity">>
           b4 == <<"output", "identity">>
           c4 == <<"evidence", "inputs", "draft">>
           d4 == <<"identity", "evidence", "inputs", "tag", "evidence">>
<1>1. \A g \in Fresh \cup {"pull"} : Occurs(g, Program[2])
  <2>1. Program[2] = Admission \o before2
    BY DEF Program, BeforeRef
  <2>2. before2 \in Seq(Gates)
    BY GateNames
  <2> HIDE DEF before2
  <2> QED BY <2>1, <2>2, AdmissionReads, OccursInConcat DEF Fresh
<1>2. \A g \in Fresh : Occurs(g, Program[3])
  <2>1. Program[3] = (before3 \o Frozen) \o after3
    BY DEF Program, AfterRef
  <2>2. before3 \in Seq(Gates) /\ after3 \in Seq(Gates)
    BY GateNames
  <2> HIDE DEF before3, after3
  <2>3. before3 \o Frozen \in Seq(Gates) /\ \A g \in Fresh : Occurs(g, before3 \o Frozen)
    BY <2>2, FrozenReads, OccursInConcat DEF Fresh
  <2> QED BY <2>1, <2>2, <2>3, OccursInConcat
<1>3. \A g \in Fresh \cup {"pending", "output"} : Occurs(g, Program[4])
  <2> DEFINE early == ((a4 \o Frozen) \o b4)
             bind == ((((early \o Frozen) \o c4) \o Frozen) \o d4)
  <2>1. Program[4] = (bind \o Construct) \o Seal
    BY DEF Program, BindDraft
  <2>2. /\ a4 \in Seq(Gates) /\ b4 \in Seq(Gates) /\ c4 \in Seq(Gates)
        /\ d4 \in Seq(Gates) /\ Seal \in Seq(Gates)
    BY GateNames DEF Seal
  <2>3. b4[1] = "output" /\ Len(b4) = 2
    OBVIOUS
  <2>4. Construct \in Seq(Gates)
    BY GateNames DEF Construct, Recheck
  <2> HIDE DEF a4, b4, c4, d4
  <2>5. Occurs("output", b4)
    BY <2>3 DEF Occurs
  <2>6. /\ early \in Seq(Gates)
        /\ \A g \in Fresh \cup {"pending", "output"} : Occurs(g, early)
    <3>1. /\ a4 \o Frozen \in Seq(Gates)
          /\ \A g \in Fresh \cup {"pending"} : Occurs(g, a4 \o Frozen)
      BY <2>2, FrozenReads, OccursInConcat DEF Fresh
    <3> QED BY <3>1, <2>2, <2>5, OccursInConcat
  <2> HIDE DEF early
  <2>7. /\ bind \in Seq(Gates)
        /\ \A g \in Fresh \cup {"pending", "output"} : Occurs(g, bind)
    <3>1. /\ early \o Frozen \in Seq(Gates)
          /\ \A g \in Fresh \cup {"pending", "output"} : Occurs(g, early \o Frozen)
      BY <2>6, FrozenReads, OccursInConcat
    <3>2. /\ (early \o Frozen) \o c4 \in Seq(Gates)
          /\ \A g \in Fresh \cup {"pending", "output"} : Occurs(g, (early \o Frozen) \o c4)
      BY <3>1, <2>2, OccursInConcat
    <3>3. /\ ((early \o Frozen) \o c4) \o Frozen \in Seq(Gates)
          /\ \A g \in Fresh \cup {"pending", "output"} :
               Occurs(g, ((early \o Frozen) \o c4) \o Frozen)
      BY <3>2, FrozenReads, OccursInConcat
    <3> QED BY <3>3, <2>2, OccursInConcat
  <2> HIDE DEF bind
  <2>8. /\ bind \o Construct \in Seq(Gates)
        /\ \A g \in Fresh \cup {"pending", "output"} : Occurs(g, bind \o Construct)
    BY <2>4, <2>7, OccursInConcat
  <2>9. \A g \in Fresh \cup {"pending", "output"} : Occurs(g, (bind \o Construct) \o Seal)
    BY <2>2, <2>8, OccursInConcat
  <2> QED BY <2>1, <2>9
<1> QED BY <1>1, <1>2, <1>3
-----------------------------------------------------------------------------
(* What one run is entitled to. *)

Passed(r, g) == \E i \in 1 .. at[r] - 1 : Program[seg[r]][i] = g

\* a change that fails read g of run r, for good
Blocks(r, g) == \/ g = "main" /\ main # head[r]
                \/ g = "ci" /\ ci[head[r]] # 1
                \/ g = "inputs" /\ ~intact
                \/ g = "governance" /\ expired[r]

Cleared(c) == \A b \in Releases : b < c => b \in retired

RunInv(r) ==
  /\ status[r] = "idle" => seg[r] = 1 /\ at[r] = 1 /\ staleWrites[r] = 0 /\ r \notin sealed
  /\ expired[r] => receipt[r] # None
  /\ head[r] <= main
  /\ seg[r] >= 2 => r \in objects
  /\ seg[r] >= 3 => tag[head[r]] = r
  /\ seg[r] = 2 /\ Passed(r, "pull") => Cleared(head[r])
  /\ seg[r] = 4 /\ Passed(r, "pending") => head[r] \in Releases
  /\ seg[r] = 4 /\ Passed(r, "output") => rp[r] = head[r]
  /\ r \in sealed => seg[r] = 4 /\ head[r] \in Releases /\ rp[r] = head[r]
  /\ staleWrites[r] <= 1
  /\ Running(r) /\ seg[r] = 1 => staleWrites[r] = 0
  /\ Running(r) /\ staleWrites[r] > 0 => \E g \in Fresh : Blocks(r, g) /\ ~Passed(r, g)

RetiredInv == \A c \in Releases : "pending" \in label[c] \/ c \in retired

IInv == /\ TypeOK
        /\ RetiredInv
        /\ OneReleaseInFlight
        /\ \A r \in Runs : RunInv(r)

\* What the provider, the clock and the disk never take back.
Monotone ==
  /\ main <= main'
  /\ \A c \in Commits : ci[c] # 1 => ci'[c] # 1
  /\ ~intact => ~intact'
  /\ \A r \in Runs : expired[r] => expired'[r]
  /\ retired \subseteq retired' /\ objects \subseteq objects'
  /\ \A c \in Commits : tag[c] # None => tag'[c] = tag[c]

Still(r) == /\ status'[r] = status[r] /\ seg'[r] = seg[r] /\ at'[r] = at[r]
            /\ head'[r] = head[r] /\ rp'[r] = rp[r] /\ receipt'[r] = receipt[r]
            /\ staleWrites'[r] = staleWrites[r]
            /\ r \in sealed' <=> r \in sealed

\* Nobody takes back what a run has relied on: main, an attempt, an owned tag.
LEMMA OthersMonotone == ASSUME TypeOK, Others PROVE Monotone /\ \A r \in Runs : Still(r)
<1> USE DEF Monotone, Still, Change, TypeOK
<1>1. CASE AdvanceMain
  BY <1>1, CommitAssumption DEF AdvanceMain, Commits
<1>2. CASE ChangeLocalFiles
  BY <1>2, CommitAssumption DEF ChangeLocalFiles, Commits
<1>3. CASE ToggleArchive
  BY <1>3, CommitAssumption DEF ToggleArchive, Commits
<1>4. ASSUME NEW c \in Releases, NEW labels \in SUBSET {"pending", "tagged"}, Relabel(c, labels)
      PROVE  Monotone /\ \A r \in Runs : Still(r)
  BY <1>4, CommitAssumption DEF Relabel, Commits
<1>5. ASSUME NEW c \in Commits, RerunCI(c) PROVE Monotone /\ \A r \in Runs : Still(r)
  BY <1>5, CommitAssumption DEF RerunCI, Commits
<1>6. ASSUME NEW p \in Policies, EditRuleset(p) PROVE Monotone /\ \A r \in Runs : Still(r)
  BY <1>6, CommitAssumption DEF EditRuleset, Commits
<1>7. ASSUME NEW r \in Runs, ExpireReceipt(r) PROVE Monotone /\ \A q \in Runs : Still(q)
  BY <1>7, CommitAssumption DEF ExpireReceipt, Commits
<1>8. ASSUME NEW c \in Releases, StrangerTag(c) \/ StrangerDraft(c)
      PROVE  Monotone /\ \A r \in Runs : Still(r)
  BY <1>8, CommitAssumption DEF StrangerTag, StrangerDraft, TagAbsent, Commits
<1>9. ASSUME NEW c \in Releases, NEW r \in Runs, EditDraft(c, r)
      PROVE  Monotone /\ \A q \in Runs : Still(q)
  BY <1>9, CommitAssumption DEF EditDraft, Commits
<1> QED BY <1>1, <1>2, <1>3, <1>4, <1>5, <1>6, <1>7, <1>8, <1>9 DEF Others

\* A run's own steps leave every other run where it is.
LEMMA RunMonotone ==
  ASSUME TypeOK, NEW r \in Runs,
         Step(r) \/ Rerun(r) \/ \E c \in Commits : Trigger(r, c)
  PROVE  /\ Monotone
         /\ \A q \in Runs \ {r} : Still(q)
         /\ expired' = expired
<1> USE DEF Monotone, Still, TypeOK, provider, End
<1>1. main \in Int
  BY CommitAssumption DEF Commits
<1>2. CASE Pass(r)
  BY <1>1, <1>2 DEF Pass
<1>3. CASE Decline(r) \/ Stop(r) \/ Rerun(r)
  BY <1>1, <1>3 DEF Decline, Stop, Rerun
<1>4. CASE \E c \in Commits : Trigger(r, c)
  BY <1>1, <1>4 DEF Trigger
<1> USE DEF Applied, Confirmed, Unknown, Rejected
<1>5. CASE PostTagObject(r)
  BY <1>1, <1>5 DEF PostTagObject
<1>6. CASE PostTagRef(r)
  BY <1>1, <1>6 DEF PostTagRef, RefFree, TagAbsent
<1>7. CASE DraftRelease(r)
  BY <1>1, <1>7 DEF DraftRelease
<1>8. CASE UploadStart(r)
  BY <1>1, <1>8 DEF UploadStart
<1> QED BY <1>2, <1>3, <1>4, <1>5, <1>6, <1>7, <1>8 DEF Step

\* A run that does not move keeps its invariant under any monotone step.
LEMMA StillKeeps ==
  ASSUME IInv, Monotone, TypeOK', NEW q \in Runs, Still(q),
         expired'[q] => receipt[q] # None
  PROVE  RunInv(q)'
<1> USE DEF Still, Monotone
<1>1. RunInv(q) /\ head[q] \in Commits /\ q # None
  BY RunAssumption DEF IInv, TypeOK
<1>2. \A g : Passed(q, g)' <=> Passed(q, g)
  BY DEF Passed
<1>3. \A g : Blocks(q, g) => Blocks(q, g)'
  <2>1. main # head[q] => main' # head'[q]
    BY <1>1, CommitAssumption DEF RunInv, Commits, IInv, TypeOK
  <2> QED BY <1>1, <2>1 DEF Blocks
<1>4. Cleared(head[q]) => Cleared(head[q])'
  BY DEF Cleared
<1>5. head'[q] <= main'
  BY <1>1, CommitAssumption DEF RunInv, Commits, IInv, TypeOK
<1>6. Running(q)' <=> Running(q)
  BY DEF Running
<1> QED BY <1>1, <1>2, <1>3, <1>4, <1>5, <1>6 DEF RunInv
-----------------------------------------------------------------------------
(* The run's own steps. *)

\* A run is stale exactly when one of its freshness reads can no longer pass.
LEMMA StaleBlocks == ASSUME NEW r \in Runs PROVE Stale(r) <=> \E g \in Fresh : Blocks(r, g)
  BY DEF Stale, Blocks, Fresh

\* A run that reaches a write has passed every read of the segment, so none of
\* its earlier writes was stale.
LEMMA AtWriteFacts ==
  ASSUME IInv, NEW r \in Runs, NEW k \in 1 .. 4, AtWrite(r, k)
  PROVE  /\ staleWrites[r] = 0
         /\ \A g : Occurs(g, Program[k]) => Passed(r, g)
<1>1. \A g : Occurs(g, Program[k]) => Passed(r, g)
  BY DEF AtWrite, Occurs, Passed
<1>2. CASE k = 1
  BY <1>1, <1>2 DEF AtWrite, IInv, RunInv
<1>3. CASE k # 1
  <2>1. \A g \in Fresh : Passed(r, g)
    <3>1. k \in {2, 3, 4}
      BY <1>3
    <3> QED BY <1>1, <3>1, SegmentReads
  <2>2. RunInv(r) /\ Running(r) /\ staleWrites[r] \in Nat
    BY DEF AtWrite, IInv, TypeOK
  <2> QED BY <1>1, <2>1, <2>2 DEF RunInv
<1> QED BY <1>2, <1>3

\* Passing a read keeps the invariant of the run that reads.
LEMMA PassInv == ASSUME IInv, TypeOK', NEW r \in Runs, Pass(r) PROVE RunInv(r)'
<1> USE DEF provider
<1>1. /\ RunInv(r) /\ Running(r) /\ TypeOK /\ TypeOK'
      /\ head[r] \in Releases => head[r] \in Commits
      /\ head[r] \in Commits /\ main \in Commits
  BY CommitAssumption DEF IInv, TypeOK, Pass, Reading
<1>2. /\ Holds(r, Gate(r))
      /\ seg' = seg /\ at'[r] = at[r] + 1 /\ at[r] \in Nat \ {0}
      /\ Gate(r) = Program[seg[r]][at[r]]
  BY <1>1 DEF Pass, Gate, TypeOK
<1>3. \A g : Passed(r, g)' => Passed(r, g) \/ g = Gate(r)
  <2> SUFFICES ASSUME NEW g, NEW i \in 1 .. at'[r] - 1, Program[seg[r]][i] = g
               PROVE  Passed(r, g) \/ g = Gate(r)
    BY <1>2 DEF Passed
  <2>1. i \in 1 .. at[r] - 1 \/ i = at[r]
    BY <1>2
  <2> QED BY <1>2, <2>1 DEF Passed
<1>4. \A g : Blocks(r, g)' <=> Blocks(r, g)
  BY DEF Pass, Blocks
<1>5. Gate(r) = "pull" => Cleared(head[r])
  <2> SUFFICES ASSUME Gate(r) = "pull", NEW b \in Releases, b < head[r] PROVE b \in retired
    BY DEF Cleared
  <2>1. Pending = {head[r]}
    BY <1>2 DEF Holds, SolePending
  <2>2. b \in Merged /\ b # head[r]
    BY <1>1, CommitAssumption DEF Merged, RunInv, Commits
  <2> QED BY <2>1, <2>2 DEF Pending, IInv, RetiredInv
<1>6. Gate(r) = "pending" => head[r] \in Releases
  BY <1>2 DEF Holds, SolePending, Pending, Merged
<1>7. Gate(r) = "output" => rp[r] = head[r]
  BY <1>2 DEF Holds
<1>8. \A g \in Fresh : Blocks(r, g) => g # Gate(r)
  BY <1>1, <1>2 DEF Blocks, Holds, Governed, LocalReads, CheckoutReads, RunInv
<1>9. expired'[r] => receipt'[r] # None
  <2>1. CASE Gate(r) = "governance"
    BY <1>1, <1>2, <2>1 DEF Pass, Holds, Governed, RunInv
  <2>2. CASE Gate(r) # "governance"
    BY <1>1, <2>2 DEF Pass, RunInv
  <2> QED BY <2>1, <2>2
<1>10. /\ status' = status /\ head' = head /\ rp' = rp /\ sealed' = sealed /\ main' = main
       /\ staleWrites' = staleWrites /\ objects' = objects /\ tag' = tag /\ retired' = retired
       /\ expired' = expired
  BY DEF Pass
<1>11. Cleared(head[r]) => Cleared(head[r])'
  BY <1>10 DEF Cleared
<1>12. Running(r)' /\ status[r] # "idle"
  BY <1>1, <1>10 DEF Running
<1> QED BY <1>1, <1>2, <1>3, <1>4, <1>5, <1>6, <1>7, <1>8, <1>9, <1>10, <1>11, <1>12
        DEF RunInv

\* Waking, declining, stopping and rerunning keep the invariant of the run.
LEMMA EndInv ==
  ASSUME IInv, TypeOK', NEW r \in Runs, Decline(r) \/ Stop(r) \/ Rerun(r)
         \/ \E c \in Commits : Trigger(r, c)
  PROVE  RunInv(r)'
<1> USE DEF provider, End
<1>1. RunInv(r) /\ TypeOK /\ at[r] \in Nat /\ staleWrites[r] \in Nat
  BY DEF IInv, TypeOK
<1>2. CASE Decline(r) \/ Stop(r) \/ Rerun(r)
  <2>1. /\ UNCHANGED <<head, rp, sealed, main, seg, at, staleWrites, objects, tag,
                       retired, expired, receipt>>
        /\ status'[r] \in {"declined", "failed"}
    BY <1>1, <1>2 DEF Decline, Stop, Rerun, TypeOK
  <2>2. \A g : Passed(r, g)' <=> Passed(r, g)
    BY <2>1 DEF Passed
  <2>3. Cleared(head[r]) => Cleared(head[r])'
    BY <2>1 DEF Cleared
  <2>4. ~Running(r)' /\ status'[r] # "idle"
    BY <2>1 DEF Running
  <2> QED BY <1>1, <2>1, <2>2, <2>3, <2>4 DEF RunInv
<1>3. CASE \E c \in Commits : Trigger(r, c)
  <2>1. /\ seg[r] = 1 /\ at[r] = 1 /\ staleWrites[r] = 0 /\ r \notin sealed
        /\ UNCHANGED <<rp, sealed, main, seg, at, staleWrites, objects, tag,
                       retired, expired, receipt>>
        /\ status'[r] = "running" /\ head'[r] = main /\ main \in Int
    BY <1>1, <1>3, CommitAssumption DEF Trigger, RunInv, TypeOK, Commits
  <2> QED BY <1>1, <2>1 DEF RunInv
<1> QED BY <1>2, <1>3

\* A write that lands and is confirmed opens a segment that must fail when the
\* write was already stale; one that is not leaves the run ended.
LEMMA WriteInv ==
  ASSUME IInv, TypeOK', NEW r \in Runs, NEW k \in 1 .. 3, AtWrite(r, k),
         Applied(r), Confirmed(r) \/ Unknown(r),
         UNCHANGED <<main, ci, intact, expired, head, receipt, retired, sealed>>,
         objects \subseteq objects', k = 1 => r \in objects',
         \A c \in Commits : tag[c] # None => tag'[c] = tag[c],
         k = 2 => tag'[head[r]] = r,
         UNCHANGED rp \/ k = 3
  PROVE  RunInv(r)'
<1>1. /\ RunInv(r) /\ TypeOK /\ staleWrites[r] = 0 /\ Running(r)
      /\ seg[r] = k /\ at[r] = Len(Program[k]) + 1
      /\ head[r] \in Commits /\ r # None
  BY AtWriteFacts, RunAssumption DEF IInv, TypeOK, AtWrite
<1>2. /\ staleWrites'[r] = (IF Stale(r) THEN 1 ELSE 0)
  BY <1>1 DEF Applied, TypeOK
<1>3. \A g : Blocks(r, g)' <=> Blocks(r, g)
  BY DEF Blocks
<1>4. /\ head'[r] = head[r] /\ (tag[head[r]] = r => tag'[head[r]] = r)
      /\ r \notin sealed /\ status[r] = "running"
  BY <1>1 DEF RunInv, Running
<1>5. CASE Confirmed(r)
  <2>1. status' = status /\ seg'[r] = k + 1 /\ at'[r] = 1
    BY <1>1, <1>5 DEF Confirmed, TypeOK
  <2>2. \A g : ~Passed(r, g)'
    BY <2>1 DEF Passed
  <2>3. staleWrites'[r] > 0 => \E g \in Fresh : Blocks(r, g)' /\ ~Passed(r, g)'
    BY <1>2, <1>3, <2>2, StaleBlocks
  <2> QED BY <1>1, <1>2, <1>4, <2>1, <2>2, <2>3 DEF RunInv, Running
<1>6. CASE Unknown(r)
  <2>1. status'[r] = "failed" /\ seg' = seg /\ at' = at
    BY <1>1, <1>6 DEF Unknown, End, TypeOK
  <2>2. \A g : Passed(r, g)' <=> Passed(r, g)
    BY <2>1 DEF Passed
  <2>3. Cleared(head[r]) => Cleared(head[r])'
    BY DEF Cleared
  <2> QED BY <1>1, <1>2, <1>4, <2>1, <2>2, <2>3 DEF RunInv, Running
<1> QED BY <1>5, <1>6

\* A rejected write changes nothing but ends the run.
LEMMA RejectedInv ==
  ASSUME IInv, TypeOK', NEW r \in Runs, NEW k \in 1 .. 4, AtWrite(r, k),
         NEW possible, Rejected(r, possible),
         UNCHANGED <<main, expired, head, receipt, rp, retired, sealed, objects, tag>>
  PROVE  RunInv(r)'
<1>1. RunInv(r) /\ status'[r] = "failed"
  BY DEF IInv, TypeOK, Rejected, End
<1>2. seg' = seg /\ at' = at /\ staleWrites' = staleWrites
  BY DEF Rejected
<1>3. \A g : Passed(r, g)' <=> Passed(r, g)
  BY <1>2 DEF Passed
<1>4. Cleared(head[r]) => Cleared(head[r])'
  BY DEF Cleared
<1> QED BY <1>1, <1>2, <1>3, <1>4 DEF RunInv, Running

\* The upload seals only a candidate the run owns.
LEMMA UploadInv == ASSUME IInv, TypeOK', NEW r \in Runs, UploadStart(r) PROVE RunInv(r)'
<1> USE DEF provider
<1>1. /\ RunInv(r) /\ TypeOK /\ AtWrite(r, 4) /\ staleWrites[r] = 0
      /\ Passed(r, "pending") /\ Passed(r, "output")
  BY SegmentReads, AtWriteFacts DEF UploadStart, IInv
<1>2. staleWrites'[r] <= 1
  <2>1. CASE Applied(r)
    BY <1>1, <2>1 DEF Applied, TypeOK
  <2>2. CASE ~Applied(r)
    BY <1>1, <2>2 DEF UploadStart, Rejected
  <2> QED BY <2>1, <2>2
<1>3. /\ status'[r] \in {"succeeded", "failed"} /\ seg' = seg /\ at' = at
      /\ sealed' \subseteq sealed \cup {r}
  BY <1>1 DEF UploadStart, Unknown, Rejected, End, TypeOK
<1>4. \A g : Passed(r, g)' <=> Passed(r, g)
  BY <1>3 DEF Passed
<1>5. Cleared(head[r]) => Cleared(head[r])'
  BY DEF UploadStart, Cleared
<1> QED BY <1>1, <1>2, <1>3, <1>4, <1>5 DEF UploadStart, RunInv, AtWrite, Running

\* Every step of a run keeps its own invariant.
LEMMA StepInv == ASSUME IInv, TypeOK', NEW r \in Runs, Step(r) PROVE RunInv(r)'
<1> USE DEF provider
<1>1. Monotone /\ head[r] \in Commits /\ TypeOK
  BY RunMonotone DEF IInv, TypeOK
<1>2. CASE PostTagObject(r)
  <2>1. AtWrite(r, 1)
    BY <1>2 DEF PostTagObject
  <2>2. CASE Rejected(r, active) /\ UNCHANGED objects
    BY <1>2, <2>1, <2>2, RejectedInv DEF PostTagObject
  <2>3. CASE objects' = objects \cup {r} /\ Applied(r) /\ (Confirmed(r) \/ Unknown(r))
    BY <1>2, <2>1, <2>3, WriteInv DEF PostTagObject
  <2> QED BY <1>2, <2>2, <2>3 DEF PostTagObject
<1>3. CASE PostTagRef(r)
  <2>1. AtWrite(r, 2)
    BY <1>3 DEF PostTagRef
  <2>2. CASE Rejected(r, active /\ RefFree(head[r])) /\ UNCHANGED tag
    BY <1>3, <2>1, <2>2, RejectedInv DEF PostTagRef
  <2>3. CASE /\ tag' = [tag EXCEPT ![head[r]] = r]
             /\ Applied(r) /\ (Confirmed(r) \/ Unknown(r))
    <3>1. tag'[head[r]] = r
      BY <1>1, <2>3 DEF TypeOK
    <3> QED BY <1>1, <1>3, <2>1, <2>3, <3>1, WriteInv DEF PostTagRef, Monotone
  <2> QED BY <1>3, <2>2, <2>3 DEF PostTagRef
<1>4. CASE DraftRelease(r)
  <2>1. AtWrite(r, 3)
    BY <1>4 DEF DraftRelease
  <2>2. CASE Rejected(r, active) /\ UNCHANGED <<releases, rp>>
    BY <1>4, <2>1, <2>2, RejectedInv DEF DraftRelease
  <2>3. CASE Applied(r) /\ (Confirmed(r) \/ Unknown(r))
    BY <1>4, <2>1, <2>3, WriteInv DEF DraftRelease
  <2> QED BY <1>4, <2>2, <2>3 DEF DraftRelease
<1> QED BY <1>2, <1>3, <1>4, PassInv, EndInv, UploadInv DEF Step

\* The tag's owner had read that its PR was the only pending one.
LEMMA NextOneReleaseInFlight ==
  ASSUME IInv, TypeOK', [Next]_vars PROVE OneReleaseInFlight' /\ RetiredInv'
<1> USE DEF provider, IInv
<1>1. ASSUME NEW r \in Runs, Step(r) \/ Rerun(r) \/ \E c \in Commits : Trigger(r, c)
      PROVE  OneReleaseInFlight' /\ RetiredInv'
  <2>1. UNCHANGED <<label, retired>>
    BY <1>1 DEF Step, Pass, Decline, Stop, PostTagObject, PostTagRef, DraftRelease,
                UploadStart, Rerun, Trigger
  <2>2. CASE UNCHANGED tag
    BY <2>1, <2>2 DEF OneReleaseInFlight, RetiredInv
  <2>3. CASE ~UNCHANGED tag
    <3>1. PostTagRef(r) /\ tag' = [tag EXCEPT ![head[r]] = r]
      BY <1>1, <2>3 DEF Step, Pass, Decline, Stop, PostTagObject, PostTagRef, DraftRelease,
                        UploadStart, Rerun, Trigger
    <3>2. Cleared(head[r])
      <4>1. AtWrite(r, 2) /\ seg[r] = 2
        BY <3>1 DEF PostTagRef, AtWrite
      <4>2. Passed(r, "pull")
        BY <4>1, AtWriteFacts, SegmentReads
      <4> QED BY <4>1, <4>2 DEF RunInv
    <3> QED BY <2>1, <3>1, <3>2, CommitAssumption
            DEF OneReleaseInFlight, RetiredInv, Cleared, TypeOK
  <2> QED BY <2>2, <2>3
<1>2. ASSUME Others PROVE OneReleaseInFlight' /\ RetiredInv'
  <2>1. RetiredInv' /\ retired \subseteq retired'
    <3>1. ASSUME NEW c \in Releases, NEW labels \in SUBSET {"pending", "tagged"},
                 Relabel(c, labels)
          PROVE  RetiredInv' /\ retired \subseteq retired'
      BY <3>1, CommitAssumption DEF Relabel, RetiredInv, TypeOK
    <3>2. CASE UNCHANGED <<label, retired>>
      BY <3>2 DEF RetiredInv
    <3> QED BY <1>2, <3>1, <3>2
            DEF Others, AdvanceMain, ChangeLocalFiles, ToggleArchive, RerunCI, EditRuleset,
                ExpireReceipt, StrangerTag, StrangerDraft, EditDraft
  <2>2. \A c \in Releases : tag'[c] \in Runs => tag[c] \in Runs
    BY <1>2, CommitAssumption, RunAssumption
       DEF Others, TypeOK, AdvanceMain, ChangeLocalFiles, ToggleArchive, Relabel,
           RerunCI, EditRuleset, ExpireReceipt, StrangerTag, StrangerDraft, EditDraft
  <2> QED BY <2>1, <2>2 DEF OneReleaseInFlight
<1>3. CASE UNCHANGED vars
  BY <1>3 DEF vars, OneReleaseInFlight, RetiredInv
<1> QED BY <1>1, <1>2, <1>3 DEF Next

\* The initial state satisfies the invariant.
LEMMA InitIInv == Init => IInv
<1> SUFFICES ASSUME Init PROVE IInv
  OBVIOUS
<1>1. TypeOK /\ RetiredInv
  BY InitTypeOK, CommitAssumption DEF Init, RetiredInv
<1>2. OneReleaseInFlight
  BY RunAssumption, CommitAssumption DEF Init, OneReleaseInFlight
<1>3. \A r \in Runs : RunInv(r)
  BY <1>1, CommitAssumption DEF Init, RunInv, Passed, Commits
<1> QED BY <1>1, <1>2, <1>3 DEF IInv

\* Every step keeps the invariant: of the run that moves, and of the others.
LEMMA NextIInv == IInv /\ [Next]_vars => IInv'
<1> SUFFICES ASSUME IInv, [Next]_vars PROVE IInv'
  OBVIOUS
<1>1. TypeOK /\ TypeOK'
  BY NextTypeOK DEF IInv
<1>2. RetiredInv' /\ OneReleaseInFlight'
  BY <1>1, NextOneReleaseInFlight
<1>3. ASSUME NEW q \in Runs PROVE RunInv(q)'
  <2>1. ASSUME NEW r \in Runs, Step(r) \/ Rerun(r) \/ \E c \in Commits : Trigger(r, c)
        PROVE  RunInv(q)'
    <3>1. CASE q = r
      BY <1>1, <2>1, <3>1, StepInv, EndInv
    <3>2. CASE q # r
      <4>1. Monotone /\ Still(q) /\ expired' = expired
        BY <1>1, <2>1, <3>2, RunMonotone
      <4>2. expired'[q] => receipt[q] # None
        BY <4>1 DEF IInv, RunInv
      <4> QED BY <1>1, <4>1, <4>2, StillKeeps
    <3> QED BY <3>1, <3>2
  <2>2. CASE Others
    <3>1. Monotone /\ Still(q)
      BY <1>1, <2>2, OthersMonotone
    <3>2. expired'[q] => receipt[q] # None
      <4>1. expired'[q] => expired[q] \/ ExpireReceipt(q)
        BY <1>1, <2>2
           DEF Others, TypeOK, AdvanceMain, ChangeLocalFiles, ToggleArchive, Relabel, RerunCI,
               EditRuleset, ExpireReceipt, StrangerTag, StrangerDraft, EditDraft
      <4> QED BY <4>1 DEF IInv, RunInv, ExpireReceipt
    <3> QED BY <1>1, <3>1, <3>2, StillKeeps
  <2>3. CASE UNCHANGED vars
    <3>1. Monotone /\ Still(q) /\ expired' = expired
      BY <1>1, <2>3, CommitAssumption
         DEF vars, provider, run, Monotone, Still, TypeOK, Commits
    <3>2. expired'[q] => receipt[q] # None
      BY <3>1 DEF IInv, RunInv
    <3> QED BY <1>1, <3>1, <3>2, StillKeeps
  <2> QED BY <2>1, <2>2, <2>3 DEF Next
<1> QED BY <1>1, <1>2, <1>3 DEF IInv

\* The conjunction of the invariants holds in every reachable state.
LEMMA Invariance == Spec => []IInv
  BY InitIInv, NextIInv, PTL DEF Spec

\* However long main, CI, the disk and the clock drift, no run lands two writes
\* after it became stale.
THEOREM StaleWriteLast == Spec => []StaleWriteIsLast
<1>1. IInv => StaleWriteIsLast
  BY DEF IInv, RunInv, StaleWriteIsLast
<1> QED BY <1>1, Invariance, PTL

\* A tagged release has no earlier release PR that was never retired.
THEOREM ReleasesOneAtATime == Spec => []OneReleaseInFlight
<1>1. IInv => OneReleaseInFlight
  BY DEF IInv
<1> QED BY <1>1, Invariance, PTL

\* A retained start is the only one of its version and names what its own run
\* created and had confirmed, for any number of racing runs.
THEOREM SealedOwnership == Spec => []SealedIsOwnCandidate
<1>1. IInv => SealedIsOwnCandidate
  BY DEF IInv, RunInv, SealedIsOwnCandidate, TypeOK
<1> QED BY <1>1, Invariance, PTL
-----------------------------------------------------------------------------
(* Refinement: who owns a version, and how far its owner has come.          *)

\* A tag that a run created is the tag of the commit the run checked out.
OwnerInv == \A c \in Commits : tag[c] \in Runs => /\ head[tag[c]] = c
                                                  /\ status[tag[c]] # "idle"

LEMMA InitOwnerInv == Init => OwnerInv
  BY RunAssumption DEF Init, OwnerInv

\* Only Trigger moves the head of a run, and only of an idle one.
LEMMA NextOwnerInv == ASSUME IInv, OwnerInv, [Next]_vars PROVE OwnerInv'
<1> USE DEF IInv, TypeOK, OwnerInv, provider, run, End
<1>1. ASSUME NEW r \in Runs, NEW c \in Commits, Trigger(r, c) PROVE OwnerInv'
  BY <1>1 DEF Trigger
<1>2. ASSUME NEW r \in Runs, Pass(r) \/ Decline(r) \/ Stop(r) \/ Rerun(r) PROVE OwnerInv'
  <2>1. UNCHANGED <<tag, head>>  BY <1>2 DEF Pass, Decline, Stop, Rerun
  <2>2. \A q \in Runs : status[q] # "idle" => status'[q] # "idle"
    BY <1>2 DEF Pass, Decline, Stop, Rerun
  <2> QED  BY <2>1, <2>2
<1>3. ASSUME NEW r \in Runs, PostTagObject(r) \/ DraftRelease(r) \/ UploadStart(r)
      PROVE  OwnerInv'
  <2>1. UNCHANGED <<tag, head>>  BY <1>3 DEF PostTagObject, DraftRelease, UploadStart
  <2>2. \A q \in Runs : status[q] # "idle" => status'[q] # "idle"
    BY <1>3 DEF PostTagObject, DraftRelease, UploadStart, Confirmed, Unknown, Rejected
  <2> QED  BY <2>1, <2>2
<1>4. ASSUME NEW r \in Runs, PostTagRef(r) PROVE OwnerInv'
  <2>1. head' = head /\ (tag' = tag \/ tag' = [tag EXCEPT ![head[r]] = r])
    BY <1>4 DEF PostTagRef
  <2>2. \A q \in Runs : status[q] # "idle" \/ q = r => status'[q] # "idle"
    BY <1>4 DEF PostTagRef, AtWrite, Running, Confirmed, Unknown, Rejected
  <2> QED  BY <2>1, <2>2
<1>5. CASE Others
  <2>1. UNCHANGED <<head, status>>
    BY <1>5 DEF Others, Change, AdvanceMain, ChangeLocalFiles, ToggleArchive, Relabel, RerunCI,
                EditRuleset, ExpireReceipt, StrangerTag, StrangerDraft, EditDraft
  <2>2. tag' = tag \/ \E c \in Releases : tag' = [tag EXCEPT ![c] = Stranger]
    BY <1>5 DEF Others, AdvanceMain, ChangeLocalFiles, ToggleArchive, Relabel, RerunCI, EditRuleset,
         ExpireReceipt, StrangerTag, StrangerDraft, EditDraft
  <2> QED  BY <2>1, <2>2, RunAssumption
<1>6. CASE UNCHANGED vars
  BY <1>6 DEF vars
<1> QED  BY <1>1, <1>2, <1>3, <1>4, <1>5, <1>6 DEF Next, Step

\* The abstract variables as functions of a version.
LEMMA NothingMoves ==
  ASSUME UNCHANGED tag, \A c \in Releases : StageOf(c)' = StageOf(c)
  PROVE  UNCHANGED Lifecycle!vars
<1>1. [c \in Releases |-> StageOf(c)]' = [c \in Releases |-> StageOf(c)]
  OBVIOUS
<1>2. [c \in Releases |-> tag[c]]' = [c \in Releases |-> tag[c]]
  OBVIOUS
<1> QED  BY <1>1, <1>2 DEF Lifecycle!vars

LEMMA OneMoves ==
  ASSUME NEW v \in Releases, NEW from, NEW to, StageOf(v) = from, StageOf(v)' = to,
         \A c \in Releases \ {v} : StageOf(c)' = StageOf(c)
  PROVE  Lifecycle!Move(v, from, to)
<1>1. [c \in Releases |-> StageOf(c)]' = [[c \in Releases |-> StageOf(c)] EXCEPT ![v] = to]
  OBVIOUS
<1> QED  BY <1>1 DEF Lifecycle!Move

\* A new tag is the first step of its version, whoever creates it.
LEMMA TagStep ==
  ASSUME TypeOK, OwnerInv, NEW v \in Releases, NEW o \in Runs \cup {Stranger}, TagAbsent(v),
         tag' = [tag EXCEPT ![v] = o], o \in Runs => seg'[o] < 4 /\ head[o] = v,
         \A q \in Runs \ {o} : seg'[q] = seg[q], sealed' = sealed
  PROVE  Lifecycle!Tag(v, o)
<1>1. v \in Commits /\ Releases \subseteq Commits  BY CommitAssumption
<1>2. StageOf(v) = "absent"  BY DEF StageOf, TagAbsent
<1>3. StageOf(v)' = "tagged"
  BY <1>1, RunAssumption DEF StageOf, TypeOK
<1>4. ASSUME NEW c \in Releases \ {v} PROVE StageOf(c)' = StageOf(c) /\ tag'[c] = tag[c]
  <2>1. tag'[c] = tag[c] /\ tag[c] \in Runs \cup {Stranger, None}  BY <1>1 DEF TypeOK
  <2>2. tag[c] \in Runs => seg'[tag[c]] = seg[tag[c]]  BY <1>1 DEF OwnerInv
  <2> QED  BY <2>1, <2>2 DEF StageOf
<1>5. Lifecycle!Move(v, "absent", "tagged")  BY <1>2, <1>3, <1>4, OneMoves
<1>6. [c \in Releases |-> tag[c]]' = [[c \in Releases |-> tag[c]] EXCEPT ![v] = o]
  <2>1. tag'[v] = o  BY <1>1 DEF TypeOK
  <2> QED  BY <2>1, <1>4
<1> QED  BY <1>5, <1>6 DEF Lifecycle!Tag

\* What a run does to its segment moves at most the version it owns.
LEMMA OtherVersions ==
  ASSUME TypeOK, OwnerInv, NEW r \in Runs, tag' = tag, sealed' \ {r} = sealed \ {r},
         \A q \in Runs \ {r} : seg'[q] = seg[q]
  PROVE  \A c \in Releases \ {head[r]} : StageOf(c)' = StageOf(c)
<1> SUFFICES ASSUME NEW c \in Releases, c # head[r] PROVE StageOf(c)' = StageOf(c)
  OBVIOUS
<1>1. tag[c] \in Runs \cup {Stranger, None} /\ tag[c] # r
  BY CommitAssumption DEF TypeOK, OwnerInv
<1> QED  BY <1>1 DEF StageOf

\* The step that follows the job's own ref, draft or upload.
LEMMA StepRefines ==
  ASSUME IInv, OwnerInv, NEW r \in Runs, Step(r)
  PROVE  [Lifecycle!StartNext]_(Lifecycle!vars)
<1>1. TypeOK /\ RunInv(r)  BY DEF IInv
<1>2. head[r] \in Commits /\ seg[r] \in 1 .. 4 /\ r # Stranger /\ r # None
  BY <1>1, RunAssumption DEF TypeOK
<1>3. CASE UNCHANGED <<tag, seg, sealed>>
  BY <1>3, NothingMoves DEF StageOf
<1>4. ASSUME Pass(r) \/ Decline(r) \/ Stop(r) PROVE UNCHANGED <<tag, seg, sealed>>
  BY <1>4 DEF Pass, Decline, Stop, provider
<1>5. CASE PostTagObject(r)
  <2>1. tag' = tag /\ sealed' = sealed  BY <1>5 DEF PostTagObject
  <2>2. seg[r] = 1 /\ (seg' = seg \/ seg' = [seg EXCEPT ![r] = 2])
    BY <1>5, <1>1 DEF PostTagObject, AtWrite, Confirmed, Unknown, Rejected
  <2>3. \A q \in Runs : seg'[q] = seg[q] \/ (q = r /\ seg'[q] = 2)  BY <1>1, <2>2 DEF TypeOK
  <2>4. ASSUME NEW c \in Releases PROVE StageOf(c)' = StageOf(c)
    <3>1. tag[c] \in Runs \cup {Stranger, None}  BY <1>1, CommitAssumption DEF TypeOK
    <3> QED  BY <2>1, <2>2, <2>3, <3>1 DEF StageOf
  <2> QED  BY <2>1, <2>4, NothingMoves
<1>6. CASE PostTagRef(r)
  <2>1. sealed' = sealed /\ seg[r] = 2  BY <1>6 DEF PostTagRef, AtWrite
  <2>2. CASE UNCHANGED <<tag, seg>>  BY <1>3, <2>1, <2>2
  <2>3. CASE TagAbsent(head[r]) /\ tag' = [tag EXCEPT ![head[r]] = r]
             /\ (seg' = seg \/ seg' = [seg EXCEPT ![r] = 3])
    <3>1. seg'[r] < 4 /\ \A q \in Runs \ {r} : seg'[q] = seg[q]
      BY <1>1, <2>1, <2>3 DEF TypeOK
    <3>2. CASE head[r] \in Releases
      <4>1. Lifecycle!Tag(head[r], r)  BY <1>1, <2>1, <2>3, <3>1, <3>2, TagStep
      <4> QED  BY <3>2, <4>1 DEF Lifecycle!StartNext
    <3>3. CASE head[r] \notin Releases
      <4>1. ASSUME NEW c \in Releases PROVE StageOf(c)' = StageOf(c) /\ tag'[c] = tag[c]
        <5>1. c \in Commits /\ c # head[r]  BY <3>3, CommitAssumption
        <5>2. tag'[c] = tag[c] /\ tag[c] \in Runs \cup {Stranger, None} /\ tag[c] # r
          BY <5>1, <1>1, <2>3 DEF TypeOK, OwnerInv
        <5> QED  BY <2>1, <3>1, <5>2 DEF StageOf
      <4>2. [c \in Releases |-> StageOf(c)]' = [c \in Releases |-> StageOf(c)]  BY <4>1
      <4>3. [c \in Releases |-> tag[c]]' = [c \in Releases |-> tag[c]]  BY <4>1
      <4> QED  BY <4>2, <4>3 DEF Lifecycle!vars
    <3> QED  BY <3>2, <3>3
  <2> QED  BY <1>6, <2>1, <2>2, <2>3 DEF PostTagRef, RefFree, Confirmed, Unknown, Rejected
<1>7. CASE DraftRelease(r)
  <2>1. tag' = tag /\ sealed' = sealed /\ seg[r] = 3 /\ tag[head[r]] = r /\ r \notin sealed
    BY <1>7, <1>1 DEF DraftRelease, AtWrite, RunInv
  <2>2. seg' = seg \/ seg' = [seg EXCEPT ![r] = 4]
    BY <1>7, <2>1 DEF DraftRelease, Confirmed, Unknown, Rejected
  <2>3. CASE seg' = seg  BY <1>3, <2>1, <2>3
  <2>4. CASE seg' = [seg EXCEPT ![r] = 4]
    <3>1. seg'[r] = 4 /\ \A q \in Runs \ {r} : seg'[q] = seg[q]  BY <1>1, <2>4 DEF TypeOK
    <3>2. \A c \in Releases \ {head[r]} : StageOf(c)' = StageOf(c)
      BY <1>1, <2>1, <3>1, OtherVersions
    <3>3. CASE head[r] \in Releases
      <4>1. StageOf(head[r]) = "tagged" /\ StageOf(head[r])' = "drafted"
        <5>1. head' = head  BY <1>7 DEF DraftRelease
        <5> QED  BY <1>2, <2>1, <3>1, <5>1 DEF StageOf
      <4>2. Lifecycle!Move(head[r], "tagged", "drafted")
        <5> DEFINE v == head[r]
        <5>1. head' = head  BY <1>7 DEF DraftRelease
        <5> QED  BY <3>2, <3>3, <4>1, <5>1, OneMoves
      <4>3. Lifecycle!Draft(head[r])
        <5>1. [c \in Releases |-> tag[c]]' = [c \in Releases |-> tag[c]]  BY <2>1
        <5>2. [c \in Releases |-> tag[c]][head[r]] \in Runs  BY <2>1, <3>3
        <5> QED  BY <4>2, <5>1, <5>2 DEF Lifecycle!Draft
      <4> QED  BY <3>3, <4>3 DEF Lifecycle!StartNext
    <3>4. CASE head[r] \notin Releases
      BY <2>1, <3>2, <3>4, NothingMoves
    <3> QED  BY <3>3, <3>4
  <2> QED  BY <2>2, <2>3, <2>4
<1>8. CASE UploadStart(r)
  <2>1. tag' = tag /\ seg' = seg /\ head' = head /\ seg[r] = 4 /\ tag[head[r]] = r
    BY <1>8, <1>1 DEF UploadStart, AtWrite, RunInv, provider, Unknown, Rejected
  <2>2. sealed' = sealed \/ sealed' = sealed \cup {r}  BY <1>8 DEF UploadStart
  <2>3. CASE sealed' = sealed  BY <1>3, <2>1, <2>3
  <2>4. CASE sealed' = sealed \cup {r} /\ r \notin sealed
    <3>2. \A c \in Releases \ {head[r]} : StageOf(c)' = StageOf(c)
      BY <1>1, <2>1, <2>4, OtherVersions
    <3>3. CASE head[r] \in Releases
      <4>1. StageOf(head[r]) = "drafted" /\ StageOf(head[r])' = "sealed"
        BY <1>2, <2>1, <2>4 DEF StageOf
      <4>2. Lifecycle!Move(head[r], "drafted", "sealed")  BY <2>1, <3>2, <3>3, <4>1, OneMoves
      <4>3. [c \in Releases |-> tag[c]]' = [c \in Releases |-> tag[c]]  BY <2>1
      <4> QED  BY <3>3, <4>2, <4>3 DEF Lifecycle!StartNext, Lifecycle!Seal
    <3>4. CASE head[r] \notin Releases
      BY <2>1, <3>2, <3>4, NothingMoves
    <3> QED  BY <3>3, <3>4
  <2>5. sealed' = sealed \/ (sealed' = sealed \cup {r} /\ r \notin sealed)  BY <2>2
  <2> QED  BY <2>3, <2>4, <2>5
<1> QED  BY <1>3, <1>4, <1>5, <1>6, <1>7, <1>8 DEF Step

\* A step of anybody is a lifecycle step of one version, or none.
LEMMA NextRefines ==
  ASSUME IInv, OwnerInv, [Next]_vars
  PROVE  [Lifecycle!StartNext]_(Lifecycle!vars)
<1>1. CASE UNCHANGED <<tag, seg, sealed>>
  BY <1>1, NothingMoves DEF StageOf
<1>2. ASSUME NEW r \in Runs, Rerun(r) \/ \E c \in Commits : Trigger(r, c)
      PROVE  UNCHANGED <<tag, seg, sealed>>
  BY <1>2 DEF Rerun, Trigger, provider
<1>3. CASE Others
  <2>1. UNCHANGED <<seg, sealed>>
    BY <1>3 DEF Others, Change, AdvanceMain, ChangeLocalFiles, ToggleArchive, Relabel, RerunCI,
                EditRuleset, ExpireReceipt, StrangerTag, StrangerDraft, EditDraft
  <2>2. tag' = tag \/ \E c \in Releases : StrangerTag(c)
    BY <1>3 DEF Others, AdvanceMain, ChangeLocalFiles, ToggleArchive, Relabel, RerunCI,
                EditRuleset, ExpireReceipt, StrangerDraft, EditDraft
  <2>3. ASSUME NEW c \in Releases, StrangerTag(c) PROVE Lifecycle!Tag(c, Stranger)
    <3>1. TypeOK /\ Stranger \notin Runs  BY RunAssumption DEF IInv
    <3> QED  BY <2>1, <2>3, <3>1, TagStep DEF StrangerTag
  <2> QED  BY <1>1, <2>1, <2>2, <2>3 DEF Lifecycle!StartNext
<1>4. CASE UNCHANGED vars
  BY <1>1, <1>4 DEF vars, provider, run
<1> QED  BY <1>1, <1>2, <1>3, <1>4, StepRefines DEF Next

\* The job, whatever others do to the provider, the clock and its disk, makes
\* only the steps that the abstract lifecycle of a candidate allows.
THEOREM StartRefinesLifecycle == Spec => ImplementsLifecycle
<1>1. Init => Lifecycle!StartInit
  <2> SUFFICES ASSUME Init PROVE Lifecycle!StartInit
    OBVIOUS
  <2>1. \A c \in Releases : tag[c] = None /\ StageOf(c) = "absent"
    BY CommitAssumption DEF Init, StageOf
  <2> QED  BY <2>1 DEF Lifecycle!StartInit, Lifecycle!Fresh
<1>2. IInv /\ OwnerInv /\ [Next]_vars => OwnerInv' /\ [Lifecycle!StartNext]_(Lifecycle!vars)
  BY NextOwnerInv, NextRefines
<1> QED  BY <1>1, <1>2, InitOwnerInv, Invariance, PTL DEF Spec, ImplementsLifecycle, Lifecycle!StartSpec
-----------------------------------------------------------------------------
(* The composition. *)

\* The theorems of DispatchClaim, of the dispatchers that serve a start.
Claims == INSTANCE DispatchClaim_proofs
            WITH Drift <- {}, startAttempt <- NewestAttempt,
                 tagged <- TagStands, exact <- DraftStands,
                 status <- dStatus, attempt <- dAttempt, seg <- dSeg, at <- dAt, spent <- dSpent

\* The dispatchers are awake only of a start that stays completed.
ServedInv == /\ served \in Runs \cup {None}
             /\ served # None => served \in sealed /\ status[served] = "succeeded"
             /\ served = None => claim = None /\ authorized = {}

WholeInv == /\ IInv /\ OwnerInv
            /\ Claims!IInv /\ Claims!ClaimStands /\ deleted = 0
            /\ ServedInv

\* What the dispatchers read of the candidate has its types.
Candidates == /\ NewestAttempt \in {1, 2} /\ active \in BOOLEAN
              /\ TagStands \in BOOLEAN /\ DraftStands \in BOOLEAN

LEMMA CandidateTypes == IInv /\ ServedInv => Candidates
  BY DEF IInv, TypeOK, ServedInv, Candidates, NewestAttempt, TagStands, DraftStands

\* The dispatchers' module is used within its assumptions.
LEMMA ClaimsAssumptions == Claims!ActorAssumption /\ Claims!ModeAssumption
  BY DispatchAssumption, RunAssumption, ModeAssumption
     DEF Claims!ActorAssumption, Claims!ModeAssumption, Claims!Actors, Claims!DriftKinds

\* Both parts start in their invariants.
LEMMA InitWholeInv == ReleaseInit => WholeInv
<1> SUFFICES ASSUME ReleaseInit PROVE WholeInv
  OBVIOUS
<1>1. IInv /\ OwnerInv
  BY InitIInv, InitOwnerInv DEF ReleaseInit
<1>2. Claims!Init
  BY DEF ReleaseInit, Dispatch!Init, Claims!Init, Claims!Actors, Dispatch!Actors
<1>3. Claims!IInv /\ Claims!ClaimStands
  BY <1>2, ClaimsAssumptions, Claims!InitIInv, Claims!InitClaimStands
     DEF Claims!ActorAssumption, Claims!ModeAssumption
<1>4. deleted = 0 /\ ServedInv
  BY <1>2 DEF ReleaseInit, Claims!Init, ServedInv
<1> QED BY <1>1, <1>3, <1>4 DEF WholeInv

\* A completed start stays where it is.
LEMMA ServedStays ==
  ASSUME IInv, [Next]_vars, NEW r \in sealed, status[r] = "succeeded"
  PROVE  r \in sealed' /\ status'[r] = "succeeded" /\ head'[r] = head[r]
<1>1. TypeOK /\ r \in Runs
  BY DEF IInv, TypeOK
<1>2. ASSUME NEW q \in Runs, Step(q) \/ Rerun(q) \/ \E c \in Commits : Trigger(q, c)
      PROVE  r # q
  BY <1>2 DEF Step, Pass, Decline, Stop, PostTagObject, PostTagRef, DraftRelease, UploadStart,
              Reading, AtWrite, Running, Rerun, Trigger
<1>3. CASE \E q \in Runs : Step(q) \/ Rerun(q) \/ \E c \in Commits : Trigger(q, c)
  BY <1>1, <1>2, <1>3, RunMonotone DEF Still
<1>4. CASE Others
  BY <1>1, <1>4, OthersMonotone DEF Still
<1>5. CASE UNCHANGED vars
  BY <1>5 DEF vars, run
<1> QED BY <1>3, <1>4, <1>5 DEF Next

\* Whatever a start run and the others do, the dispatchers keep what they have.
LEMMA StartKeeps ==
  ASSUME WholeInv, [Next]_vars, UNCHANGED dispatching PROVE WholeInv'
<1>1. IInv' /\ OwnerInv'
  BY NextIInv, NextOwnerInv DEF WholeInv
<1>2. ServedInv'
  BY ServedStays DEF WholeInv, ServedInv, dispatching
<1>3. Candidates'
  BY <1>1, <1>2, CandidateTypes, PTL
<1>4. Claims!IInv' /\ Claims!ClaimStands'
  BY <1>3, ClaimsAssumptions, Claims!CandidateFree DEF WholeInv, Candidates, dispatching,
       Claims!runs
<1> QED BY <1>1, <1>2, <1>4 DEF WholeInv, dispatching

\* The completion event changes only what the dispatchers serve.
LEMMA CompletionKeeps == ASSUME WholeInv, Completion PROVE WholeInv'
<1>1. IInv' /\ OwnerInv'
  BY NextIInv, NextOwnerInv DEF WholeInv, Completion
<1>2. ServedInv'
  BY DEF WholeInv, ServedInv, Completion, Completed, IInv, TypeOK, vars, run
<1>3. Candidates'
  BY <1>1, <1>2, CandidateTypes, PTL
<1>4. Claims!IInv' /\ Claims!ClaimStands'
  BY <1>3, ClaimsAssumptions, Claims!CandidateFree DEF WholeInv, Candidates, Completion, Claims!runs
<1> QED BY <1>1, <1>2, <1>4 DEF WholeInv, Completion

\* A step of the dispatchers or native runs, with the start as it was.
Served == /\ Awakened
          /\ \/ \E d \in Dispatchers : DispatcherStep(d)
             \/ \E n \in Natives : NativeStep(n)
             \/ Awake

\* The parts as both instances of DispatchClaim have them.
LEMMA SameReads ==
  /\ Dispatch!Entry = Claims!Entry
  /\ Dispatch!Program = Claims!Program
  /\ \A x : Dispatch!Reads(x) = Claims!Reads(x)
<1>1. Dispatch!Auth = Claims!Auth
  BY DEF Dispatch!Auth, Claims!Auth
<1>2. Dispatch!SelectStart = Claims!SelectStart
  BY <1>1 DEF Dispatch!SelectStart, Claims!SelectStart
<1>3. Dispatch!VerifyStart = Claims!VerifyStart
  BY DEF Dispatch!VerifyStart, Claims!VerifyStart
<1>4. Dispatch!BeforeClaim = Claims!BeforeClaim
  BY <1>1, <1>2, <1>3 DEF Dispatch!BeforeClaim, Claims!BeforeClaim
<1>5. Dispatch!AfterClaim = Claims!AfterClaim
  BY DEF Dispatch!AfterClaim, Claims!AfterClaim
<1>6. Dispatch!Program = Claims!Program
  BY <1>4, <1>5 DEF Dispatch!Program, Claims!Program
<1>7. /\ Dispatch!ClaimSignature = Claims!ClaimSignature
      /\ Dispatch!ClaimedStart = Claims!ClaimedStart
      /\ Dispatch!Identity = Claims!Identity
      /\ Dispatch!BindingSignature = Claims!BindingSignature
  BY DEF Dispatch!ClaimSignature, Claims!ClaimSignature, Dispatch!ClaimedStart,
         Claims!ClaimedStart, Dispatch!Identity, Claims!Identity, Dispatch!BindingSignature,
         Claims!BindingSignature
<1>8. Dispatch!Entry = Claims!Entry
  BY <1>7 DEF Dispatch!Entry, Claims!Entry
<1>9. ASSUME NEW x PROVE Dispatch!Reads(x) = Claims!Reads(x)
  BY <1>6, <1>8 DEF Dispatch!Reads, Claims!Reads
<1> QED BY <1>6, <1>8, <1>9

LEMMA SameGates ==
  ASSUME NEW x
  PROVE  /\ Dispatch!Reading(x) <=> Claims!Reading(x)
         /\ Dispatch!Running(x) <=> Claims!Running(x)
         /\ Dispatch!Holds(x, Dispatch!Gate(x)) <=> Claims!Holds(x, Claims!Gate(x))
         /\ \A k : Dispatch!AtWrite(x, k) <=> Claims!AtWrite(x, k)
<1>1. Dispatch!Running(x) <=> Claims!Running(x)
  BY DEF Dispatch!Running, Claims!Running
<1>2. Dispatch!Reading(x) <=> Claims!Reading(x)
  BY <1>1, SameReads DEF Dispatch!Reading, Claims!Reading
<1>3. Dispatch!Gate(x) = Claims!Gate(x)
  BY SameReads DEF Dispatch!Gate, Claims!Gate
<1>4. ASSUME NEW g PROVE Dispatch!Holds(x, g) <=> Claims!Holds(x, g)
  BY DEF Dispatch!Holds, Claims!Holds, Dispatch!Empty, Claims!Empty, Dispatch!Claimed,
         Claims!Claimed, Dispatch!Completed, Claims!Completed, Dispatch!BoundTo, Claims!BoundTo
<1>5. ASSUME NEW k PROVE Dispatch!AtWrite(x, k) <=> Claims!AtWrite(x, k)
  BY <1>1, SameReads DEF Dispatch!AtWrite, Claims!AtWrite
<1>6. Dispatch!Holds(x, Dispatch!Gate(x)) <=> Claims!Holds(x, Claims!Gate(x))
  BY <1>3, <1>4
<1> QED BY <1>1, <1>2, <1>5, <1>6

\* Such a step is one of DispatchClaim, with nobody to delete a claim.
LEMMA ServedStep == ASSUME Served PROVE Claims!Next /\ deleted' = deleted
<1> USE DEF Dispatch!candidate, Claims!candidate, Dispatch!End, Claims!End
<1>1. ASSUME NEW x \in Dispatchers \cup Natives, Dispatch!Pass(x) \/ Dispatch!Stop(x)
      PROVE  Claims!Next /\ deleted' = deleted
  <2>1. (Claims!Pass(x) \/ Claims!Stop(x)) /\ deleted' = deleted
    BY <1>1, SameGates DEF Dispatch!Pass, Dispatch!Stop, Claims!Pass, Claims!Stop
  <2> QED BY <2>1 DEF Claims!Next, Claims!Actors
<1>2. ASSUME NEW n \in Natives, Dispatch!Authorize(n)
      PROVE  Claims!Next /\ deleted' = deleted
  <2>1. Claims!Authorize(n) /\ deleted' = deleted
    BY <1>2, SameGates, SameReads DEF Dispatch!Authorize, Claims!Authorize
  <2> QED BY <2>1 DEF Claims!Next
<1>3. ASSUME NEW d \in Dispatchers, Dispatch!Dispatch(d)
      PROVE  Claims!Next /\ deleted' = deleted
  <2> USE DEF Dispatch!Confirmed, Claims!Confirmed, Dispatch!Unconfirmed, Claims!Unconfirmed,
              Dispatch!NameFree, Claims!NameFree
  <2>1. CASE Dispatch!UploadClaim(d) \/ Dispatch!UploadRefused(d)
    <3>1. (Claims!UploadClaim(d) \/ Claims!UploadRefused(d)) /\ deleted' = deleted
      BY <2>1, SameGates DEF Dispatch!UploadClaim, Dispatch!UploadRefused, Claims!UploadClaim,
                             Claims!UploadRefused
    <3> QED BY <3>1 DEF Claims!Next, Claims!Dispatch
  <2>2. CASE Dispatch!SignClaim(d) \/ Dispatch!SignBinding(d) \/ Dispatch!Complete(d)
    <3>1. /\ Claims!SignClaim(d) \/ Claims!SignBinding(d) \/ Claims!Complete(d)
          /\ deleted' = deleted
      BY <2>2, SameGates DEF Dispatch!SignClaim, Dispatch!SignBinding, Dispatch!Complete,
                             Claims!SignClaim, Claims!SignBinding, Claims!Complete
    <3> QED BY <3>1 DEF Claims!Next, Claims!Dispatch
  <2>3. CASE Dispatch!DispatchNative(d) \/ Dispatch!DispatchRefused(d)
    <3>1. (Claims!DispatchNative(d) \/ Claims!DispatchRefused(d)) /\ deleted' = deleted
      BY <2>3, SameGates DEF Dispatch!DispatchNative, Dispatch!DispatchRefused,
                             Claims!DispatchNative, Claims!DispatchRefused
    <3> QED BY <3>1 DEF Claims!Next, Claims!Dispatch
  <2> QED BY <1>3, <2>1, <2>2, <2>3 DEF Dispatch!Dispatch
<1>4. ASSUME NEW d \in Dispatchers, Dispatch!Wake(d) \/ \E n \in Natives : Dispatch!Enter(n, d)
      PROVE  Claims!Next /\ deleted' = deleted
  <2>1. /\ Claims!Wake(d) \/ \E n \in Natives : Claims!Enter(n, d)
        /\ deleted' = deleted
    BY <1>4 DEF Dispatch!Wake, Dispatch!Enter, Claims!Wake, Claims!Enter
  <2> QED BY <2>1 DEF Claims!Next
<1> QED BY <1>1, <1>2, <1>3, <1>4 DEF Served, DispatcherStep, NativeStep, Awake

\* Dispatchers and native runs leave what was there when they were awakened.
LEMMA ServedKeeps == ASSUME WholeInv, Served PROVE WholeInv'
<1>1. IInv' /\ OwnerInv'
  BY NextIInv, NextOwnerInv DEF WholeInv, Served, Awakened
<1>2. ServedInv'
  BY DEF WholeInv, ServedInv, Served, Awakened, vars, run
<1>3. Claims!IInv' /\ deleted' = deleted
  BY ServedStep, ClaimsAssumptions, Claims!NextIInv
     DEF WholeInv, Claims!ActorAssumption, Claims!ModeAssumption
<1>4. Claims!TypeOK'
  BY <1>3 DEF Claims!IInv
<1>5. Claims!ClaimStands'
  BY <1>4, ServedStep, ClaimsAssumptions, Claims!NextClaimStands
     DEF WholeInv, Claims!ActorAssumption, Claims!ModeAssumption
<1> QED BY <1>1, <1>2, <1>3, <1>5 DEF WholeInv

\* Every step of the composition keeps the invariant.
LEMMA NextWholeInv == ASSUME WholeInv, [ReleaseNext]_all PROVE WholeInv'
<1>1. CASE StartStep
  BY <1>1, StartKeeps DEF StartStep
<1>2. CASE UNCHANGED all
  BY <1>2, StartKeeps DEF all
<1>3. CASE Completion
  BY <1>3, CompletionKeeps
<1>4. CASE Awake \/ (\E d \in Dispatchers : DispatcherStep(d)) \/ \E n \in Natives : NativeStep(n)
  BY <1>4, ServedKeeps DEF Served, Awake, DispatcherStep, NativeStep
<1> QED BY <1>1, <1>2, <1>3, <1>4 DEF ReleaseNext
-----------------------------------------------------------------------------
(* Refinement of the whole lifecycle. *)

\* What a version comes to once its start is served.
Stage == Dispatch!StageOf
Claimant == IF Stage \in {"claimed", "consumed"} THEN claim ELSE None
Consumer == IF Stage = "consumed" THEN CHOOSE n \in authorized : TRUE ELSE None

Ours(c) == served # None /\ c = Version

\* The version served is sealed, and stays so.
LEMMA ServedSealed ==
  ASSUME WholeInv, served # None
  PROVE  Version \in Releases /\ StageOf(Version) = "sealed"
<1>1. served \in Runs /\ served \in sealed /\ TypeOK /\ RunInv(served)
  BY DEF WholeInv, ServedInv, IInv, TypeOK
<1>2. Version \in Releases /\ seg[served] = 4 /\ tag[Version] = served
  BY <1>1 DEF RunInv, Version, TypeOK
<1> QED BY <1>1, <1>2, RunAssumption DEF StageOf

ClaimantOf(c) == IF WholeStage(c) \in {"claimed", "consumed"} THEN claim ELSE None
ConsumerOf(c) == IF WholeStage(c) = "consumed" THEN CHOOSE n \in authorized : TRUE ELSE None

\* The abstract variables: those of the start, and for the version served those
\* of its dispatchers.
Stages == \A c \in Releases :
            /\ WholeStage(c) = IF Ours(c) THEN Stage ELSE StageOf(c)
            /\ ClaimantOf(c) = IF Ours(c) THEN Claimant ELSE None
            /\ ConsumerOf(c) = IF Ours(c) THEN Consumer ELSE None

LEMMA WholeStages == WholeInv => Stages
<1> SUFFICES ASSUME WholeInv, NEW c \in Releases
             PROVE  /\ WholeStage(c) = IF Ours(c) THEN Stage ELSE StageOf(c)
                    /\ ClaimantOf(c) = IF Ours(c) THEN Claimant ELSE None
                    /\ ConsumerOf(c) = IF Ours(c) THEN Consumer ELSE None
  BY DEF Stages
<1>1. WholeStage(c) = IF Ours(c) THEN Stage ELSE StageOf(c)
  BY ServedSealed DEF WholeStage, Ours, Stage
<1>2. StageOf(c) \notin {"claimed", "consumed"}
  BY DEF StageOf
<1> QED BY <1>1, <1>2 DEF Claimant, Consumer, ClaimantOf, ConsumerOf

\* No version moves, or one.
LEMMA NoneMoves ==
  ASSUME \A c \in Releases : /\ WholeStage(c)' = WholeStage(c) /\ tag'[c] = tag[c]
                             /\ ClaimantOf(c)' = ClaimantOf(c) /\ ConsumerOf(c)' = ConsumerOf(c)
  PROVE  UNCHANGED WholeLifecycle!vars
  BY DEF WholeLifecycle!vars, ClaimantOf, ConsumerOf

LEMMA WholeMove ==
  ASSUME NEW v \in Releases, NEW from, NEW to, WholeStage(v) = from, WholeStage(v)' = to,
         \A c \in Releases \ {v} : WholeStage(c)' = WholeStage(c)
  PROVE  WholeLifecycle!Move(v, from, to)
<1>1. [c \in Releases |-> WholeStage(c)]'
        = [[c \in Releases |-> WholeStage(c)] EXCEPT ![v] = to]
  OBVIOUS
<1> QED BY <1>1 DEF WholeLifecycle!Move

\* What a step of the start's lifecycle says of each version.
LEMMA StartMove ==
  ASSUME NEW v \in Releases, NEW from, NEW to, Lifecycle!Move(v, from, to)
  PROVE  /\ StageOf(v) = from /\ StageOf(v)' = to
         /\ \A c \in Releases \ {v} : StageOf(c)' = StageOf(c)
<1>1. [c \in Releases |-> StageOf(c)][v] = from
  BY DEF Lifecycle!Move
<1>2. [c \in Releases |-> StageOf(c)]' = [[c \in Releases |-> StageOf(c)] EXCEPT ![v] = to]
  BY DEF Lifecycle!Move
<1>3. \A c \in Releases :
        [d \in Releases |-> StageOf(d)]'[c] = IF c = v THEN to ELSE StageOf(c)
  BY <1>2
<1> QED BY <1>1, <1>3

\* The first steps: nobody is served, or another version than the one that moves.
LEMMA StartRefines ==
  ASSUME WholeInv, WholeInv', [Next]_vars, UNCHANGED dispatching
  PROVE  [WholeLifecycle!StartNext]_(WholeLifecycle!vars)
<1>1. [Lifecycle!StartNext]_(Lifecycle!vars)
  BY NextRefines DEF WholeInv
<1>2. \A c : Ours(c)' <=> Ours(c)
  BY ServedStays DEF WholeInv, ServedInv, Ours, Version, dispatching
<1>3. Stage' = Stage /\ Claimant' = Claimant /\ Consumer' = Consumer
  BY DEF dispatching, Stage, Claimant, Consumer, Dispatch!StageOf
<1>4. ASSUME NEW c \in Releases
      PROVE  /\ WholeStage(c)' = IF Ours(c) THEN Stage ELSE StageOf(c)'
             /\ ClaimantOf(c)' = ClaimantOf(c) /\ ConsumerOf(c)' = ConsumerOf(c)
  <2>1. (WholeInv => Stages)' /\ Stages
    BY WholeStages, PTL
  <2> QED BY <1>2, <1>3, <2>1 DEF Stages
<1>5. ASSUME NEW c \in Releases PROVE WholeStage(c) = IF Ours(c) THEN Stage ELSE StageOf(c)
  BY <1>5, WholeStages DEF Stages
<1>6. CASE UNCHANGED Lifecycle!vars
  <2>1. ASSUME NEW c \in Releases PROVE StageOf(c)' = StageOf(c) /\ tag'[c] = tag[c]
    <3>1. /\ [d \in Releases |-> StageOf(d)]' = [d \in Releases |-> StageOf(d)]
          /\ [d \in Releases |-> tag[d]]' = [d \in Releases |-> tag[d]]
      BY <1>6 DEF Lifecycle!vars
    <3>2. /\ [d \in Releases |-> StageOf(d)]'[c] = [d \in Releases |-> StageOf(d)][c]
          /\ [d \in Releases |-> tag[d]]'[c] = [d \in Releases |-> tag[d]][c]
      BY <3>1
    <3> QED BY <3>2
  <2> QED BY <1>4, <1>5, <2>1, NoneMoves
<1>7. ASSUME NEW v \in Releases, NEW from \in {"absent", "tagged", "drafted"}, NEW to,
             Lifecycle!Move(v, from, to)
      PROVE  WholeLifecycle!Move(v, from, to)
  <2>1. /\ StageOf(v) = from /\ StageOf(v)' = to
        /\ \A c \in Releases \ {v} : StageOf(c)' = StageOf(c)
    BY <1>7, StartMove
  <2>2. ~Ours(v)
    BY <2>1, ServedSealed DEF Ours
  <2> QED BY <1>4, <1>5, <2>1, <2>2, WholeMove
<1>8. /\ [c \in Releases |-> ClaimantOf(c)]' = [c \in Releases |-> ClaimantOf(c)]
      /\ [c \in Releases |-> ConsumerOf(c)]' = [c \in Releases |-> ConsumerOf(c)]
  BY <1>4
<1>9. ASSUME NEW v \in Releases, NEW o \in Runs \cup {Stranger}, Lifecycle!Tag(v, o)
      PROVE  WholeLifecycle!Tag(v, o)
  BY <1>7, <1>8, <1>9 DEF Lifecycle!Tag, WholeLifecycle!Tag, ClaimantOf, ConsumerOf
<1>10. ASSUME NEW v \in Releases, Lifecycle!Draft(v) PROVE WholeLifecycle!Draft(v)
  BY <1>7, <1>8, <1>10 DEF Lifecycle!Draft, WholeLifecycle!Draft, ClaimantOf, ConsumerOf
<1>11. ASSUME NEW v \in Releases, Lifecycle!Seal(v) PROVE WholeLifecycle!Seal(v)
  BY <1>7, <1>8, <1>11 DEF Lifecycle!Seal, WholeLifecycle!Seal, ClaimantOf, ConsumerOf
<1> QED BY <1>1, <1>6, <1>9, <1>10, <1>11 DEF Lifecycle!StartNext, WholeLifecycle!StartNext

\* What a step of the dispatchers' lifecycle says of the version served.
LEMMA ClaimMove ==
  ASSUME NEW from, NEW to, Claims!Lifecycle!Move("v", from, to)
  PROVE  Claims!StageOf = from /\ Claims!StageOf' = to
<1>1. [v \in {"v"} |-> Claims!StageOf]["v"] = from
  BY DEF Claims!Lifecycle!Move
<1>2. [v \in {"v"} |-> Claims!StageOf]' = [[v \in {"v"} |-> Claims!StageOf] EXCEPT !["v"] = to]
  BY DEF Claims!Lifecycle!Move
<1>3. [v \in {"v"} |-> Claims!StageOf]'["v"] = to
  BY <1>2
<1> QED BY <1>1, <1>3

\* The completion event moves nothing: the start left its version sealed, and
\* nobody has claimed it.
LEMMA CompletionRefines ==
  ASSUME WholeInv, WholeInv', Completion PROVE UNCHANGED WholeLifecycle!vars
<1>1. Stages /\ Stages'
  BY WholeStages, PTL
<1>2. Stage = "sealed" /\ Stage' = "sealed"
  BY DispatchAssumption DEF WholeInv, ServedInv, Completion, Stage, Dispatch!StageOf
<1>3. Claimant = None /\ Claimant' = None /\ Consumer = None /\ Consumer' = None
  BY <1>2 DEF Claimant, Consumer
<1>4. \A c \in Releases : StageOf(c)' = StageOf(c) /\ tag'[c] = tag[c]
  BY DEF Completion, vars, provider, run, StageOf
<1>5. \A c : ~Ours(c)
  BY DEF Ours, Completion
<1>6. \A c \in Releases : Ours(c)' => StageOf(c)' = "sealed"
  <2>1. (WholeInv /\ served # None => StageOf(Version) = "sealed")'
    BY ServedSealed, PTL
  <2> QED BY <2>1 DEF Ours
<1> QED BY <1>1, <1>2, <1>3, <1>4, <1>5, <1>6, NoneMoves DEF Stages

\* Claimant and consumer as the dispatchers' lifecycle has them: a version is
\* consumed only by a claim that stands.
Carried == /\ Stage = Claims!StageOf
           /\ Claimant = IF claim \in Dispatchers THEN claim ELSE None
           /\ Consumer = IF authorized = {} THEN None ELSE CHOOSE n \in authorized : TRUE

LEMMA WholeCarried == WholeInv => Carried
<1> SUFFICES ASSUME WholeInv PROVE Carried
  OBVIOUS
<1>1. Stage = Claims!StageOf
  BY DEF Stage, Dispatch!StageOf, Claims!StageOf
<1>2. authorized # {} => claim \in Dispatchers
  <2>1. authorized \subseteq Claims!Used
    BY ClaimsAssumptions, Claims!AuthorizedUsed
       DEF WholeInv, Claims!ActorAssumption, Claims!ModeAssumption
  <2> QED BY <2>1 DEF WholeInv, Claims!ClaimStands, Claims!Owed
<1>3. Stage \in {"claimed", "consumed"} <=> claim \in Dispatchers
  BY <1>1, <1>2 DEF Claims!StageOf
<1>4. Stage = "consumed" <=> authorized # {}
  BY <1>1 DEF Claims!StageOf
<1> QED BY <1>1, <1>3, <1>4 DEF Carried, Claimant, Consumer

\* The last steps: the version served is claimed or consumed.
LEMMA ServedRefines ==
  ASSUME WholeInv, WholeInv', Served
  PROVE  [WholeLifecycle!DispatchNext]_(WholeLifecycle!vars)
<1>1. Stages /\ Stages'
  BY WholeStages, PTL
<1>2. \A c \in Releases : /\ StageOf(c)' = StageOf(c) /\ tag'[c] = tag[c]
                          /\ Ours(c)' <=> Ours(c)
  BY DEF Served, Awakened, vars, provider, run, StageOf, Ours, Version
<1>3. Version \in Releases /\ Ours(Version) /\ \A c \in Releases \ {Version} : ~Ours(c)
  BY ServedSealed DEF Served, Awakened, Ours
<1>4. [Claims!Lifecycle!DispatchNext]_(Claims!Lifecycle!vars)
  BY ServedStep, ClaimsAssumptions, Claims!NextRefines
     DEF WholeInv, Claims!ActorAssumption, Claims!ModeAssumption
<1>5. Carried /\ Carried'
  BY WholeCarried, PTL
<1> PICK v : v = Version
  OBVIOUS
<1>6. v \in Releases /\ Ours(v) /\ \A c \in Releases \ {v} : ~Ours(c)
  BY <1>3
<1>7. ASSUME NEW c \in Releases
      PROVE  /\ WholeStage(c) = IF c = v THEN Stage ELSE StageOf(c)
             /\ WholeStage(c)' = IF c = v THEN Stage' ELSE StageOf(c)
             /\ ClaimantOf(c) = IF c = v THEN Claimant ELSE None
             /\ ClaimantOf(c)' = IF c = v THEN Claimant' ELSE None
             /\ ConsumerOf(c) = IF c = v THEN Consumer ELSE None
             /\ ConsumerOf(c)' = IF c = v THEN Consumer' ELSE None
  BY <1>1, <1>2, <1>6 DEF Stages
<1>8. CASE UNCHANGED Claims!Lifecycle!vars
  <2>1. /\ [w \in {"v"} |-> Stage]' = [w \in {"v"} |-> Stage]
        /\ [w \in {"v"} |-> Claimant]' = [w \in {"v"} |-> Claimant]
        /\ [w \in {"v"} |-> Consumer]' = [w \in {"v"} |-> Consumer]
    BY <1>5, <1>8 DEF Carried, Claims!Lifecycle!vars
  <2>2. /\ [w \in {"v"} |-> Stage]'["v"] = [w \in {"v"} |-> Stage]["v"]
        /\ [w \in {"v"} |-> Claimant]'["v"] = [w \in {"v"} |-> Claimant]["v"]
        /\ [w \in {"v"} |-> Consumer]'["v"] = [w \in {"v"} |-> Consumer]["v"]
    BY <2>1
  <2>3. Stage' = Stage /\ Claimant' = Claimant /\ Consumer' = Consumer
    BY <2>2
  <2> QED BY <1>2, <1>7, <2>3, NoneMoves
<1>9. ASSUME NEW from, NEW to, Claims!Lifecycle!Move("v", from, to)
      PROVE  WholeLifecycle!Move(v, from, to)
  <2>1. Stage = from /\ Stage' = to
    BY <1>5, <1>9, ClaimMove DEF Carried
  <2>2. \A c \in Releases \ {v} : WholeStage(c)' = WholeStage(c)
    BY <1>7
  <2> QED BY <1>6, <1>7, <2>1, <2>2, WholeMove
<1>10. [c \in Releases |-> tag[c]]' = [c \in Releases |-> tag[c]]
  BY <1>2
<1>11. ASSUME NEW d \in Dispatchers, Claims!Lifecycle!Claim("v", d)
       PROVE  WholeLifecycle!Claim(v, d)
  <2>1. Claimant' = d /\ Consumer' = Consumer
    <3>1. /\ [w \in {"v"} |-> Claimant]' = [[w \in {"v"} |-> Claimant] EXCEPT !["v"] = d]
          /\ [w \in {"v"} |-> Consumer]' = [w \in {"v"} |-> Consumer]
      BY <1>5, <1>11 DEF Carried, Claims!Lifecycle!Claim
    <3>2. /\ [w \in {"v"} |-> Claimant]'["v"] = d
          /\ [w \in {"v"} |-> Consumer]'["v"] = [w \in {"v"} |-> Consumer]["v"]
      BY <3>1
    <3> QED BY <3>2
  <2>2. [c \in Releases |-> ClaimantOf(c)]'
          = [[c \in Releases |-> ClaimantOf(c)] EXCEPT ![v] = d]
    BY <1>6, <1>7, <2>1
  <2>3. [c \in Releases |-> ConsumerOf(c)]' = [c \in Releases |-> ConsumerOf(c)]
    BY <1>7, <2>1
  <2>4. WholeLifecycle!Move(v, "sealed", "claimed")
    BY <1>9, <1>11 DEF Claims!Lifecycle!Claim
  <2> QED BY <1>10, <2>2, <2>3, <2>4 DEF WholeLifecycle!Claim, ClaimantOf, ConsumerOf
<1>12. ASSUME NEW n \in Natives, Claims!Lifecycle!Consume("v", n)
       PROVE  WholeLifecycle!Consume(v, n)
  <2>1. Consumer' = n /\ Claimant' = Claimant
    <3>1. /\ [w \in {"v"} |-> Consumer]' = [[w \in {"v"} |-> Consumer] EXCEPT !["v"] = n]
          /\ [w \in {"v"} |-> Claimant]' = [w \in {"v"} |-> Claimant]
      BY <1>5, <1>12 DEF Carried, Claims!Lifecycle!Consume
    <3>2. /\ [w \in {"v"} |-> Consumer]'["v"] = n
          /\ [w \in {"v"} |-> Claimant]'["v"] = [w \in {"v"} |-> Claimant]["v"]
      BY <3>1
    <3> QED BY <3>2
  <2>2. [c \in Releases |-> ConsumerOf(c)]'
          = [[c \in Releases |-> ConsumerOf(c)] EXCEPT ![v] = n]
    BY <1>6, <1>7, <2>1
  <2>3. [c \in Releases |-> ClaimantOf(c)]' = [c \in Releases |-> ClaimantOf(c)]
    BY <1>7, <2>1
  <2>4. WholeLifecycle!Move(v, "claimed", "consumed")
    BY <1>9, <1>12 DEF Claims!Lifecycle!Consume
  <2> QED BY <1>10, <2>2, <2>3, <2>4 DEF WholeLifecycle!Consume, ClaimantOf, ConsumerOf
<1> QED BY <1>4, <1>6, <1>8, <1>11, <1>12
        DEF Claims!Lifecycle!DispatchNext, WholeLifecycle!DispatchNext

\* The composition stays in its invariant.
LEMMA WholeInvariance == ReleaseSpec => []WholeInv
<1>1. WholeInv /\ [ReleaseNext]_all => WholeInv'
  BY NextWholeInv
<1>2. ReleaseSpec => ReleaseInit /\ [][ReleaseNext]_all
  BY PTL DEF ReleaseSpec
<1> QED BY <1>1, <1>2, InitWholeInv, PTL

\* The composition takes a version through the whole lifecycle of a candidate and
\* through nothing else: for any number of starts, versions, dispatchers and
\* native runs, and whatever others change until a start is completed and after.
THEOREM WholeRefinesLifecycle == ReleaseSpec => ImplementsWholeLifecycle
<1>1. ReleaseInit => WholeLifecycle!StartInit
  <2> SUFFICES ASSUME ReleaseInit PROVE WholeLifecycle!StartInit
    OBVIOUS
  <2>1. Init /\ served = None
    BY DEF ReleaseInit
  <2>2. \A c \in Releases : tag[c] = None /\ WholeStage(c) = "absent"
    BY <2>1, CommitAssumption DEF Init, WholeStage, StageOf
  <2> QED BY <2>2 DEF WholeLifecycle!StartInit, WholeLifecycle!Fresh
<1>2. WholeInv /\ WholeInv' /\ [ReleaseNext]_all =>
        [WholeLifecycle!StartNext \/ WholeLifecycle!DispatchNext]_(WholeLifecycle!vars)
  <2> SUFFICES ASSUME WholeInv, WholeInv', [ReleaseNext]_all
               PROVE  [WholeLifecycle!StartNext
                         \/ WholeLifecycle!DispatchNext]_(WholeLifecycle!vars)
    OBVIOUS
  <2>1. CASE StartStep
    BY <2>1, StartRefines DEF StartStep
  <2>2. CASE UNCHANGED all
    BY <2>2, StartRefines DEF all
  <2>3. CASE Completion
    BY <2>3, CompletionRefines
  <2>4. CASE Awake \/ (\E d \in Dispatchers : DispatcherStep(d)) \/ \E n \in Natives : NativeStep(n)
    BY <2>4, ServedRefines DEF Served, Awake, DispatcherStep, NativeStep
  <2> QED BY <2>1, <2>2, <2>3, <2>4 DEF ReleaseNext
<1>3. ReleaseSpec => ReleaseInit /\ [][ReleaseNext]_all
  BY PTL DEF ReleaseSpec
<1> QED BY <1>1, <1>2, <1>3, WholeInvariance, PTL
        DEF ImplementsWholeLifecycle, WholeLifecycle!Spec

\* Whoever consumes it: at most one native run is ever admitted, and only for a
\* retained start that owns its tag and whose version Release Please reported to it.
ConsumedOwnCandidate ==
  \A n \in authorized :
    /\ served \in sealed /\ Version \in Releases
    /\ tag[Version] = served /\ rp[served] = Version
    /\ \A m \in authorized : m = n

\* From end to end: what a native run was admitted for is the one start that owns
\* the version, however many starts, dispatchers and native runs raced for it.
THEOREM ConsumerOfOwnCandidate == ReleaseSpec => []ConsumedOwnCandidate
<1>1. WholeInv => ConsumedOwnCandidate
  <2> SUFFICES ASSUME WholeInv, NEW n \in authorized
               PROVE  /\ served \in sealed /\ Version \in Releases
                      /\ tag[Version] = served /\ rp[served] = Version
                      /\ \A m \in authorized : m = n
    BY DEF ConsumedOwnCandidate
  <2>1. served # None /\ served \in sealed
    BY DEF WholeInv, ServedInv
  <2>2. served \in Runs /\ RunInv(served) /\ TypeOK
    BY <2>1 DEF WholeInv, IInv, TypeOK
  <2>3. Version \in Releases /\ tag[Version] = served /\ rp[served] = Version
    BY <2>1, <2>2 DEF RunInv, Version, TypeOK
  <2>4. authorized \subseteq Claims!Owed
    BY ClaimsAssumptions, Claims!AuthorizedUsed
       DEF WholeInv, Claims!Owed, Claims!ActorAssumption, Claims!ModeAssumption
  <2>5. \A a, b \in Claims!Owed : a = b
    BY ClaimsAssumptions, Claims!AtMostOne
       DEF WholeInv, Claims!ActorAssumption, Claims!ModeAssumption
  <2> QED BY <2>1, <2>3, <2>4, <2>5
<1> QED BY <1>1, WholeInvariance, PTL
=============================================================================
