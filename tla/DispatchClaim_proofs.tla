------------------------- MODULE DispatchClaim_proofs -------------------------
(***************************************************************************)
(* Theorems of DispatchClaim for any number of dispatchers, native runs    *)
(* and changes by others.  Every promise is counted against the claims     *)
(* that were made: so is the refinement of CandidateLifecycle.             *)
(***************************************************************************)
EXTENDS DispatchClaim, TLAPS, FiniteSetTheorems

(* Which reads occur where. *)

Gates == {"active", "self", "start", "empty", "claim", "sole", "tag", "owner", "signature",
          "claimed", "binding"}

\* Every gate the programs name is one of Gates.
LEMMA GateNames ==
  /\ "active" \in Gates /\ "self" \in Gates /\ "start" \in Gates /\ "empty" \in Gates
  /\ "claim" \in Gates /\ "sole" \in Gates /\ "tag" \in Gates /\ "owner" \in Gates
  /\ "signature" \in Gates /\ "claimed" \in Gates /\ "binding" \in Gates
  BY DEF Gates

Occurs(g, s) == \E i \in 1 .. Len(s) : s[i] = g

\* What occurs in either part occurs in the concatenation.
LEMMA Concat ==
  ASSUME NEW s \in Seq(Gates), NEW t \in Seq(Gates), NEW g
  PROVE  /\ s \o t \in Seq(Gates)
         /\ Occurs(g, s) \/ Occurs(g, t) => Occurs(g, s \o t)
<1>1. s \o t \in Seq(Gates) /\ Len(s \o t) = Len(s) + Len(t)
  OBVIOUS
<1>2. ASSUME NEW i \in 1 .. Len(s), s[i] = g PROVE Occurs(g, s \o t)
  <2>1. i \in 1 .. Len(s \o t) /\ (s \o t)[i] = g
    BY <1>1, <1>2
  <2> QED BY <2>1 DEF Occurs
<1>3. ASSUME NEW i \in 1 .. Len(t), t[i] = g PROVE Occurs(g, s \o t)
  <2>1. Len(s) + i \in 1 .. Len(s \o t) /\ (s \o t)[Len(s) + i] = g
    BY <1>1, <1>3
  <2> QED BY <2>1 DEF Occurs
<1> QED BY <1>1, <1>2, <1>3 DEF Occurs

\* A long enough prefix decides the second element.
LEMMA ConcatSecond ==
  ASSUME NEW s \in Seq(Gates), NEW t \in Seq(Gates), Len(s) >= 2
  PROVE  s \o t \in Seq(Gates) /\ Len(s \o t) >= 2 /\ (s \o t)[2] = s[2]
  OBVIOUS

\* A rerun dispatcher meets the read of its own attempt before any write.
LEMMA SelfFirst == Program[1][2] = "self" /\ Len(Program[1]) >= 2
<1>1. Auth \in Seq(Gates) /\ Len(Auth) = 5 /\ Auth[2] = "self"
  BY GateNames DEF Auth
<1>2. VerifyStart \in Seq(Gates)
  BY GateNames DEF VerifyStart
<1>3. <<"empty">> \in Seq(Gates)
  BY GateNames
<1> DEFINE b1 == Auth \o Auth
           b2 == b1 \o Auth
           b3 == b2 \o VerifyStart
           b4 == b3 \o Auth
           b5 == b4 \o VerifyStart
<1>4. b1 \in Seq(Gates) /\ b1[2] = "self" /\ Len(b1) >= 2
  <2>1. Len(Auth) >= 2
    BY <1>1
  <2>2. /\ Auth \o Auth \in Seq(Gates) /\ Len(Auth \o Auth) >= 2
        /\ (Auth \o Auth)[2] = Auth[2]
    BY <1>1, <2>1, ConcatSecond
  <2> QED BY <1>1, <2>2
<1> HIDE DEF b1
<1>5. b2 \in Seq(Gates) /\ b2[2] = "self" /\ Len(b2) >= 2
  BY <1>1, <1>4, ConcatSecond
<1> HIDE DEF b2
<1>6. b3 \in Seq(Gates) /\ b3[2] = "self" /\ Len(b3) >= 2
  BY <1>2, <1>5, ConcatSecond
<1> HIDE DEF b3
<1>7. b4 \in Seq(Gates) /\ b4[2] = "self" /\ Len(b4) >= 2
  BY <1>1, <1>6, ConcatSecond
<1> HIDE DEF b4
<1>8. b5 \in Seq(Gates) /\ b5[2] = "self" /\ Len(b5) >= 2
  BY <1>2, <1>7, ConcatSecond
<1> HIDE DEF b5
<1>9. (b5 \o <<"empty">>)[2] = "self" /\ Len(b5 \o <<"empty">>) >= 2
  BY <1>3, <1>8, ConcatSecond
<1>10. Program[1] = b5 \o <<"empty">>
  BY DEF Program, BeforeClaim, SelectStart, b1, b2, b3, b4, b5
<1> QED BY <1>9, <1>10

\* The native entry reads the dispatcher's completion and the binding.
LEMMA EntryReads == Occurs("owner", Entry) /\ Occurs("binding", Entry)
<1>1. /\ ClaimSignature \in Seq(Gates) /\ ClaimedStart \in Seq(Gates)
      /\ Identity \in Seq(Gates) /\ BindingSignature \in Seq(Gates)
      /\ BindingSignature[1] = "binding" /\ BindingSignature[2] = "owner"
      /\ Len(BindingSignature) = 4
  BY GateNames DEF ClaimSignature, ClaimedStart, Identity, BindingSignature
<1>2. Occurs("owner", BindingSignature) /\ Occurs("binding", BindingSignature)
  BY <1>1 DEF Occurs
<1> DEFINE e1 == ClaimSignature \o ClaimedStart
           e2 == e1 \o ClaimSignature
           e3 == e2 \o Identity
<1>3. e1 \in Seq(Gates)
  BY <1>1, Concat
<1> HIDE DEF e1
<1>4. e2 \in Seq(Gates)
  BY <1>1, <1>3, Concat
<1> HIDE DEF e2
<1>5. e3 \in Seq(Gates)
  BY <1>1, <1>4, Concat
<1> HIDE DEF e3
<1>6. Occurs("owner", e3 \o BindingSignature) /\ Occurs("binding", e3 \o BindingSignature)
  BY <1>1, <1>2, <1>5, Concat
<1>7. Entry = e3 \o BindingSignature
  BY DEF Entry, e1, e2, e3
<1> QED BY <1>6, <1>7
-----------------------------------------------------------------------------
(* The inductive invariant. *)

Passed(n, g) == \E i \in 1 .. at[n] - 1 : Entry[i] = g

\* attempt 1 succeeded once, whether or not the run was rerun since
Finished(d) == Completed(d) \/ attempt[d] = 2

\* A dispatcher may bind one run, which it dispatched, and only in attempt 1.
DispatcherInv(d) ==
  /\ attempt[d] = 2 => seg[d] = 1 /\ at[d] <= 2
  /\ attempt[d] = 1 /\ seg[d] <= 3 => bound[d] = None
  /\ seg[d] >= 3 => d \in signedClaims
  /\ seg[d] >= 4 => bound[d] \in Natives
  /\ bound[d] \in Natives => origin[bound[d]] = d

BindingInv == \A d \in Dispatchers, n \in Natives :
                <<d, n>> \in bindings => bound[d] = n /\ d \in signedClaims

NativeInv(n) ==
  /\ status[n] = "idle" => at[n] = 1
  /\ status[n] # "idle" => selected[n] \in Dispatchers
  /\ Passed(n, "binding") => BoundTo(selected[n], n)
  /\ Passed(n, "owner") => Finished(selected[n])
  /\ n \in authorized => \E d \in Dispatchers : BoundTo(d, n) /\ Finished(d)

\* A dispatcher whose claim is confirmed and not yet used, or the native run
\* it was used for: one for each claim the draft has ever carried.
Live(d) == Running(d) /\ seg[d] \in {2, 3}
Used == {n \in Natives : origin[n] \in Dispatchers}
Owed == Used \cup {d \in Dispatchers : Live(d)}

OwedInv == /\ IsFiniteSet(Owed)
           /\ Cardinality(Owed) <= deleted + (IF claim = None THEN 0 ELSE 1)

IdleInv == \A d \in Dispatchers : status[d] = "idle" => seg[d] = 1

IInv == /\ TypeOK
        /\ IdleInv
        /\ \A d \in Dispatchers : DispatcherInv(d)
        /\ BindingInv
        /\ \A n \in Natives : NativeInv(n)
        /\ OwedInv

\* The sealed start with no dispatcher awake satisfies the invariant.
LEMMA InitIInv == Init => IInv
<1> SUFFICES ASSUME Init PROVE IInv
  OBVIOUS
<1> USE ActorAssumption DEF Init, Actors
<1>1. TypeOK
  BY DEF TypeOK
<1>2. IdleInv /\ \A d \in Dispatchers : DispatcherInv(d)
  BY DEF DispatcherInv, IdleInv
<1>3. BindingInv /\ \A n \in Natives : NativeInv(n)
  BY DEF BindingInv, NativeInv, Passed
<1>4. Owed = {}
  BY DEF Owed, Used, Live, Running
<1>5. OwedInv
  BY <1>4, FS_EmptySet DEF OwedInv
<1> QED BY <1>1, <1>2, <1>3, <1>5 DEF IInv

\* A dispatcher at a write is in its first attempt.
LEMMA AtWriteFirst ==
  ASSUME IInv, NEW d \in Dispatchers, NEW k \in 1 .. 5, AtWrite(d, k)
  PROVE  attempt[d] = 1 /\ attempt[d] # 2 /\ seg[d] = k /\ Running(d)
  BY SelfFirst, ActorAssumption DEF IInv, TypeOK, DispatcherInv, AtWrite, Actors

Statuses == {"idle", "running", "failed", "succeeded"}

\* A binding is signed only for a run the dispatcher's response named.
LEMMA NextTypeOK == ASSUME IInv, [Next]_vars PROVE TypeOK'
<1> USE DEF candidate, runs, End, Statuses
<1>1. TypeOK /\ Dispatchers \subseteq Actors /\ Natives \subseteq Actors
  BY DEF IInv, Actors
<1>2. ASSUME NEW x \in Actors, Pass(x) \/ Stop(x) PROVE TypeOK'
  <2>1. status' \in [Actors -> Statuses] /\ at' \in [Actors -> Nat \ {0}]
    BY <1>1, <1>2 DEF Pass, Stop, TypeOK
  <2> QED BY <1>1, <1>2, <2>1 DEF Pass, Stop, TypeOK
<1>3. ASSUME NEW d \in Dispatchers, Wake(d) PROVE TypeOK'
  BY <1>1, <1>3 DEF Wake, TypeOK
<1>4. ASSUME NEW d \in Dispatchers, Dispatch(d) PROVE TypeOK'
  <2>1. ASSUME NEW k \in 1 .. 4, AtWrite(d, k), Confirmed(d) \/ Unconfirmed(d)
        PROVE  /\ status' \in [Actors -> Statuses]
               /\ seg' \in [Actors -> 1 .. 5] /\ at' \in [Actors -> Nat \ {0}]
    <3>1. seg[d] + 1 \in 1 .. 5
      BY <2>1 DEF AtWrite
    <3> QED BY <1>1, <2>1, <3>1 DEF Confirmed, Unconfirmed, TypeOK
  <2>2. CASE UploadClaim(d)
    BY <1>1, <2>1, <2>2 DEF UploadClaim, TypeOK
  <2>3. CASE SignClaim(d)
    BY <1>1, <2>1, <2>3 DEF SignClaim, TypeOK
  <2>4. CASE DispatchNative(d)
    <3>1. origin' \in [Natives -> Dispatchers \cup {Stranger, None}]
      BY <1>1, <2>4 DEF DispatchNative, TypeOK
    <3>2. bound' \in [Dispatchers -> Natives \cup {None}]
      BY <1>1, <2>4 DEF DispatchNative, TypeOK
    <3> QED BY <1>1, <2>1, <2>4, <3>1, <3>2 DEF DispatchNative, TypeOK
  <2>5. CASE SignBinding(d)
    <3>1. bound[d] \in Natives
      BY <2>5 DEF SignBinding, AtWrite, IInv, DispatcherInv
    <3> QED BY <1>1, <2>1, <2>5, <3>1 DEF SignBinding, TypeOK
  <2>6. CASE UploadRefused(d) \/ DispatchRefused(d) \/ Complete(d)
    <3>1. status' \in [Actors -> Statuses]
      BY <1>1, <2>6 DEF UploadRefused, DispatchRefused, Complete, TypeOK
    <3> QED BY <1>1, <2>6, <3>1 DEF UploadRefused, DispatchRefused, Complete, TypeOK
  <2> QED BY <1>4, <2>2, <2>3, <2>4, <2>5, <2>6 DEF Dispatch
<1>5. ASSUME NEW n \in Natives, Authorize(n) PROVE TypeOK'
  BY <1>1, <1>5 DEF Authorize, TypeOK
<1>6. ASSUME NEW n \in Natives, NEW d \in Dispatchers, Enter(n, d) PROVE TypeOK'
  BY <1>1, <1>6 DEF Enter, TypeOK
<1>7. ASSUME Others PROVE TypeOK'
  <2> USE DEF Change, TypeOK
  <2>1. CASE RerunStart \/ ToggleArchive \/ MoveTag \/ EditDraft
    <3>1. /\ active' \in BOOLEAN /\ tagged' \in BOOLEAN /\ exact' \in BOOLEAN
          /\ startAttempt' \in {1, 2}
      BY <1>1, <2>1 DEF RerunStart, ToggleArchive, MoveTag, EditDraft
    <3> QED BY <1>1, <2>1, <3>1 DEF RerunStart, ToggleArchive, MoveTag, EditDraft
  <2>2. CASE StrangerAsset \/ DeleteClaim
    BY <1>1, <2>2 DEF StrangerAsset, DeleteClaim
  <2>3. ASSUME NEW x \in Actors, Rerun(x) PROVE TypeOK'
    BY <1>1, <2>3 DEF Rerun
  <2>4. ASSUME NEW n \in Natives, StrangerDispatch(n) PROVE TypeOK'
    BY <1>1, <2>4 DEF StrangerDispatch
  <2> QED BY <1>7, <2>1, <2>2, <2>3, <2>4 DEF Others
<1>8. CASE UNCHANGED vars
  BY <1>1, <1>8 DEF vars, TypeOK
<1> QED BY <1>2, <1>3, <1>4, <1>5, <1>6, <1>7, <1>8 DEF Next

Still(x) == /\ status'[x] = status[x] /\ attempt'[x] = attempt[x]
            /\ seg'[x] = seg[x] /\ at'[x] = at[x]

\* What nobody takes back, and whom a step moves.
LEMMA Frame ==
  ASSUME IInv, [Next]_vars
  PROVE  /\ signedClaims \subseteq signedClaims' /\ bindings \subseteq bindings'
         /\ \A n \in Natives : origin[n] # None => origin'[n] = origin[n]
         /\ \A d \in Dispatchers : \/ bound'[d] = bound[d]
                                   \/ DispatchNative(d)
         /\ \A d \in Dispatchers :
              \/ Still(d)
              \/ Pass(d) \/ Stop(d) \/ Wake(d) \/ Dispatch(d) \/ Rerun(d)
         /\ \A n \in Natives :
              \/ Still(n) /\ selected'[n] = selected[n] /\ (n \in authorized' <=> n \in authorized)
              \/ Pass(n) \/ Stop(n) \/ Authorize(n) \/ Rerun(n)
              \/ \E d \in Dispatchers : Enter(n, d)
<1> USE DEF candidate, runs, End, Still
<1>1. /\ TypeOK /\ Dispatchers \subseteq Actors /\ Natives \subseteq Actors
      /\ Dispatchers \cap Natives = {}
  BY ActorAssumption DEF IInv, Actors
<1> USE <1>1 DEF TypeOK
<1> DEFINE Goal ==
      /\ signedClaims \subseteq signedClaims' /\ bindings \subseteq bindings'
      /\ \A n \in Natives : origin[n] # None => origin'[n] = origin[n]
      /\ \A d \in Dispatchers : bound'[d] = bound[d] \/ DispatchNative(d)
<1> DEFINE Moved(x) == \A y \in Actors \ {x} : Still(y)
<1>2. ASSUME NEW x \in Actors, Pass(x) \/ Stop(x)
      PROVE  Goal /\ Moved(x) /\ UNCHANGED <<selected, authorized>>
  BY <1>2 DEF Pass, Stop
<1>3. ASSUME NEW d \in Dispatchers, Wake(d)
      PROVE  Goal /\ Moved(d) /\ UNCHANGED <<selected, authorized>>
  BY <1>3 DEF Wake
<1>4. ASSUME NEW d \in Dispatchers, Dispatch(d)
      PROVE  Goal /\ Moved(d) /\ UNCHANGED <<selected, authorized>>
  <2>1. CASE UploadClaim(d) \/ UploadRefused(d) \/ SignClaim(d) \/ DispatchRefused(d)
             \/ SignBinding(d) \/ Complete(d)
    BY <2>1 DEF UploadClaim, UploadRefused, SignClaim, DispatchRefused, SignBinding, Complete,
                Confirmed, Unconfirmed
  <2>2. CASE DispatchNative(d)
    <3>1. Moved(d) /\ UNCHANGED <<selected, authorized, signedClaims, bindings>>
      BY <2>2 DEF DispatchNative, Confirmed, Unconfirmed
    <3>2. \A n \in Natives : origin[n] # None => origin'[n] = origin[n]
      BY <2>2 DEF DispatchNative
    <3>3. \A e \in Dispatchers : bound'[e] = bound[e] \/ e = d
      BY <2>2 DEF DispatchNative
    <3> QED BY <2>2, <3>1, <3>2, <3>3
  <2> QED BY <1>4, <2>1, <2>2 DEF Dispatch
<1>5. ASSUME NEW n \in Natives,
             Authorize(n) \/ \E d \in Dispatchers : Enter(n, d)
      PROVE  /\ Goal /\ Moved(n)
             /\ \A m \in Natives \ {n} : /\ selected'[m] = selected[m]
                                         /\ m \in authorized' <=> m \in authorized
  BY <1>5 DEF Authorize, Enter
<1>6. ASSUME NEW x \in Actors, Rerun(x)
      PROVE  Goal /\ Moved(x) /\ UNCHANGED <<selected, authorized>>
  BY <1>6 DEF Rerun, Change
<1>7. CASE \/ RerunStart \/ ToggleArchive \/ MoveTag \/ EditDraft \/ StrangerAsset
           \/ DeleteClaim
  BY <1>7 DEF RerunStart, ToggleArchive, MoveTag, EditDraft, StrangerAsset, DeleteClaim, Change
<1>8. ASSUME NEW n \in Natives, StrangerDispatch(n)
      PROVE  /\ Goal /\ UNCHANGED <<selected, authorized>>
             /\ \A y \in Actors : Still(y)
  BY <1>8 DEF StrangerDispatch, Change
<1>9. CASE UNCHANGED vars
  BY <1>9 DEF vars
<1> HIDE DEF Still
<1>10. CASE Next
  BY <1>2, <1>3, <1>4, <1>5, <1>6, <1>7, <1>8, <1>10 DEF Next, Others
<1> QED BY <1>9, <1>10
-----------------------------------------------------------------------------
(* Dispatchers *)

\* A dispatcher past a write still has what that write created: each of its
\* segments is entered only by a confirmed answer.
LEMMA NextDispatcherInv ==
  ASSUME IInv, TypeOK', [Next]_vars, NEW d \in Dispatchers PROVE DispatcherInv(d)'
<1> USE DEF End, candidate, runs
<1>1. /\ DispatcherInv(d) /\ TypeOK /\ d \in Actors /\ d \notin Natives /\ d # None
      /\ None \notin Natives
  BY ActorAssumption DEF IInv, Actors
<1>2. /\ signedClaims \subseteq signedClaims'
      /\ bound'[d] = bound[d] \/ DispatchNative(d)
      /\ \/ Still(d)
         \/ Pass(d) \/ Stop(d) \/ Wake(d) \/ Dispatch(d) \/ Rerun(d)
  BY Frame
<1>3. bound[d] \in Natives => origin'[bound[d]] = d
  BY <1>1, Frame DEF DispatcherInv
<1>4. CASE bound'[d] = bound[d] /\ (Still(d) \/ Stop(d) \/ Wake(d))
  <2>1. attempt'[d] = attempt[d] /\ seg'[d] = seg[d] /\ at'[d] = at[d]
    BY <1>4 DEF Still, Stop, Wake
  <2> QED BY <1>1, <1>2, <1>3, <1>4, <2>1 DEF DispatcherInv
<1>5. CASE bound'[d] = bound[d] /\ Pass(d)
  <2>1. attempt'[d] = attempt[d] /\ seg'[d] = seg[d] /\ at'[d] = at[d] + 1
    BY <1>1, <1>5 DEF Pass, TypeOK
  <2>2. attempt[d] = 2 => at[d] # 2
    BY <1>1, <1>5, SelfFirst DEF Pass, Gate, Reads, Holds, DispatcherInv
  <2>3. attempt[d] = 2 => at'[d] <= 2
    BY <1>1, <2>1, <2>2 DEF DispatcherInv, TypeOK
  <2> QED BY <1>1, <1>2, <1>3, <1>5, <2>1, <2>3 DEF DispatcherInv
<1>6. CASE Rerun(d)
  <2>1. attempt'[d] = 2 /\ seg'[d] = 1 /\ at'[d] = 1 /\ bound' = bound
    BY <1>1, <1>6 DEF Rerun, Change, TypeOK
  <2> QED BY <1>1, <1>2, <1>3, <2>1 DEF DispatcherInv
<1>7. CASE Dispatch(d)
  <2> USE DEF Confirmed, Unconfirmed
  <2>1. CASE UploadClaim(d)
    <3>1. attempt[d] = 1 /\ seg[d] = 1 /\ bound' = bound /\ attempt' = attempt
      BY <2>1, AtWriteFirst DEF UploadClaim
    <3>2. seg'[d] \in {1, 2}
      BY <1>1, <2>1, <3>1 DEF UploadClaim, TypeOK
    <3> QED BY <1>1, <1>2, <1>3, <3>1, <3>2 DEF DispatcherInv
  <2>2. CASE SignClaim(d)
    <3>1. /\ attempt[d] = 1 /\ seg[d] = 2 /\ bound' = bound /\ attempt' = attempt
          /\ d \in signedClaims'
      BY <2>2, AtWriteFirst DEF SignClaim
    <3>2. seg'[d] \in {2, 3}
      BY <1>1, <2>2, <3>1 DEF SignClaim, TypeOK
    <3> QED BY <1>1, <1>2, <1>3, <3>1, <3>2 DEF DispatcherInv
  <2>3. CASE DispatchNative(d)
    <3>1. attempt[d] = 1 /\ seg[d] = 3 /\ attempt' = attempt /\ bound[d] = None
      BY <1>1, <2>3, AtWriteFirst DEF DispatchNative, DispatcherInv
    <3>2. PICK n \in Natives :
            /\ origin' = [origin EXCEPT ![n] = d]
            /\ \/ Confirmed(d) /\ bound' = [bound EXCEPT ![d] = n]
               \/ Unconfirmed(d) /\ UNCHANGED bound
      BY <2>3 DEF DispatchNative
    <3>3. CASE Confirmed(d) /\ bound' = [bound EXCEPT ![d] = n]
      <4>1. seg'[d] = 4 /\ bound'[d] = n /\ origin'[n] = d
        BY <1>1, <3>1, <3>2, <3>3 DEF TypeOK
      <4> QED BY <1>1, <1>2, <3>1, <4>1 DEF DispatcherInv
    <3>4. CASE Unconfirmed(d) /\ UNCHANGED bound
      BY <1>1, <1>2, <1>3, <3>1, <3>4 DEF DispatcherInv
    <3> QED BY <3>2, <3>3, <3>4
  <2>4. CASE SignBinding(d)
    <3>1. attempt[d] = 1 /\ seg[d] = 4 /\ bound' = bound /\ attempt' = attempt
      BY <2>4, AtWriteFirst DEF SignBinding
    <3>2. seg'[d] \in {4, 5}
      BY <1>1, <2>4, <3>1 DEF SignBinding, TypeOK
    <3> QED BY <1>1, <1>2, <1>3, <3>1, <3>2 DEF DispatcherInv
  <2>5. CASE UploadRefused(d) \/ DispatchRefused(d) \/ Complete(d)
    <3>1. UNCHANGED <<attempt, seg, at, bound>>
      BY <2>5 DEF UploadRefused, DispatchRefused, Complete
    <3> QED BY <1>1, <1>2, <1>3, <3>1 DEF DispatcherInv
  <2> QED BY <1>7, <2>1, <2>2, <2>3, <2>4, <2>5 DEF Dispatch
<1> QED BY <1>2, <1>4, <1>5, <1>6, <1>7 DEF Dispatch

\* No step adds a binding other than one from a confirmed response.
LEMMA NextBindingInv == ASSUME IInv, TypeOK', [Next]_vars PROVE BindingInv'
<1> SUFFICES ASSUME NEW d \in Dispatchers, NEW n \in Natives, <<d, n>> \in bindings'
             PROVE  bound'[d] = n /\ d \in signedClaims'
  BY DEF BindingInv
<1>1. DispatcherInv(d) /\ None \notin Natives /\ TypeOK
  BY ActorAssumption DEF IInv, Actors
<1>2. CASE <<d, n>> \in bindings
  <2>1. bound[d] = n /\ d \in signedClaims
    BY <1>2 DEF IInv, BindingInv
  <2>2. ~DispatchNative(d)
    BY <1>1, <2>1, AtWriteFirst DEF DispatchNative, DispatcherInv
  <2> QED BY <2>1, <2>2, Frame
<1>3. CASE <<d, n>> \notin bindings
  <2>1. PICK e \in Dispatchers : SignBinding(e)
    BY <1>3 DEF Next, vars, Pass, Stop, Wake, Dispatch, UploadClaim, UploadRefused, SignClaim,
                DispatchNative, DispatchRefused, Complete, Authorize, Enter, Others, Change,
                RerunStart, ToggleArchive, MoveTag, EditDraft, StrangerAsset, DeleteClaim, Rerun,
                StrangerDispatch
  <2>2. bindings' = bindings \cup {<<e, bound[e]>>} /\ bound' = bound
        /\ signedClaims' = signedClaims /\ seg[e] = 4
    BY <2>1 DEF SignBinding, AtWrite
  <2>3. e = d /\ bound[e] = n
    BY <1>3, <2>2
  <2> QED BY <1>1, <2>2, <2>3 DEF DispatcherInv
<1> QED BY <1>2, <1>3
-----------------------------------------------------------------------------
(* Native runs *)

\* A dispatcher that completed stays completed, or is at attempt 2 for good.
LEMMA FinishedKeeps ==
  ASSUME IInv, TypeOK', [Next]_vars, NEW d \in Dispatchers, Finished(d) PROVE Finished(d)'
<1> USE DEF End, Finished, Completed
<1>1. d \in Actors /\ TypeOK /\ DispatcherInv(d)
  BY DEF Actors, IInv
<1>2. CASE Still(d)
  BY <1>2 DEF Still
<1>3. CASE Pass(d) \/ Stop(d) \/ Wake(d)
  BY <1>1, <1>3 DEF Pass, Stop, Wake, Running
<1>4. CASE Rerun(d)
  BY <1>1, <1>4 DEF Rerun, TypeOK
<1>5. CASE Dispatch(d)
  <2>1. PICK k \in 1 .. 5 : AtWrite(d, k)
    BY <1>5 DEF Dispatch, UploadClaim, UploadRefused, SignClaim, DispatchNative,
                DispatchRefused, SignBinding, Complete
  <2>2. attempt[d] # 2 /\ status[d] # "succeeded"
    BY <2>1, AtWriteFirst DEF Running
  <2> QED BY <2>2
<1> QED BY <1>2, <1>3, <1>4, <1>5, Frame

\* A native run past the owner and binding reads keeps what they showed.
LEMMA NextNativeInv ==
  ASSUME IInv, TypeOK', [Next]_vars, NEW n \in Natives PROVE NativeInv(n)'
<1> USE DEF End, candidate, runs
<1>1. NativeInv(n) /\ TypeOK /\ n \in Actors
  BY DEF IInv, Actors
<1>2. \A d \in Dispatchers : /\ BoundTo(d, n) => BoundTo(d, n)'
                             /\ Finished(d) => Finished(d)'
  BY Frame, FinishedKeeps DEF BoundTo
<1>3. n \in authorized => \E d \in Dispatchers : BoundTo(d, n)' /\ Finished(d)'
  BY <1>1, <1>2 DEF NativeInv
<1>4. CASE Still(n) /\ selected'[n] = selected[n] /\ (n \in authorized' <=> n \in authorized)
  <2>1. \A g : Passed(n, g)' <=> Passed(n, g)
    BY <1>4 DEF Passed, Still
  <2>2. status[n] = "idle" => ~Passed(n, "binding") /\ ~Passed(n, "owner")
    BY <1>1 DEF NativeInv, Passed
  <2>3. status'[n] = status[n] /\ at'[n] = at[n]
    BY <1>4 DEF Still
  <2> QED BY <1>1, <1>2, <1>3, <1>4, <2>1, <2>2, <2>3 DEF NativeInv, BoundTo, Finished, Completed
<1>5. CASE Pass(n)
  <2>1. /\ Running(n) /\ status' = status /\ selected' = selected /\ authorized' = authorized
        /\ at'[n] = at[n] + 1 /\ at[n] \in Nat \ {0}
        /\ Holds(n, Entry[at[n]])
    BY <1>1, <1>5 DEF Pass, Reading, Gate, Reads, TypeOK
  <2>2. \A g : Passed(n, g)' => Passed(n, g) \/ g = Entry[at[n]]
    <3> SUFFICES ASSUME NEW g, NEW i \in 1 .. at'[n] - 1, Entry[i] = g
                 PROVE  Passed(n, g) \/ g = Entry[at[n]]
      BY DEF Passed
    <3>1. i \in 1 .. at[n] - 1 \/ i = at[n]
      BY <2>1
    <3> QED BY <3>1 DEF Passed
  <2>3. selected[n] \in Dispatchers /\ status'[n] = "running"
    BY <1>1, <2>1 DEF NativeInv, Running
  <2>4. /\ Entry[at[n]] = "binding" => BoundTo(selected[n], n)
        /\ Entry[at[n]] = "owner" => Finished(selected[n])
    BY <2>1 DEF Holds, Finished
  <2> QED BY <1>1, <1>2, <1>3, <2>1, <2>2, <2>3, <2>4
          DEF NativeInv, BoundTo, Finished, Completed
<1>6. CASE Stop(n)
  <2>1. /\ status[n] = "running" /\ status'[n] = "failed" /\ UNCHANGED <<selected, authorized, at>>
    BY <1>1, <1>6 DEF Stop, Running, TypeOK
  <2>2. \A g : Passed(n, g)' <=> Passed(n, g)
    BY <2>1 DEF Passed
  <2> QED BY <1>1, <1>2, <1>3, <2>1, <2>2 DEF NativeInv, BoundTo, Finished, Completed
<1>7. CASE Authorize(n)
  <2>1. /\ status[n] = "running" /\ status'[n] = "succeeded" /\ UNCHANGED <<selected, at>>
        /\ at[n] = Len(Entry) + 1
    BY <1>1, <1>7 DEF Authorize, Running, TypeOK
  <2>2. \A g : Passed(n, g)' <=> Passed(n, g)
    BY <2>1 DEF Passed
  <2>3. Passed(n, "binding") /\ Passed(n, "owner")
    BY <1>1, <2>1, EntryReads DEF Passed, Occurs, TypeOK
  <2>4. /\ selected[n] \in Dispatchers
        /\ BoundTo(selected[n], n)' /\ Finished(selected[n])'
    BY <1>1, <1>2, <2>1, <2>3 DEF NativeInv
  <2> QED BY <2>1, <2>4 DEF NativeInv, BoundTo, Finished, Completed
<1>8. CASE Rerun(n) \/ \E d \in Dispatchers : Enter(n, d)
  <2>1. /\ status'[n] = "running" /\ at'[n] = 1 /\ authorized' = authorized
        /\ selected'[n] \in Dispatchers
    BY <1>1, <1>8 DEF Rerun, Change, Enter, TypeOK, NativeInv
  <2>2. ~Passed(n, "binding")' /\ ~Passed(n, "owner")'
    BY <2>1 DEF Passed
  <2> QED BY <1>3, <2>1, <2>2 DEF NativeInv
<1> QED BY <1>4, <1>5, <1>6, <1>7, <1>8, Frame
-----------------------------------------------------------------------------
(* Claims and the runs they are good for *)

\* A dispatcher nobody has woken has made no write.
LEMMA NextIdleInv == ASSUME IInv, TypeOK', [Next]_vars PROVE IdleInv'
<1> SUFFICES ASSUME NEW d \in Dispatchers, status'[d] = "idle" PROVE seg'[d] = 1
  BY DEF IdleInv
<1> USE DEF End
<1>1. TypeOK /\ d \in Actors /\ IdleInv
  BY DEF IInv, Actors
<1>2. CASE Still(d)
  BY <1>1, <1>2 DEF Still, IdleInv
<1>3. ~(Pass(d) \/ Stop(d) \/ Wake(d) \/ Rerun(d))
  BY <1>1 DEF Pass, Stop, Wake, Rerun, Reading, Running, TypeOK
<1>4. ~Dispatch(d)
  BY <1>1 DEF Dispatch, UploadClaim, UploadRefused, SignClaim, DispatchNative, DispatchRefused,
              SignBinding, Complete, AtWrite, Running, Confirmed, Unconfirmed, TypeOK
<1> QED BY <1>2, <1>3, <1>4, Frame

Claims == deleted + (IF claim = None THEN 0 ELSE 1)

\* Nothing but a confirmed upload and a dispatch adds to what is owed; the
\* first takes a new claim, the second uses one up.
LEMMA OwedStep ==
  ASSUME IInv, TypeOK', [Next]_vars
  PROVE  \/ Owed' \subseteq Owed /\ Claims <= Claims'
         \/ \E d \in Dispatchers : Owed' \subseteq Owed \cup {d} /\ Claims' = Claims + 1
         \/ \E d \in Owed, n \in Natives : /\ Owed' \subseteq (Owed \ {d}) \cup {n}
                                           /\ Claims' = Claims
<1> USE DEF End, candidate, runs
<1>1. /\ TypeOK /\ IdleInv /\ Dispatchers \cap Natives = {} /\ Dispatchers \subseteq Actors
      /\ Natives \subseteq Actors /\ None \notin Dispatchers /\ Stranger # None
      /\ Stranger \notin Dispatchers
  BY ActorAssumption DEF IInv, Actors
<1>2. ASSUME UNCHANGED <<claim, deleted, origin>>,
             \A d \in Dispatchers : Live(d)' => Live(d)
      PROVE  Owed' \subseteq Owed /\ Claims <= Claims'
  BY <1>1, <1>2 DEF Owed, Used, Claims, TypeOK
<1>3. ASSUME NEW x \in Actors, Pass(x) \/ Stop(x)
      PROVE  Owed' \subseteq Owed /\ Claims <= Claims'
  <2>1. UNCHANGED <<claim, deleted, origin>> /\ \A d \in Dispatchers : Live(d)' => Live(d)
    BY <1>1, <1>3 DEF Pass, Stop, Live, Running, TypeOK
  <2> QED BY <1>2, <2>1
<1>4. ASSUME NEW d \in Dispatchers, Wake(d) PROVE Owed' \subseteq Owed /\ Claims <= Claims'
  <2>1. UNCHANGED <<claim, deleted, origin>> /\ \A e \in Dispatchers : Live(e)' => Live(e)
    BY <1>1, <1>4 DEF Wake, Live, Running, IdleInv
  <2> QED BY <1>2, <2>1
<1>5. ASSUME NEW n \in Natives, Authorize(n) \/ \E d \in Dispatchers : Enter(n, d)
      PROVE  Owed' \subseteq Owed /\ Claims <= Claims'
  <2>1. UNCHANGED <<claim, deleted, origin>> /\ \A e \in Dispatchers : Live(e)' => Live(e)
    BY <1>1, <1>5 DEF Authorize, Enter, Live, Running, TypeOK
  <2> QED BY <1>2, <2>1
<1>6. ASSUME NEW d \in Dispatchers, UploadClaim(d)
      PROVE  Owed' \subseteq Owed \cup {d} /\ Claims' = Claims + 1
  <2>1. /\ claim = None /\ claim' = d /\ UNCHANGED <<deleted, origin>>
        /\ \A e \in Dispatchers \ {d} : Live(e)' => Live(e)
    BY <1>1, <1>6 DEF UploadClaim, NameFree, Confirmed, Unconfirmed, Live, Running, TypeOK
  <2> QED BY <1>1, <2>1 DEF Owed, Used, Claims, TypeOK
<1>7. ASSUME NEW d \in Dispatchers, SignClaim(d) \/ SignBinding(d)
      PROVE  Owed' \subseteq Owed /\ Claims <= Claims'
  <2>1. UNCHANGED <<claim, deleted, origin>> /\ \A e \in Dispatchers : Live(e)' => Live(e)
    BY <1>1, <1>7 DEF SignClaim, SignBinding, AtWrite, Confirmed, Unconfirmed, Live, Running,
                      TypeOK
  <2> QED BY <1>2, <2>1
<1>8. ASSUME NEW d \in Dispatchers, DispatchNative(d)
      PROVE  \E n \in Natives : Owed' \subseteq (Owed \ {d}) \cup {n} /\ Claims' = Claims
  <2>1. PICK n \in Natives : origin[n] = None /\ origin' = [origin EXCEPT ![n] = d]
    BY <1>8 DEF DispatchNative
  <2>2. ~Live(d)' /\ \A e \in Dispatchers : Live(e)' => Live(e)
    BY <1>1, <1>8 DEF DispatchNative, AtWrite, Confirmed, Unconfirmed, Live, Running, TypeOK
  <2>3. UNCHANGED <<claim, deleted>>
    BY <1>8 DEF DispatchNative
  <2>4. Used' \subseteq Used \cup {n}
    BY <1>1, <2>1 DEF Used, TypeOK
  <2>5. Owed' \subseteq (Owed \ {d}) \cup {n}
    BY <1>1, <2>2, <2>4 DEF Owed, Used
  <2> QED BY <2>3, <2>5 DEF Claims
<1>9. ASSUME NEW d \in Dispatchers, UploadRefused(d) \/ DispatchRefused(d) \/ Complete(d)
      PROVE  Owed' \subseteq Owed /\ Claims <= Claims'
  <2>1. UNCHANGED <<claim, deleted, origin>> /\ \A e \in Dispatchers : Live(e)' => Live(e)
    BY <1>1, <1>9 DEF UploadRefused, DispatchRefused, Complete, Live, Running, TypeOK
  <2> QED BY <1>2, <2>1
<1>10. ASSUME Others PROVE Owed' \subseteq Owed /\ Claims <= Claims'
  <2> USE DEF Change
  <2>1. CASE RerunStart \/ ToggleArchive \/ MoveTag \/ EditDraft
    <3>1. UNCHANGED <<claim, deleted, origin>> /\ \A e \in Dispatchers : Live(e)' => Live(e)
      BY <2>1 DEF RerunStart, ToggleArchive, MoveTag, EditDraft, Live, Running
    <3> QED BY <1>2, <3>1
  <2>2. CASE StrangerAsset \/ DeleteClaim
    <3>1. Owed' = Owed
      BY <2>2 DEF StrangerAsset, DeleteClaim, Owed, Used, Live, Running
    <3>2. CASE StrangerAsset
      BY <1>1, <3>1, <3>2 DEF StrangerAsset, Claims, TypeOK
    <3>3. CASE DeleteClaim
      BY <1>1, <3>1, <3>3 DEF DeleteClaim, Claims, TypeOK
    <3> QED BY <2>2, <3>2, <3>3
  <2>3. ASSUME NEW x \in Actors, Rerun(x) PROVE Owed' \subseteq Owed /\ Claims <= Claims'
    <3>1. UNCHANGED <<claim, deleted, origin>> /\ \A e \in Dispatchers : Live(e)' => Live(e)
      BY <1>1, <2>3 DEF Rerun, Live, Running, TypeOK
    <3> QED BY <1>2, <3>1
  <2>4. ASSUME NEW n \in Natives, StrangerDispatch(n)
        PROVE  Owed' \subseteq Owed /\ Claims <= Claims'
    <3>1. Used' \subseteq Used
      BY <1>1, <2>4 DEF StrangerDispatch, Used, TypeOK
    <3> QED BY <1>1, <2>4, <3>1 DEF StrangerDispatch, Owed, Live, Running, Claims, TypeOK
  <2> QED BY <1>10, <2>1, <2>2, <2>3, <2>4 DEF Others
<1>11. CASE UNCHANGED vars
  BY <1>2, <1>11 DEF vars, Live, Running
<1>12. ASSUME NEW d \in Dispatchers, DispatchNative(d) PROVE d \in Owed
  BY <1>12 DEF DispatchNative, AtWrite, Owed, Live
<1> HIDE DEF Claims
<1>13. ASSUME NEW d \in Dispatchers, Dispatch(d)
       PROVE  \/ Owed' \subseteq Owed /\ Claims <= Claims'
              \/ Owed' \subseteq Owed \cup {d} /\ Claims' = Claims + 1
              \/ /\ d \in Owed
                 /\ \E n \in Natives : Owed' \subseteq (Owed \ {d}) \cup {n} /\ Claims' = Claims
  BY <1>6, <1>7, <1>8, <1>9, <1>12, <1>13 DEF Dispatch
<1> QED BY <1>3, <1>4, <1>5, <1>10, <1>11, <1>13 DEF Next

\* The number of claims is a natural number.
LEMMA ClaimCount ==
  ASSUME NEW n \in Nat, NEW c
  PROVE  n + (IF c = None THEN 0 ELSE 1) \in Nat
<1>1. CASE c = None
  BY <1>1
<1>2. CASE c # None
  BY <1>2
<1> QED BY <1>1, <1>2

\* What is owed never outgrows the claims made: inductive form of SoleDispatch.
LEMMA NextOwedInv == ASSUME IInv, TypeOK', [Next]_vars PROVE OwedInv'
<1>1. /\ IsFiniteSet(Owed) /\ Cardinality(Owed) <= Claims /\ Cardinality(Owed) \in Nat
      /\ Claims \in Nat /\ Claims' \in Nat
  <2>1. IsFiniteSet(Owed) /\ Cardinality(Owed) <= Claims
    BY DEF IInv, OwedInv, Claims
  <2>2. Claims \in Nat
    <3>1. deleted \in Nat
      BY DEF IInv, TypeOK
    <3> QED BY <3>1 DEF Claims
  <2>3. Claims' \in Nat
    <3>1. deleted' \in Nat
      BY DEF TypeOK
    <3> QED BY <3>1, ClaimCount DEF Claims
  <2> QED BY <2>1, <2>2, <2>3, FS_CardinalityType
<1> SUFFICES IsFiniteSet(Owed') /\ Cardinality(Owed') <= Claims'
  BY DEF OwedInv, Claims
<1>2. CASE Owed' \subseteq Owed /\ Claims <= Claims'
  <2>1. IsFiniteSet(Owed') /\ Cardinality(Owed') <= Cardinality(Owed)
    BY <1>1, <1>2, FS_Subset
  <2>2. Cardinality(Owed') \in Nat
    BY <2>1, FS_CardinalityType
  <2> QED BY <1>1, <1>2, <2>1, <2>2
<1>3. ASSUME NEW d \in Dispatchers, Owed' \subseteq Owed \cup {d}, Claims' = Claims + 1
      PROVE  IsFiniteSet(Owed') /\ Cardinality(Owed') <= Claims'
  <2>1. IsFiniteSet(Owed \cup {d}) /\ Cardinality(Owed \cup {d}) <= Cardinality(Owed) + 1
    BY <1>1, FS_AddElement
  <2>2. IsFiniteSet(Owed') /\ Cardinality(Owed') <= Cardinality(Owed \cup {d})
    BY <1>3, <2>1, FS_Subset
  <2>3. Cardinality(Owed') \in Nat /\ Cardinality(Owed \cup {d}) \in Nat
    BY <2>1, <2>2, FS_CardinalityType
  <2> QED BY <1>1, <1>3, <2>1, <2>2, <2>3
<1>4. ASSUME NEW d \in Owed, NEW n \in Natives, Owed' \subseteq (Owed \ {d}) \cup {n},
             Claims' = Claims
      PROVE  IsFiniteSet(Owed') /\ Cardinality(Owed') <= Claims'
  <2> DEFINE rest == Owed \ {d}
  <2>1. IsFiniteSet(rest) /\ Cardinality(rest) = Cardinality(Owed) - 1
    BY <1>1, FS_RemoveElement
  <2>2. Cardinality(rest) \in Nat
    BY <2>1, FS_CardinalityType
  <2> HIDE DEF rest
  <2>3. /\ IsFiniteSet(rest \cup {n})
        /\ Cardinality(rest \cup {n}) <= Cardinality(rest) + 1
    BY <2>1, <2>2, FS_AddElement
  <2>4. IsFiniteSet(Owed') /\ Cardinality(Owed') <= Cardinality(rest \cup {n})
    BY <1>4, <2>3, FS_Subset DEF rest
  <2>5. Cardinality(Owed') \in Nat /\ Cardinality(rest \cup {n}) \in Nat
    BY <2>3, <2>4, FS_CardinalityType
  <2> QED BY <1>1, <1>4, <2>1, <2>2, <2>3, <2>4, <2>5
<1> QED BY <1>2, <1>3, <1>4, OwedStep

\* Every step keeps the invariant.
LEMMA NextIInv == ASSUME IInv, [Next]_vars PROVE IInv'
<1>1. TypeOK'
  BY NextTypeOK
<1>2. IdleInv' /\ BindingInv' /\ OwedInv'
  BY <1>1, NextIdleInv, NextBindingInv, NextOwedInv
<1>3. \A d \in Dispatchers : DispatcherInv(d)'
  BY <1>1, NextDispatcherInv
<1>4. \A n \in Natives : NativeInv(n)'
  BY <1>1, NextNativeInv
<1> QED BY <1>1, <1>2, <1>3, <1>4 DEF IInv

\* The conjunction of the invariants holds in every reachable state.
LEMMA Invariance == Spec => []IInv
  BY NextIInv, InitIInv, PTL DEF Spec

\* Type correctness: no binding is signed for a run no response named.
THEOREM TypeCorrect == Spec => []TypeOK
<1>1. IInv => TypeOK
  BY DEF IInv
<1> QED BY <1>1, Invariance, PTL

\* One dispatched native run per claim, whoever races, reruns or loses answers.
THEOREM OneDispatchPerClaim == Spec => []SoleDispatch
<1>1. IInv => SoleDispatch
  <2> SUFFICES ASSUME IInv PROVE Cardinality(Used) <= 1 + deleted
    BY DEF SoleDispatch, Used
  <2>1. /\ IsFiniteSet(Owed) /\ Cardinality(Owed) <= 1 + deleted
        /\ Cardinality(Owed) \in Nat /\ deleted \in Nat
    BY FS_CardinalityType DEF IInv, OwedInv, TypeOK
  <2>2. IsFiniteSet(Used) /\ Cardinality(Used) <= Cardinality(Owed)
    BY <2>1, FS_Subset DEF Owed
  <2>3. Cardinality(Used) \in Nat
    BY <2>2, FS_CardinalityType
  <2> QED BY <2>1, <2>2, <2>3
<1> QED BY <1>1, Invariance, PTL

\* The invariant gives every authorized run its bound, completed dispatcher.
LEMMA AuthorizedBound == IInv => AuthorizedIsBound
<1> SUFFICES ASSUME IInv, NEW n \in authorized
             PROVE  /\ origin[n] \in Dispatchers
                    /\ origin[n] \in signedClaims /\ bound[origin[n]] = n
                    /\ Finished(origin[n])
  BY DEF AuthorizedIsBound, Finished
<1>1. n \in Natives /\ NativeInv(n)
  BY DEF IInv, TypeOK
<1>2. PICK d \in Dispatchers : BoundTo(d, n) /\ Finished(d)
  BY <1>1 DEF NativeInv
<1>3. bound[d] = n /\ d \in signedClaims /\ origin[n] = d
  BY <1>1, <1>2 DEF IInv, BindingInv, BoundTo, DispatcherInv
<1> QED BY <1>2, <1>3

\* Only the run its completed dispatcher is bound to ever passes entry.
THEOREM AuthorizedRunIsBound == Spec => []AuthorizedIsBound
  BY AuthorizedBound, Invariance, PTL

\* What passed entry was dispatched.
LEMMA AuthorizedUsed == IInv => authorized \subseteq Used
<1> SUFFICES ASSUME IInv, NEW n \in authorized PROVE n \in Natives /\ origin[n] \in Dispatchers
  BY DEF Used
<1>1. n \in Natives /\ NativeInv(n)
  BY DEF IInv, TypeOK
<1>2. PICK d \in Dispatchers : BoundTo(d, n)
  BY <1>1 DEF NativeInv
<1> QED BY <1>1, <1>2 DEF IInv, BindingInv, BoundTo, DispatcherInv

\* One consumer per claim, although nothing marks a claim as consumed.
THEOREM OneConsumerPerClaim == Spec => []SoleConsumption
<1>1. IInv => SoleConsumption
  <2> SUFFICES ASSUME IInv PROVE Cardinality(authorized) <= 1 + deleted
    BY DEF SoleConsumption
  <2>1. authorized \subseteq Used
    BY AuthorizedUsed
  <2>2. /\ IsFiniteSet(Owed) /\ Cardinality(Owed) <= 1 + deleted
        /\ Cardinality(Owed) \in Nat /\ deleted \in Nat
    BY FS_CardinalityType DEF IInv, OwedInv, TypeOK
  <2>3. IsFiniteSet(authorized) /\ Cardinality(authorized) <= Cardinality(Owed)
    BY <2>1, <2>2, FS_Subset DEF Owed
  <2>4. Cardinality(authorized) \in Nat
    BY <2>3, FS_CardinalityType
  <2> QED BY <2>2, <2>3, <2>4
<1> QED BY <1>1, Invariance, PTL
-----------------------------------------------------------------------------
(* Refinement, as long as nobody deletes a claim.                           *)

\* What is dispatched and consumed then rests on the one claim that stands.
ClaimStands == deleted = 0 /\ claim \notin Dispatchers => Owed = {}

LEMMA InitClaimStands == Init => ClaimStands
<1> SUFFICES ASSUME Init PROVE Owed = {}
  BY DEF ClaimStands
<1> QED BY ActorAssumption DEF Init, Actors, Owed, Used, Live

LEMMA NothingOwed == ASSUME IInv, deleted = 0 PROVE claim = None => Owed = {}
<1> SUFFICES ASSUME claim = None PROVE Owed = {}
  OBVIOUS
<1>1. IsFiniteSet(Owed) /\ Cardinality(Owed) <= 0 /\ Cardinality(Owed) \in Nat
  BY FS_CardinalityType DEF IInv, OwedInv
<1> QED BY <1>1, FS_EmptySet

LEMMA AtMostOne == IInv /\ deleted = 0 => \A a, b \in Owed : a = b
<1> SUFFICES ASSUME IInv, deleted = 0, NEW m \in Owed, NEW n \in Owed, m # n PROVE FALSE
  OBVIOUS
<1>1. IsFiniteSet(Owed) /\ Cardinality(Owed) <= 1 /\ Cardinality(Owed) \in Nat
  BY FS_CardinalityType DEF IInv, OwedInv
<1>2. IsFiniteSet(Owed \ {m}) /\ Cardinality(Owed \ {m}) = Cardinality(Owed) - 1
  BY <1>1, FS_RemoveElement
<1>3. Cardinality(Owed \ {m}) = 0
  BY <1>1, <1>2, FS_CardinalityType
<1> QED BY <1>2, <1>3, FS_EmptySet

\* A claim is uploaded or deleted, never replaced, and no such step authorizes.
LEMMA ClaimMoves ==
  ASSUME IInv, [Next]_vars
  PROVE  /\ deleted <= deleted'
         /\ \/ claim' = claim /\ authorized' = authorized /\ deleted' = deleted
            \/ deleted' = deleted + 1
            \/ claim = None /\ claim' \in Dispatchers /\ UNCHANGED <<authorized, deleted>>
            \/ claim = None /\ StrangerAsset
            \/ /\ claim' = claim /\ deleted' = deleted
               /\ \E n \in Natives : authorized' = authorized \cup {n}
<1> USE DEF candidate, runs
<1>1. deleted \in Nat
  BY DEF IInv, TypeOK
<1>2. ASSUME NEW x \in Actors, Pass(x) \/ Stop(x) PROVE UNCHANGED <<claim, authorized, deleted>>
  BY <1>2 DEF Pass, Stop
<1>3. ASSUME NEW d \in Dispatchers, Wake(d) PROVE UNCHANGED <<claim, authorized, deleted>>
  BY <1>3 DEF Wake
<1>4. ASSUME NEW d \in Dispatchers, Dispatch(d)
      PROVE  /\ UNCHANGED <<authorized, deleted>>
             /\ claim' = claim \/ (claim = None /\ claim' = d)
  BY <1>4 DEF Dispatch, UploadClaim, NameFree, UploadRefused, SignClaim, DispatchNative,
              DispatchRefused, SignBinding, Complete
<1>5. ASSUME NEW n \in Natives, NEW d \in Dispatchers, Enter(n, d)
      PROVE  UNCHANGED <<claim, authorized, deleted>>
  BY <1>5 DEF Enter
<1>6. ASSUME NEW n \in Natives, Authorize(n)
      PROVE  UNCHANGED <<claim, deleted>> /\ authorized' = authorized \cup {n}
  BY <1>6 DEF Authorize
<1>7. CASE Others
  <2>1. CASE DeleteClaim
    BY <1>1, <2>1 DEF DeleteClaim
  <2>2. CASE StrangerAsset
    BY <1>1, <2>2 DEF StrangerAsset
  <2>3. ASSUME ~DeleteClaim, ~StrangerAsset PROVE UNCHANGED <<claim, authorized, deleted>>
    BY <1>7, <2>3 DEF Others, Change, RerunStart, ToggleArchive, MoveTag, EditDraft, Rerun,
                      StrangerDispatch
  <2> QED BY <1>1, <2>1, <2>2, <2>3
<1>8. CASE UNCHANGED vars
  BY <1>1, <1>8 DEF vars
<1> QED BY <1>1, <1>2, <1>3, <1>4, <1>5, <1>6, <1>7, <1>8 DEF Next

LEMMA NextClaimStands == ASSUME IInv, TypeOK', ClaimStands, [Next]_vars PROVE ClaimStands'
<1> SUFFICES ASSUME deleted' = 0, claim' \notin Dispatchers PROVE Owed' = {}
  BY DEF ClaimStands
<1>1. deleted = 0
  <2>1. deleted \in Nat /\ deleted <= deleted'
    BY ClaimMoves DEF IInv, TypeOK
  <2> QED BY <2>1
<1>2. CASE claim' = claim
  <2>1. Owed = {} /\ Claims' = Claims /\ Claims \in Nat
    BY <1>1, <1>2, ClaimCount DEF ClaimStands, Claims
  <2> QED BY <2>1, OwedStep
<1>3. CASE claim = None /\ StrangerAsset
  <2>1. Owed = {}
    BY <1>1, <1>3, NothingOwed
  <2>2. Owed' = Owed
    BY <1>3 DEF StrangerAsset, runs, Owed, Used, Live, Running
  <2> QED BY <2>1, <2>2
<1> QED BY <1>1, <1>2, <1>3, ClaimMoves

\* The invariant says nothing of the candidate but its types: whatever becomes
\* of tag, draft and start, the runs keep what they are entitled to.
LEMMA CandidateFree ==
  ASSUME IInv, ClaimStands, startAttempt' \in {1, 2}, tagged' \in BOOLEAN, exact' \in BOOLEAN,
         active' \in BOOLEAN,
         UNCHANGED <<claim, signedClaims, bindings, origin, runs, bound, selected, authorized,
                     deleted, spent>>
  PROVE  IInv' /\ ClaimStands'
<1> USE DEF runs
<1>1. TypeOK' /\ IdleInv' /\ BindingInv'
  BY DEF IInv, TypeOK, IdleInv, BindingInv
<1>2. Owed' = Owed
  BY DEF Owed, Used, Live, Running
<1>3. OwedInv' /\ ClaimStands'
  BY <1>2 DEF IInv, OwedInv, ClaimStands
<1>4. \A d \in Dispatchers : DispatcherInv(d)'
  BY DEF IInv, DispatcherInv
<1>5. \A n \in Natives : NativeInv(n)'
  BY DEF IInv, NativeInv, Passed, BoundTo, Finished, Completed
<1> QED BY <1>1, <1>3, <1>4, <1>5 DEF IInv

\* Until a claim is deleted a step claims or consumes the version, or neither.
LEMMA NextRefines ==
  ASSUME IInv, ClaimStands, IInv', ClaimStands', [Next]_vars, deleted' = 0
  PROVE  [Lifecycle!DispatchNext]_(Lifecycle!vars)
<1>1. deleted = 0
  <2>1. deleted \in Nat /\ deleted <= deleted'
    BY ClaimMoves DEF IInv, TypeOK
  <2> QED BY <2>1
<1>2. CASE claim' = claim /\ authorized' = authorized
  BY <1>2 DEF Lifecycle!vars, StageOf
<1>3. CASE claim = None /\ StrangerAsset
  <2>1. authorized' = authorized /\ claim \notin Dispatchers /\ claim' \notin Dispatchers
    BY <1>3, ActorAssumption DEF StrangerAsset, Change, Actors
  <2> QED BY <2>1 DEF Lifecycle!vars, StageOf
<1>4. CASE claim = None /\ claim' \in Dispatchers /\ authorized' = authorized
  <2>1. authorized = {} /\ claim \notin Dispatchers
    <3>1. Owed = {}
      BY <1>1, <1>4, NothingOwed
    <3> QED BY <1>4, <3>1, AuthorizedUsed, ActorAssumption DEF Owed, Actors
  <2>2. Lifecycle!Claim("v", claim')
    BY <1>4, <2>1 DEF Lifecycle!Claim, Lifecycle!Move, StageOf
  <2> QED BY <1>4, <2>2 DEF Lifecycle!DispatchNext
<1>5. ASSUME NEW n \in Natives, claim' = claim, authorized' = authorized \cup {n}
      PROVE  [Lifecycle!DispatchNext]_(Lifecycle!vars)
  <2>1. authorized' \subseteq Owed'
    <3>1. (IInv => authorized \subseteq Used)'
      BY AuthorizedUsed, PTL
    <3> QED BY <3>1 DEF Owed
  <2>2. claim \in Dispatchers
    BY <1>5, <2>1 DEF ClaimStands
  <2>3. authorized' = {n}
    <3>1. ASSUME NEW m \in authorized' PROVE m = n
      <4>1. m \in Owed' /\ n \in Owed'
        BY <1>5, <2>1
      <4>2. (IInv /\ deleted = 0 => \A a, b \in Owed : a = b)'
        BY AtMostOne, PTL
      <4> QED BY <4>1, <4>2
    <3> QED BY <1>5, <3>1
  <2>4. CASE n \in authorized
    <3>1. authorized' = authorized
      BY <1>5, <2>4
    <3> QED BY <1>2, <1>5, <3>1
  <2>5. CASE n \notin authorized
    <3>1. authorized = {}
      BY <1>5, <2>3, <2>5
    <3>2. (CHOOSE m \in authorized' : TRUE) = n
      BY <2>3
    <3>3. Lifecycle!Consume("v", n)
      BY <1>5, <2>2, <2>3, <3>1, <3>2 DEF Lifecycle!Consume, Lifecycle!Move, StageOf
    <3> QED BY <3>3 DEF Lifecycle!DispatchNext
  <2> QED BY <2>4, <2>5
<1>6. deleted \in Nat
  BY DEF IInv, TypeOK
<1> QED BY <1>1, <1>2, <1>3, <1>4, <1>5, <1>6, ClaimMoves

\* As long as nobody deletes a claim, dispatchers and native runs make only the
\* steps that the abstract lifecycle allows: one claim, one consumer.
THEOREM DispatchRefinesLifecycle == Spec => LifecycleUntilDeleted
<1>1. Init => Lifecycle!DispatchInit
  BY ActorAssumption DEF Init, Actors, StageOf, Lifecycle!DispatchInit, Lifecycle!Fresh
<1>2. IInv /\ ClaimStands /\ [Next]_vars /\ IInv' =>
        ClaimStands' /\ [deleted' = 0 => [Lifecycle!DispatchNext]_(Lifecycle!vars)]_vars
  <2>1. IInv' => TypeOK'
    BY DEF IInv
  <2> QED BY <2>1, NextClaimStands, NextRefines
<1> QED BY <1>1, <1>2, InitClaimStands, Invariance, PTL DEF Spec, LifecycleUntilDeleted
=============================================================================
