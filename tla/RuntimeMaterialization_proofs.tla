--------------------- MODULE RuntimeMaterialization_proofs ---------------------
(***************************************************************************)
(* Proofs about the two halves of materialize-aros-tools-runtime.py:       *)
(* RuntimeMaterialization, for any number of runs, verifiers, files,       *)
(* archives and versions of the lock, and RuntimeInspection, for any       *)
(* closure, any number of changes by others and any number of passes.      *)
(*                                                                         *)
(* A run owns the directory that mkdir gave it; the inductive invariant    *)
(* says where that directory stands and what it holds at each step.        *)
(*                                                                         *)
(* The frozen pass is a double collect: evidence of the first look that is *)
(* out of date stays out of date, because change times only grow and a     *)
(* replaced file never returns, so the last look must meet it.             *)
(***************************************************************************)
EXTENDS RuntimeMaterialization, RuntimeInspection, TLAPS

Early == {"lock", "release", "tag", "download", "absent", "mkdir"}

\* Where the directory of a run stands; no directory stands in two places.
PlaceInv ==
  /\ place["destination"] # None => place["destination"] # place["partial"]
  /\ \A p \in Runs :
       /\ pc[p] \in Early => place["destination"] # p /\ place["partial"] # p
       /\ pc[p] \in Extracting \cup {"remove"} => place["partial"] = p
       /\ pc[p] \in Publishing \cup Checking \cup {"done"} => place["destination"] = p

\* What an extraction has measured.
ExtractInv ==
  \A p \in Runs :
    /\ pc[p] \in Early => observed[p] = {}
    /\ pc[p] \in Extracting => \A f \in observed[p] : tree[p][f] = Of(used[p])
    /\ pc[p] = "fill" => Member(p).path \in Payload
    /\ pc[p] = "replace" => observed[p] = Payload

\* What a published directory holds while its run completes it.
MetadataInv ==
  \A p \in Runs :
    /\ pc[p] \in Early \cup Extracting =>
         tree[p]["manifest"] = None /\ tree[p]["receipt"] = None
    /\ pc[p] \in {"manifest", "copying"} =>
         tree[p]["manifest"] \in {None, Half} /\ tree[p]["receipt"] = None
    /\ pc[p] \in {"receipt", "writing"} => tree[p]["receipt"] \in {None, Half}
    /\ pc[p] \in {"check", "compare"} =>
         tree[p]["receipt"] \in Bytes /\ tree[p]["receipt"].digest <= lock
    /\ pc[p] = "compare" => tree[p]["receipt"].digest <= used[p]

\* What a verification knows of the directory it reads.
CheckInv ==
  \A a \in Actors :
    /\ used[a] <= lock
    /\ pc[a] \in {"compare", "list", "measure"} => Standing /\ Read("manifest") = Of(used[a])
    /\ pc[a] \in {"list", "measure"} =>
         Read("receipt").fields = used[a] /\ Read("receipt") \in Bytes
    /\ pc[a] \in {"list", "measure"} /\ a \in Runs => Read("receipt").digest = used[a]
    /\ pc[a] = "measure" => \A f \in Payload \ todo[a] : Read(f) = Of(used[a])

AcceptedInv ==
  \A a \in Actors : accepted[a] # None => Read("receipt") \in Bytes

Inv == /\ TypeOK /\ PlaceInv /\ ExtractInv /\ MetadataInv /\ CheckInv /\ AcceptedInv
       /\ PublishedWhole /\ AcceptedComplete
-----------------------------------------------------------------------------
LEMMA Contents ==
  /\ \A n, m \in {0} \cup Locks : Of(n) = Of(m) => n = m
  /\ \A n \in {0} \cup Locks : Of(n) \in Bytes /\ Of(n) # None
  /\ \A b \in Bytes : b # None /\ b.fields \in {0} \cup Locks /\ b.digest \in {0} \cup Locks
BY FileAssumption DEF Of, Bytes

LEMMA TreeUpdate ==
  ASSUME NEW t \in [Runs -> [Paths -> Bytes \cup {None}]],
         NEW p \in Runs, NEW f \in Paths, NEW b \in Bytes
  PROVE  /\ [t EXCEPT ![p][f] = b] \in [Runs -> [Paths -> Bytes \cup {None}]]
         /\ \A q \in Runs : \A g \in Paths :
              [t EXCEPT ![p][f] = b][q][g] = IF q = p /\ g = f THEN b ELSE t[q][g]
OBVIOUS

\* A write by path changes one file of the directory that stands there.
LEMMA Wrote ==
  ASSUME TypeOK, NEW w \in {"destination", "partial"}, NEW p \in Runs, place[w] = p,
         NEW f \in Paths, NEW b \in Bytes, Write(w, f, b)
  PROVE  /\ tree' \in [Runs -> [Paths -> Bytes \cup {None}]]
         /\ \A q \in Runs : \A g \in Paths :
              tree'[q][g] = IF q = p /\ g = f THEN b ELSE tree[q][g]
<1>1. tree \in [Runs -> [Paths -> Bytes \cup {None}]]  BY DEF TypeOK
<1>2. tree' = [tree EXCEPT ![p][f] = b]  BY DEF Write
<1> QED  BY <1>1, <1>2, TreeUpdate

LEMMA OpenMemberWrites ==
  ASSUME Inv, NEW p \in Runs, OpenMember(p)
  PROVE  /\ tree' \in [Runs -> [Paths -> Bytes \cup {None}]]
         /\ \A q \in Runs : \A g \in Paths :
              tree'[q][g] = IF q = p /\ g = Member(p).path THEN Half ELSE tree[q][g]
<1>1. place["partial"] = p  BY DEF Inv, PlaceInv, OpenMember, From, Extracting
<1>2. Member(p).path \in Paths /\ Half \in Bytes  BY Contents DEF OpenMember, Paths, Half
<1>3. Write("partial", Member(p).path, Half)  BY DEF OpenMember
<1> QED  BY <1>1, <1>2, <1>3, Wrote DEF Inv

LEMMA FillMemberWrites ==
  ASSUME Inv, NEW p \in Runs, FillMember(p)
  PROVE  /\ tree' \in [Runs -> [Paths -> Bytes \cup {None}]]
         /\ \A q \in Runs : \A g \in Paths :
              tree'[q][g] = IF q = p /\ g = Member(p).path THEN Of(used[p]) ELSE tree[q][g]
<1>1. place["partial"] = p /\ Member(p).path \in Paths
  BY DEF Inv, PlaceInv, ExtractInv, FillMember, From, Extracting, Paths
<1>2. Of(used[p]) \in Bytes  BY Contents DEF Inv, TypeOK, Actors
<1>3. Write("partial", Member(p).path, Of(used[p]))  BY DEF FillMember
<1> QED  BY <1>1, <1>2, <1>3, Wrote DEF Inv

LEMMA MetadataWrites ==
  ASSUME Inv, NEW p \in Runs, pc[p] \in Publishing, NEW f \in Metadata, NEW b \in Bytes,
         Write("destination", f, b)
  PROVE  /\ tree' \in [Runs -> [Paths -> Bytes \cup {None}]]
         /\ \A q \in Runs : \A g \in Paths :
              tree'[q][g] = IF q = p /\ g = f THEN b ELSE tree[q][g]
<1>1. place["destination"] = p  BY DEF Inv, PlaceInv
<1>2. f \in Paths  BY DEF Paths
<1> QED  BY <1>1, <1>2, Wrote DEF Inv

LEMMA ReadLockStep == ASSUME Inv, NEW p \in Runs, ReadLock(p) PROVE Inv'
<1> USE DEF files, From, Goto, Early, Extracting, Publishing, Checking, Labels, Actors, Locks
<1>0. p \in Actors  OBVIOUS
<1>1. TypeOK'  BY <1>0 DEF Inv, TypeOK, ReadLock
<1>2. PlaceInv'  BY <1>0 DEF Inv, PlaceInv, ReadLock
<1>3. ExtractInv'  BY <1>0 DEF Inv, ExtractInv, Member, ReadLock
<1>4. MetadataInv'  BY <1>0 DEF Inv, MetadataInv, ReadLock
<1>5. CheckInv'  BY <1>0 DEF Inv, TypeOK, CheckInv, Read, Standing, ReadLock
<1>6. AcceptedInv'  BY <1>0 DEF Inv, AcceptedInv, Read, ReadLock
<1>7. PublishedWhole'  BY <1>0 DEF Inv, PublishedWhole, Read, Standing, ReadLock
<1>8. AcceptedComplete'  BY <1>0 DEF Inv, AcceptedComplete, Read, Standing, ReadLock
<1> QED  BY <1>1, <1>2, <1>3, <1>4, <1>5, <1>6, <1>7, <1>8 DEF Inv

LEMMA RequireReleaseStep == ASSUME Inv, NEW p \in Runs, RequireRelease(p) PROVE Inv'
<1> USE DEF files, From, Goto, Early, Extracting, Publishing, Checking, Labels, Actors
<1>0. p \in Actors  OBVIOUS
<1>1. TypeOK'  BY <1>0 DEF Inv, TypeOK, RequireRelease
<1>2. PlaceInv'  BY <1>0 DEF Inv, PlaceInv, RequireRelease
<1>3. ExtractInv'  BY <1>0 DEF Inv, ExtractInv, Member, RequireRelease
<1>4. MetadataInv'  BY <1>0 DEF Inv, MetadataInv, RequireRelease
<1>5. CheckInv'  BY <1>0 DEF Inv, CheckInv, Read, Standing, RequireRelease
<1>6. AcceptedInv'  BY <1>0 DEF Inv, AcceptedInv, Read, RequireRelease
<1>7. PublishedWhole'  BY <1>0 DEF Inv, PublishedWhole, Read, Standing, RequireRelease
<1>8. AcceptedComplete'  BY <1>0 DEF Inv, AcceptedComplete, Read, Standing, RequireRelease
<1> QED  BY <1>1, <1>2, <1>3, <1>4, <1>5, <1>6, <1>7, <1>8 DEF Inv

LEMMA RequireTagStep == ASSUME Inv, NEW p \in Runs, RequireTag(p) PROVE Inv'
<1> USE DEF files, From, Goto, Early, Extracting, Publishing, Checking, Labels, Actors
<1>0. p \in Actors  OBVIOUS
<1>1. TypeOK'  BY <1>0 DEF Inv, TypeOK, RequireTag
<1>2. PlaceInv'  BY <1>0 DEF Inv, PlaceInv, RequireTag
<1>3. ExtractInv'  BY <1>0 DEF Inv, ExtractInv, Member, RequireTag
<1>4. MetadataInv'  BY <1>0 DEF Inv, MetadataInv, RequireTag
<1>5. CheckInv'  BY <1>0 DEF Inv, CheckInv, Read, Standing, RequireTag
<1>6. AcceptedInv'  BY <1>0 DEF Inv, AcceptedInv, Read, RequireTag
<1>7. PublishedWhole'  BY <1>0 DEF Inv, PublishedWhole, Read, Standing, RequireTag
<1>8. AcceptedComplete'  BY <1>0 DEF Inv, AcceptedComplete, Read, Standing, RequireTag
<1> QED  BY <1>1, <1>2, <1>3, <1>4, <1>5, <1>6, <1>7, <1>8 DEF Inv

LEMMA DownloadStep == ASSUME Inv, NEW p \in Runs, Download(p) PROVE Inv'
<1> USE DEF files, From, Goto, Early, Extracting, Publishing, Checking, Labels, Actors
<1>0. p \in Actors  OBVIOUS
<1>1. TypeOK'  BY <1>0 DEF Inv, TypeOK, Download
<1>2. PlaceInv'  BY <1>0 DEF Inv, PlaceInv, Download
<1>3. ExtractInv'  BY <1>0 DEF Inv, ExtractInv, Member, Download
<1>4. MetadataInv'  BY <1>0 DEF Inv, MetadataInv, Download
<1>5. CheckInv'  BY <1>0 DEF Inv, CheckInv, Read, Standing, Download
<1>6. AcceptedInv'  BY <1>0 DEF Inv, AcceptedInv, Read, Download
<1>7. PublishedWhole'  BY <1>0 DEF Inv, PublishedWhole, Read, Standing, Download
<1>8. AcceptedComplete'  BY <1>0 DEF Inv, AcceptedComplete, Read, Standing, Download
<1> QED  BY <1>1, <1>2, <1>3, <1>4, <1>5, <1>6, <1>7, <1>8 DEF Inv

LEMMA CheckFreshStep == ASSUME Inv, NEW p \in Runs, CheckFresh(p) PROVE Inv'
<1> USE DEF files, From, Goto, Early, Extracting, Publishing, Checking, Labels, Actors
<1>0. p \in Actors  OBVIOUS
<1>1. TypeOK'  BY <1>0 DEF Inv, TypeOK, CheckFresh
<1>2. PlaceInv'  BY <1>0 DEF Inv, PlaceInv, CheckFresh
<1>3. ExtractInv'  BY <1>0 DEF Inv, ExtractInv, Member, CheckFresh
<1>4. MetadataInv'  BY <1>0 DEF Inv, MetadataInv, CheckFresh
<1>5. CheckInv'  BY <1>0 DEF Inv, CheckInv, Standing, CheckFresh
<1>6. AcceptedInv'  BY <1>0 DEF Inv, AcceptedInv, Read, CheckFresh
<1>7. PublishedWhole'  BY <1>0 DEF PublishedWhole, Standing, CheckFresh
<1>8. AcceptedComplete'  BY <1>0 DEF Inv, AcceptedComplete, Standing, CheckFresh
<1> QED  BY <1>1, <1>2, <1>3, <1>4, <1>5, <1>6, <1>7, <1>8 DEF Inv

LEMMA MakePartialStep == ASSUME Inv, NEW p \in Runs, MakePartial(p) PROVE Inv'
<1> USE PartyAssumption DEF From, Goto, Early, Extracting, Publishing, Checking, Labels, Actors
<1>0. p \in Actors  OBVIOUS
<1>1. TypeOK'  BY <1>0 DEF Inv, TypeOK, MakePartial
<1>2. PlaceInv'  BY <1>0 DEF Inv, TypeOK, PlaceInv, MakePartial
<1>3. ExtractInv'  BY <1>0 DEF Inv, ExtractInv, Member, MakePartial
<1>4. MetadataInv'  BY <1>0 DEF Inv, MetadataInv, MakePartial
<1>5. CheckInv'  BY <1>0 DEF Inv, CheckInv, Read, Standing, MakePartial
<1>6. AcceptedInv'  BY <1>0 DEF Inv, AcceptedInv, Read, MakePartial
<1>7. PublishedWhole'  BY <1>0 DEF Inv, PublishedWhole, Read, Standing, MakePartial
<1>8. AcceptedComplete'  BY <1>0 DEF Inv, AcceptedComplete, Read, Standing, MakePartial
<1> QED  BY <1>1, <1>2, <1>3, <1>4, <1>5, <1>6, <1>7, <1>8 DEF Inv

LEMMA OpenMemberStep == ASSUME Inv, NEW p \in Runs, OpenMember(p) PROVE Inv'
<1> USE FileAssumption, Contents DEF From, Goto, Early, Extracting, Publishing, Checking, Labels,
    Actors, Locks, Paths, Metadata, Half
<1>0. p \in Actors  OBVIOUS
<1>w. place["partial"] = p /\ Member(p).path \in Payload \cap Paths /\ Half \in Bytes  BY <1>0 DEF
     Inv, PlaceInv, OpenMember
<1>a. /\ tree' \in [Runs -> [Paths -> Bytes \cup {None}]]
         /\ \A q \in Runs : \A g \in Paths :
              tree'[q][g] = IF q = p /\ g = Member(p).path THEN Half ELSE tree[q][g]
  BY OpenMemberWrites
<1>1. TypeOK'  BY <1>0, <1>a, <1>w DEF Inv, TypeOK, OpenMember
<1>2. PlaceInv'  BY <1>0, <1>a, <1>w DEF Inv, PlaceInv, OpenMember
<1>3. ExtractInv'
  <2>1. \A q \in Runs : Member(q)' = Member(q)  BY DEF Member, OpenMember
  <2>2. pc' = [pc EXCEPT ![p] = "fill"]  BY DEF OpenMember
  <2>3. \A q \in Runs \ {p} : tree'[q] = tree[q] /\ pc'[q] = pc[q]
    BY <1>w, <2>2 DEF OpenMember, Write
  <2>4. \A f \in observed[p] : tree'[p][f] = tree[p][f]
    BY <1>a, <1>w DEF Inv, TypeOK, OpenMember
  <2> QED  BY <1>0, <1>w, <2>1, <2>2, <2>3, <2>4 DEF Inv, ExtractInv, OpenMember
<1>4. MetadataInv'  BY <1>0, <1>a, <1>w DEF Inv, MetadataInv, OpenMember
<1>5. CheckInv'  BY <1>0, <1>a, <1>w DEF Inv, TypeOK, CheckInv, Read, Standing, OpenMember
<1>6. AcceptedInv'  BY <1>0, <1>a, <1>w DEF Inv, TypeOK, AcceptedInv, AcceptedComplete, Read,
     Standing, OpenMember
<1>7. PublishedWhole'  BY <1>0, <1>a, <1>w DEF Inv, TypeOK, PublishedWhole, Read, Standing,
     OpenMember
<1>8. AcceptedComplete'  BY <1>0, <1>a, <1>w DEF Inv, TypeOK, AcceptedComplete, Read, Standing,
     OpenMember
<1> QED  BY <1>1, <1>2, <1>3, <1>4, <1>5, <1>6, <1>7, <1>8 DEF Inv

LEMMA FillMemberStep == ASSUME Inv, NEW p \in Runs, FillMember(p) PROVE Inv'
<1> USE FileAssumption, Contents DEF From, Goto, Early, Extracting, Publishing, Checking, Labels,
    Actors, Paths, Metadata
<1>0. p \in Actors  OBVIOUS
<1>w. place["partial"] = p /\ Member(p).path \in Payload \cap Paths /\ Of(used[p]) \in Bytes  BY
     <1>0 DEF Inv, TypeOK, PlaceInv, ExtractInv, FillMember
<1>a. /\ tree' \in [Runs -> [Paths -> Bytes \cup {None}]]
         /\ \A q \in Runs : \A g \in Paths :
              tree'[q][g] = IF q = p /\ g = Member(p).path THEN Of(used[p]) ELSE tree[q][g]
  BY FillMemberWrites
<1>1. TypeOK'
  <2>1. observed' \in [Runs -> SUBSET Payload]  BY <1>w DEF Inv, TypeOK, FillMember
  <2> QED  BY <1>0, <1>a, <1>w, <2>1 DEF Inv, TypeOK, FillMember
<1>2. PlaceInv'  BY <1>0, <1>a, <1>w DEF Inv, PlaceInv, FillMember
<1>3. ExtractInv'  BY <1>0, <1>a, <1>w DEF Inv, TypeOK, PlaceInv, ExtractInv, FillMember
<1>4. MetadataInv'  BY <1>0, <1>a, <1>w DEF Inv, MetadataInv, FillMember
<1>5. CheckInv'  BY <1>0, <1>a, <1>w DEF Inv, TypeOK, PlaceInv, CheckInv, Read, Standing, FillMember
<1>6. AcceptedInv'  BY <1>0, <1>a, <1>w DEF Inv, TypeOK, AcceptedInv, AcceptedComplete, Read,
     Standing, FillMember
<1>7. PublishedWhole'
  <2>1. place' = place /\ (Standing => place["destination"] \in Runs \ {p})
    BY <1>0, <1>a DEF Inv, TypeOK, PlaceInv, Standing, FillMember
  <2>2. Standing => \A f \in Payload : tree'[place["destination"]][f] = tree[place["destination"]][f]
    BY <2>1, <1>a
  <2>3. PublishedWhole  BY DEF Inv
  <2> HIDE DEF files, Inv
  <2> QED  BY <2>1, <2>2, <2>3 DEF PublishedWhole, Read, Standing
<1>8. AcceptedComplete'  BY <1>0, <1>a, <1>w DEF Inv, TypeOK, PlaceInv, AcceptedComplete, Read,
     Standing, FillMember
<1> QED  BY <1>1, <1>2, <1>3, <1>4, <1>5, <1>6, <1>7, <1>8 DEF Inv

LEMMA EndOfArchiveStep == ASSUME Inv, NEW p \in Runs, EndOfArchive(p) PROVE Inv'
<1> USE DEF files, From, Goto, Early, Extracting, Publishing, Checking, Labels, Actors
<1>0. p \in Actors  OBVIOUS
<1>1. TypeOK'  BY <1>0 DEF Inv, TypeOK, EndOfArchive
<1>2. PlaceInv'  BY <1>0 DEF Inv, PlaceInv, EndOfArchive
<1>3. ExtractInv'  BY <1>0 DEF Inv, ExtractInv, Member, EndOfArchive
<1>4. MetadataInv'  BY <1>0 DEF Inv, MetadataInv, EndOfArchive
<1>5. CheckInv'  BY <1>0 DEF Inv, CheckInv, Read, Standing, EndOfArchive
<1>6. AcceptedInv'  BY <1>0 DEF Inv, AcceptedInv, Read, EndOfArchive
<1>7. PublishedWhole'  BY <1>0 DEF Inv, PublishedWhole, Read, Standing, EndOfArchive
<1>8. AcceptedComplete'  BY <1>0 DEF Inv, AcceptedComplete, Read, Standing, EndOfArchive
<1> QED  BY <1>1, <1>2, <1>3, <1>4, <1>5, <1>6, <1>7, <1>8 DEF Inv

LEMMA ReplaceStep == ASSUME Inv, NEW p \in Runs, Replace(p) PROVE Inv'
<1> USE PartyAssumption DEF From, Goto, Early, Extracting, Publishing, Labels, Actors
<1>0. p \in Actors  OBVIOUS
<1>1. TypeOK'
  <2>1. place["partial"] \in Runs /\ place["partial"] = p  BY DEF Inv, PlaceInv, Replace
  <2>2. place' \in [{"destination", "partial"} -> Runs \cup {None}]
    <3>1. DOMAIN place' = {"destination", "partial"} /\ place' = [w \in {"destination", "partial"} |-> IF w = "destination" THEN p ELSE None]
      BY <2>1 DEF Replace
    <3> QED  BY <3>1
  <2> QED  BY <1>0, <2>1, <2>2 DEF Inv, TypeOK, Replace
<1>2. PlaceInv'  BY <1>0 DEF Inv, TypeOK, PlaceInv, Replace
<1>3. ExtractInv'  BY <1>0 DEF Inv, ExtractInv, Member, Replace
<1>4. MetadataInv'  BY <1>0 DEF Inv, MetadataInv, Replace
<1>5. CheckInv'  BY <1>0 DEF Inv, CheckInv, Standing, Replace
<1>6. AcceptedInv'  BY <1>0 DEF Inv, AcceptedInv, AcceptedComplete, Standing, Replace
<1>7. PublishedWhole'  BY <1>0 DEF Inv, TypeOK, PlaceInv, ExtractInv, PublishedWhole, Read, Replace
<1>8. AcceptedComplete'  BY <1>0 DEF Inv, AcceptedComplete, Standing, Replace
<1> QED  BY <1>1, <1>2, <1>3, <1>4, <1>5, <1>6, <1>7, <1>8 DEF Inv

LEMMA CopyManifestStep == ASSUME Inv, NEW p \in Runs, CopyManifest(p) PROVE Inv'
<1> USE Contents DEF From, Goto, Early, Extracting, Publishing, Labels, Actors, Locks, Paths,
    Metadata, Half
<1>0. p \in Actors  OBVIOUS
<1>z. place["destination"] = p  BY DEF Inv, PlaceInv, CopyManifest
<1>1. CASE From(p, "manifest", "copying") /\ Write("destination", "manifest", Half)
  <2>0. Half \in Bytes  BY <1>0
  <2>a. /\ tree' \in [Runs -> [Paths -> Bytes \cup {None}]]
        /\ \A q \in Runs : \A g \in Paths :
             tree'[q][g] = IF q = p /\ g = "manifest" THEN Half ELSE tree[q][g]
    <3>1. pc[p] \in Publishing  BY <1>1
    <3> QED  BY ONLY Inv, p \in Runs, MetadataWrites, <1>1, <2>0, <3>1 DEF Metadata
  <2>b. UNCHANGED <<lock, archive, remote, place, used, observed, todo, accepted>>  BY DEF CopyManifest
  <2>1. TypeOK'  BY <1>0, <1>z, <1>1, <2>0, <2>a, <2>b DEF Inv, TypeOK
  <2>2. PlaceInv'  BY <1>0, <1>z, <1>1, <2>0, <2>a, <2>b DEF Inv, PlaceInv
  <2>3. ExtractInv'  BY <1>0, <1>z, <1>1, <2>0, <2>a, <2>b DEF Inv, TypeOK, ExtractInv, Member
  <2>4. MetadataInv'  BY <1>0, <1>z, <1>1, <2>0, <2>a, <2>b DEF Inv, MetadataInv
  <2>5. CheckInv'  BY <1>0, <1>z, <1>1, <2>0, <2>a, <2>b DEF Inv, TypeOK, MetadataInv, CheckInv,
       Read
  <2>6. AcceptedInv'  BY <1>0, <1>z, <1>1, <2>0, <2>a, <2>b DEF Inv, AcceptedInv, Read
  <2>7. PublishedWhole'
    <3>1. \A f \in Payload : tree'[p][f] = tree[p][f]  BY <2>a, FileAssumption DEF Paths, Metadata
    <3>2. place' = place /\ place["destination"] = p  BY <1>z, <2>b
    <3>3. PublishedWhole  BY DEF Inv
    <3> QED  BY ONLY <3>1, <3>2, <3>3 DEF PublishedWhole, Read, Standing
  <2>8. AcceptedComplete'  BY <1>0, <1>z, <1>1, <2>0, <2>a, <2>b DEF Inv, TypeOK, MetadataInv,
       AcceptedComplete, Read
  <2> QED  BY <2>1, <2>2, <2>3, <2>4, <2>5, <2>6, <2>7, <2>8 DEF Inv
<1>2. CASE From(p, "copying", "receipt") /\ Write("destination", "manifest", Of(used[p]))
  <2>0. Of(used[p]) \in Bytes  BY <1>0 DEF Inv, TypeOK
  <2>a. /\ tree' \in [Runs -> [Paths -> Bytes \cup {None}]]
        /\ \A q \in Runs : \A g \in Paths :
             tree'[q][g] = IF q = p /\ g = "manifest" THEN Of(used[p]) ELSE tree[q][g]
    <3>1. pc[p] \in Publishing  BY <1>2
    <3> QED  BY ONLY Inv, p \in Runs, MetadataWrites, <1>2, <2>0, <3>1 DEF Metadata
  <2>b. UNCHANGED <<lock, archive, remote, place, used, observed, todo, accepted>>  BY DEF CopyManifest
  <2>1. TypeOK'  BY <1>0, <1>z, <1>2, <2>0, <2>a, <2>b DEF Inv, TypeOK
  <2>2. PlaceInv'  BY <1>0, <1>z, <1>2, <2>0, <2>a, <2>b DEF Inv, PlaceInv
  <2>3. ExtractInv'  BY <1>0, <1>z, <1>2, <2>0, <2>a, <2>b DEF Inv, TypeOK, ExtractInv, Member
  <2>4. MetadataInv'  BY <1>0, <1>z, <1>2, <2>0, <2>a, <2>b DEF Inv, TypeOK, MetadataInv
  <2>5. CheckInv'  BY <1>0, <1>z, <1>2, <2>0, <2>a, <2>b DEF Inv, TypeOK, MetadataInv, CheckInv,
       Read
  <2>6. AcceptedInv'  BY <1>0, <1>z, <1>2, <2>0, <2>a, <2>b DEF Inv, AcceptedInv, Read
  <2>7. PublishedWhole'
    <3>1. \A f \in Payload : tree'[p][f] = tree[p][f]  BY <2>a, FileAssumption DEF Paths, Metadata
    <3>2. place' = place /\ place["destination"] = p  BY <1>z, <2>b
    <3>3. PublishedWhole  BY DEF Inv
    <3> QED  BY ONLY <3>1, <3>2, <3>3 DEF PublishedWhole, Read, Standing
  <2>8. AcceptedComplete'  BY <1>0, <1>z, <1>2, <2>0, <2>a, <2>b DEF Inv, TypeOK, MetadataInv,
       AcceptedComplete, Read
  <2> QED  BY <2>1, <2>2, <2>3, <2>4, <2>5, <2>6, <2>7, <2>8 DEF Inv
<1> QED  BY <1>1, <1>2 DEF CopyManifest

LEMMA ReceiptOpens ==
  ASSUME Inv, NEW p \in Runs, pc[p] = "receipt", Write("destination", "receipt", Half)
  PROVE  /\ tree' \in [Runs -> [Paths -> Bytes \cup {None}]]
         /\ \A q \in Runs : \A g \in Paths :
              tree'[q][g] = IF q = p /\ g = "receipt" THEN Half ELSE tree[q][g]
<1>1. pc[p] \in Publishing /\ "receipt" \in Metadata  BY DEF Publishing, Metadata
<1>2. Half \in Bytes  BY Contents DEF Half
<1> QED  BY <1>1, <1>2, MetadataWrites

LEMMA WriteReceiptStep == ASSUME Inv, NEW p \in Runs, WriteReceipt(p) PROVE Inv'
<1> USE Contents DEF From, Goto, Early, Extracting, Publishing, Checking, Labels, Actors, Locks,
    Paths, Metadata, Half
<1>0. p \in Actors  OBVIOUS
<1>z. place["destination"] = p  BY DEF Inv, PlaceInv, WriteReceipt
<1>1. CASE From(p, "receipt", "writing") /\ Write("destination", "receipt", Half)
  <2>0. Half \in Bytes  BY <1>0
  <2>a. /\ tree' \in [Runs -> [Paths -> Bytes \cup {None}]]
        /\ \A q \in Runs : \A g \in Paths :
             tree'[q][g] = IF q = p /\ g = "receipt" THEN Half ELSE tree[q][g]
    BY ReceiptOpens, <1>1
  <2>b. UNCHANGED <<lock, archive, remote, place, used, observed, todo, accepted>>  BY DEF WriteReceipt
  <2>1. TypeOK'  BY <1>0, <1>z, <1>1, <2>0, <2>a, <2>b DEF Inv, TypeOK
  <2>2. PlaceInv'  BY <1>0, <1>z, <1>1, <2>0, <2>a, <2>b DEF Inv, PlaceInv
  <2>3. ExtractInv'  BY <1>0, <1>z, <1>1, <2>0, <2>a, <2>b DEF Inv, TypeOK, ExtractInv, Member
  <2>4. MetadataInv'  BY <1>0, <1>z, <1>1, <2>0, <2>a, <2>b DEF Inv, MetadataInv
  <2>5. CheckInv'  BY <1>0, <1>z, <1>1, <2>0, <2>a, <2>b DEF Inv, MetadataInv, CheckInv, Read,
       Standing
  <2>6. AcceptedInv'  BY <1>0, <1>z, <1>1, <2>0, <2>a, <2>b DEF AcceptedInv, Read
  <2>7. PublishedWhole'
    <3>1. \A f \in Payload : tree'[p][f] = tree[p][f]  BY <2>a, FileAssumption DEF Paths, Metadata
    <3>2. place' = place /\ place["destination"] = p  BY <1>z, <2>b
    <3>3. PublishedWhole  BY DEF Inv
    <3> QED  BY ONLY <3>1, <3>2, <3>3 DEF PublishedWhole, Read, Standing
  <2>8. AcceptedComplete'  BY <1>0, <1>z, <1>1, <2>0, <2>a, <2>b DEF Inv, MetadataInv, AcceptedInv,
       AcceptedComplete, Read, Standing
  <2> QED  BY <2>1, <2>2, <2>3, <2>4, <2>5, <2>6, <2>7, <2>8 DEF Inv
<1>2. CASE From(p, "writing", "check") /\ Write("destination", "receipt", Receipt(p))
  <2>0. Receipt(p) \in Bytes  BY <1>0 DEF Inv, TypeOK, Receipt, Bytes
  <2>a. /\ tree' \in [Runs -> [Paths -> Bytes \cup {None}]]
        /\ \A q \in Runs : \A g \in Paths :
             tree'[q][g] = IF q = p /\ g = "receipt" THEN Receipt(p) ELSE tree[q][g]
    <3>1. pc[p] \in Publishing  BY <1>2
    <3> QED  BY ONLY Inv, p \in Runs, MetadataWrites, <1>2, <2>0, <3>1 DEF Metadata
  <2>b. UNCHANGED <<lock, archive, remote, place, used, observed, todo, accepted>>  BY DEF WriteReceipt
  <2>1. TypeOK'  BY <1>0, <1>z, <1>2, <2>0, <2>a, <2>b DEF Inv, TypeOK
  <2>2. PlaceInv'  BY <1>0, <1>z, <1>2, <2>0, <2>a, <2>b DEF Inv, PlaceInv
  <2>3. ExtractInv'  BY <1>0, <1>z, <1>2, <2>0, <2>a, <2>b DEF Inv, TypeOK, ExtractInv, Member
  <2>4. MetadataInv'  BY <1>0, <1>z, <1>2, <2>0, <2>a, <2>b DEF Inv, TypeOK, MetadataInv, Receipt
  <2>5. CheckInv'
    <3>1. Read("receipt") \in {None, Half}  BY <1>z, <1>2 DEF Inv, MetadataInv, Read
    <3>2. \A a \in Actors : pc[a] \notin {"list", "measure"}
      BY <3>1 DEF Inv, TypeOK, CheckInv, Of
    <3>3. \A a \in Actors : pc'[a] \in {"compare", "list", "measure"} => pc[a] = "compare" /\ pc'[a] = "compare"
      BY <1>0, <1>2, <3>2 DEF Inv, TypeOK
    <3>4. Read("manifest")' = Read("manifest")  BY <1>z, <2>a, <2>b DEF Read
    <3> QED  BY <2>b, <3>3, <3>4 DEF Inv, CheckInv, Standing
  <2>6. AcceptedInv'  BY <1>0, <1>z, <1>2, <2>0, <2>a, <2>b DEF AcceptedInv, Read
  <2>7. PublishedWhole'
    <3>1. \A f \in Payload : tree'[p][f] = tree[p][f]  BY <2>a, FileAssumption DEF Paths, Metadata
    <3>2. place' = place /\ place["destination"] = p  BY <1>z, <2>b
    <3>3. PublishedWhole  BY DEF Inv
    <3> QED  BY ONLY <3>1, <3>2, <3>3 DEF PublishedWhole, Read, Standing
  <2>8. AcceptedComplete'  BY <1>0, <1>z, <1>2, <2>0, <2>a, <2>b DEF Inv, TypeOK, MetadataInv,
       AcceptedInv, AcceptedComplete, Read, Of
  <2> QED  BY <2>1, <2>2, <2>3, <2>4, <2>5, <2>6, <2>7, <2>8 DEF Inv
<1> QED  BY <1>1, <1>2 DEF WriteReceipt

LEMMA RemovePartialStep == ASSUME Inv, NEW p \in Runs, RemovePartial(p) PROVE Inv'
<1> USE PartyAssumption, FileAssumption DEF From, Goto, Early, Extracting, Publishing, Checking,
    Labels, Actors, Locks
<1>0. p \in Actors  OBVIOUS
<1>z. place["partial"] = p  BY DEF Inv, PlaceInv, RemovePartial
<1>a. /\ tree' \in [Runs -> [Paths -> Bytes \cup {None}]]
      /\ \A q \in Runs \ {p} : tree'[q] = tree[q]
  <2>1. CASE UNCHANGED tree  BY <2>1 DEF Inv, TypeOK
  <2>2. ASSUME NEW left \in SUBSET Paths,
               tree' = [tree EXCEPT ![p] = [f \in Paths |-> IF f \in left THEN @[f] ELSE None]]
        PROVE tree' \in [Runs -> [Paths -> Bytes \cup {None}]] /\ \A q \in Runs \ {p} : tree'[q] = tree[q]
    BY <2>2 DEF Inv, TypeOK
  <2> QED  BY <1>z, <2>1, <2>2 DEF RemovePartial
<1>1. TypeOK'
  <2>1. place' \in [{"destination", "partial"} -> Runs \cup {None}]  BY DEF Inv, TypeOK, RemovePartial
  <2> QED  BY <1>0, <1>a, <2>1 DEF Inv, TypeOK, RemovePartial
<1>2. PlaceInv'  BY <1>0, <1>a, <1>z DEF Inv, TypeOK, PlaceInv, RemovePartial
<1>3. ExtractInv'  BY <1>0, <1>a, <1>z DEF Inv, ExtractInv, Member, RemovePartial
<1>4. MetadataInv'  BY <1>0, <1>a, <1>z DEF Inv, MetadataInv, RemovePartial
<1>5. CheckInv'  BY <1>0, <1>a, <1>z DEF Inv, TypeOK, PlaceInv, CheckInv, Read, Standing,
     RemovePartial
<1>6. AcceptedInv'  BY <1>0, <1>a, <1>z DEF Inv, TypeOK, PlaceInv, AcceptedInv, AcceptedComplete,
     Read, Standing, RemovePartial
<1>7. PublishedWhole'  BY <1>0, <1>a, <1>z DEF Inv, TypeOK, PlaceInv, PublishedWhole, Read,
     Standing, RemovePartial
<1>8. AcceptedComplete'  BY <1>0, <1>a, <1>z DEF Inv, TypeOK, PlaceInv, AcceptedComplete, Read,
     Standing, RemovePartial
<1> QED  BY <1>1, <1>2, <1>3, <1>4, <1>5, <1>6, <1>7, <1>8 DEF Inv

LEMMA CheckManifestStep == ASSUME Inv, NEW a \in Actors, CheckManifest(a) PROVE Inv'
<1> USE DEF files, From, Goto, Early, Extracting, Checking, Labels, Locks
<1>0. a \in Actors  OBVIOUS
<1>1. TypeOK'  BY <1>0 DEF Inv, TypeOK, CheckManifest
<1>2. PlaceInv'  BY <1>0 DEF Inv, PlaceInv, CheckManifest
<1>3. ExtractInv'  BY <1>0 DEF Inv, ExtractInv, Member, CheckManifest
<1>4. MetadataInv'  BY <1>0 DEF Inv, TypeOK, MetadataInv, CheckManifest
<1>5. CheckInv'  BY <1>0 DEF Inv, TypeOK, CheckInv, Read, Standing, CheckManifest
<1>6. AcceptedInv'  BY <1>0 DEF Inv, AcceptedInv, Read, CheckManifest
<1>7. PublishedWhole'  BY <1>0 DEF Inv, PublishedWhole, Read, CheckManifest
<1>8. AcceptedComplete'  BY <1>0 DEF Inv, AcceptedComplete, Read, Standing, CheckManifest
<1> QED  BY <1>1, <1>2, <1>3, <1>4, <1>5, <1>6, <1>7, <1>8 DEF Inv

LEMMA CompareReceiptStep == ASSUME Inv, NEW a \in Actors, CompareReceipt(a) PROVE Inv'
<1> USE DEF files, From, Goto, Early, Extracting, Checking, Labels, Locks
<1>0. a \in Actors  OBVIOUS
<1>1. TypeOK'  BY <1>0 DEF Inv, TypeOK, CompareReceipt
<1>2. PlaceInv'  BY <1>0 DEF Inv, PlaceInv, CompareReceipt
<1>3. ExtractInv'  BY <1>0 DEF Inv, ExtractInv, Member, CompareReceipt
<1>4. MetadataInv'  BY <1>0 DEF Inv, MetadataInv, CompareReceipt
<1>5. CheckInv'
  <2>1. used[a] \in Locks /\ lock \in Locks /\ used[a] <= lock  BY <1>0 DEF Inv, TypeOK, CheckInv
  <2>2. Read("receipt") = Receipt(a) /\ Receipt(a) \in Bytes  BY <2>1 DEF CompareReceipt, Receipt, Bytes
  <2>3. a \in Runs => place["destination"] = a  BY DEF Inv, PlaceInv, CompareReceipt
  <2>4. a \in Runs => Read("receipt").digest <= used[a]  BY <2>3 DEF Inv, MetadataInv, CompareReceipt, Read
  <2>5. a \in Runs => Read("receipt").digest = used[a]  BY <2>1, <2>2, <2>4 DEF Receipt
  <2>6. Read("receipt").fields = used[a]  BY <2>2 DEF Receipt
  <2> QED  BY <1>0, <2>2, <2>5, <2>6 DEF Inv, CheckInv, Read, Standing, CompareReceipt
<1>6. AcceptedInv'  BY <1>0 DEF Inv, AcceptedInv, Read, CompareReceipt
<1>7. PublishedWhole'  BY <1>0 DEF Inv, PublishedWhole, Read, CompareReceipt
<1>8. AcceptedComplete'  BY <1>0 DEF Inv, AcceptedComplete, Read, Standing, CompareReceipt
<1> QED  BY <1>1, <1>2, <1>3, <1>4, <1>5, <1>6, <1>7, <1>8 DEF Inv

LEMMA ListStep == ASSUME Inv, NEW a \in Actors, List(a) PROVE Inv'
<1> USE DEF files, From, Goto, Early, Extracting, Checking, Labels, Paths
<1>0. a \in Actors  OBVIOUS
<1>1. TypeOK'  BY <1>0 DEF Inv, TypeOK, List
<1>2. PlaceInv'  BY <1>0 DEF Inv, PlaceInv, List
<1>3. ExtractInv'  BY <1>0 DEF Inv, ExtractInv, Member, List
<1>4. MetadataInv'  BY <1>0 DEF Inv, MetadataInv, List
<1>5. CheckInv'  BY <1>0 DEF Inv, TypeOK, CheckInv, Read, Standing, List
<1>6. AcceptedInv'  BY <1>0 DEF Inv, AcceptedInv, Read, List
<1>7. PublishedWhole'  BY <1>0 DEF Inv, PublishedWhole, Read, List
<1>8. AcceptedComplete'  BY <1>0 DEF Inv, AcceptedComplete, Read, Standing, List
<1> QED  BY <1>1, <1>2, <1>3, <1>4, <1>5, <1>6, <1>7, <1>8 DEF Inv

LEMMA MeasureStep == ASSUME Inv, NEW a \in Actors, Measure(a) PROVE Inv'
<1> USE DEF files, Actors, Paths, Metadata
<1>0. a \in Actors  OBVIOUS
<1>1. TypeOK'
  <2>1. PICK f \in todo[a] : todo' = [todo EXCEPT ![a] = @ \ {f}]  BY DEF Measure
  <2>2. todo' \in [Runs \cup Verifiers -> SUBSET (Payload \cup {"manifest", "receipt"})]  BY <2>1,
       <1>0 DEF Inv, TypeOK
  <2> QED  BY <2>2, <1>0 DEF Inv, TypeOK, Measure
<1>2. PlaceInv'  BY <1>0 DEF Inv, PlaceInv, Measure
<1>3. ExtractInv'  BY <1>0 DEF Inv, ExtractInv, Member, Measure
<1>4. MetadataInv'  BY <1>0 DEF Inv, MetadataInv, Measure
<1>5. CheckInv'  BY <1>0 DEF Inv, CheckInv, Read, Standing, Measure
<1>6. AcceptedInv'  BY <1>0 DEF Inv, AcceptedInv, Read, Measure
<1>7. PublishedWhole'  BY <1>0 DEF Inv, PublishedWhole, Read, Measure
<1>8. AcceptedComplete'  BY <1>0 DEF Inv, AcceptedComplete, Read, Standing, Measure
<1> QED  BY <1>1, <1>2, <1>3, <1>4, <1>5, <1>6, <1>7, <1>8 DEF Inv

LEMMA AcceptStep == ASSUME Inv, NEW a \in Actors, Accept(a) PROVE Inv'
<1> USE DEF files, From, Goto, Early, Extracting, Checking, Labels
<1>0. a \in Actors  OBVIOUS
<1>1. TypeOK'  BY <1>0 DEF Inv, TypeOK, Accept
<1>2. PlaceInv'  BY <1>0 DEF Inv, PlaceInv, Accept
<1>3. ExtractInv'  BY <1>0 DEF Inv, ExtractInv, Member, Accept
<1>4. MetadataInv'  BY <1>0 DEF Inv, MetadataInv, Accept
<1>5. CheckInv'  BY <1>0 DEF Inv, CheckInv, Read, Standing, Accept
<1>6. AcceptedInv'  BY <1>0 DEF Inv, CheckInv, AcceptedInv, Read, Accept
<1>7. PublishedWhole'  BY <1>0 DEF Inv, PublishedWhole, Read, Standing, Accept
<1>8. AcceptedComplete'  BY <1>0 DEF Inv, CheckInv, AcceptedComplete, Read, Standing, Accept
<1> QED  BY <1>1, <1>2, <1>3, <1>4, <1>5, <1>6, <1>7, <1>8 DEF Inv

LEMMA FailStep == ASSUME Inv, NEW a \in Actors, Fail(a) PROVE Inv'
<1> USE DEF files, Goto, Early, Extracting, Publishing, Checking, Labels
<1>0. a \in Actors  OBVIOUS
<1>1. TypeOK'  BY <1>0 DEF Inv, TypeOK, Fail
<1>2. PlaceInv'  BY <1>0 DEF Inv, PlaceInv, Fail
<1>3. ExtractInv'  BY <1>0 DEF Inv, ExtractInv, Member, Fail
<1>4. MetadataInv'  BY <1>0 DEF Inv, MetadataInv, Fail
<1>5. CheckInv'  BY <1>0 DEF Inv, CheckInv, Read, Standing, Fail
<1>6. AcceptedInv'  BY <1>0 DEF Inv, AcceptedInv, Read, Fail
<1>7. PublishedWhole'  BY <1>0 DEF Inv, PublishedWhole, Read, Standing, Fail
<1>8. AcceptedComplete'  BY <1>0 DEF Inv, AcceptedComplete, Read, Standing, Fail
<1> QED  BY <1>1, <1>2, <1>3, <1>4, <1>5, <1>6, <1>7, <1>8 DEF Inv

LEMMA StopStep == ASSUME Inv, NEW a \in Actors, Stop(a) PROVE Inv'
<1> USE DEF files, Goto, Early, Extracting, Publishing, Checking, Labels
<1>0. a \in Actors  OBVIOUS
<1>1. TypeOK'  BY <1>0 DEF Inv, TypeOK, Stop
<1>2. PlaceInv'  BY <1>0 DEF Inv, PlaceInv, Stop
<1>3. ExtractInv'  BY <1>0 DEF Inv, ExtractInv, Member, Stop
<1>4. MetadataInv'  BY <1>0 DEF Inv, MetadataInv, Stop
<1>5. CheckInv'  BY <1>0 DEF Inv, CheckInv, Read, Standing, Stop
<1>6. AcceptedInv'  BY <1>0 DEF Inv, AcceptedInv, Read, Stop
<1>7. PublishedWhole'  BY <1>0 DEF Inv, PublishedWhole, Read, Standing, Stop
<1>8. AcceptedComplete'  BY <1>0 DEF Inv, AcceptedComplete, Read, Standing, Stop
<1> QED  BY <1>1, <1>2, <1>3, <1>4, <1>5, <1>6, <1>7, <1>8 DEF Inv

LEMMA RelockStep == ASSUME Inv, Relock PROVE Inv'
<1> USE DEF files, process, Locks
<1>0. TypeOK'  BY FileAssumption DEF Inv, TypeOK, Relock
<1>1. PlaceInv' /\ ExtractInv' /\ AcceptedInv' /\ PublishedWhole' /\ AcceptedComplete'
  BY DEF Inv, PlaceInv, ExtractInv, AcceptedInv, PublishedWhole, AcceptedComplete, Read,
         Standing, Member, Relock
<1>2. MetadataInv'
  <2>1. \A b \in Bytes : b.digest <= lock => b.digest <= lock'
    BY Contents, FileAssumption DEF Inv, TypeOK, Relock
  <2> QED  BY <2>1 DEF Inv, MetadataInv, Relock
<1>3. CheckInv'
  <2>1. \A a \in Actors : used[a] <= lock'  BY FileAssumption DEF Inv, TypeOK, CheckInv, Relock
  <2> QED  BY <2>1 DEF Inv, CheckInv, Read, Standing, Relock
<1> QED  BY <1>0, <1>1, <1>2, <1>3 DEF Inv

LEMMA IdleStep == ASSUME Inv, (\E fact \in Facts : Withdraw(fact)) \/ UNCHANGED vars PROVE Inv'
<1> USE DEF files, process, vars
<1>1. TypeOK'  BY DEF Inv, TypeOK, Withdraw
<1>2. PlaceInv' /\ ExtractInv' /\ MetadataInv' /\ CheckInv' /\ AcceptedInv' /\ PublishedWhole' /\ AcceptedComplete'
  BY DEF Inv, PlaceInv, ExtractInv, MetadataInv, CheckInv, AcceptedInv, PublishedWhole,
         AcceptedComplete, Read, Standing, Member, Withdraw
<1> QED  BY <1>1, <1>2 DEF Inv

LEMMA InitInv == ASSUME Init PROVE Inv
<1> USE PartyAssumption, FileAssumption DEF Init, EmptyTree, Extracting, Publishing, Checking,
    Labels, Actors, Locks, Paths, Metadata
<1>1. TypeOK  BY DEF TypeOK
<1>2. PlaceInv /\ ExtractInv /\ MetadataInv /\ CheckInv  BY DEF PlaceInv, ExtractInv, MetadataInv, CheckInv
<1>3. AcceptedInv /\ PublishedWhole /\ AcceptedComplete
  BY DEF AcceptedInv, PublishedWhole, AcceptedComplete, Standing
<1> QED  BY <1>1, <1>2, <1>3 DEF Inv

LEMMA NextInv == ASSUME Inv, [Next]_vars PROVE Inv'
<1>1. ASSUME NEW p \in Runs, RunStep(p) \/ RemovePartial(p) PROVE Inv'
  BY <1>1, ReadLockStep, RequireReleaseStep, RequireTagStep, DownloadStep, CheckFreshStep,
     MakePartialStep, OpenMemberStep, FillMemberStep, EndOfArchiveStep, ReplaceStep,
     CopyManifestStep, WriteReceiptStep, RemovePartialStep DEF RunStep
<1>2. ASSUME NEW a \in Actors, Verify(a) \/ Fail(a) \/ Stop(a) PROVE Inv'
  BY <1>2, CheckManifestStep, CompareReceiptStep, ListStep, MeasureStep, AcceptStep, FailStep,
     StopStep DEF Verify
<1> QED  BY <1>1, <1>2, RelockStep, IdleStep DEF Next

THEOREM Inductive == Spec => []Inv
BY InitInv, NextInv, PTL DEF Spec

\* The state space is as declared.
THEOREM Typing == Spec => []TypeOK
BY Inductive, PTL DEF Inv

\* safe_extract: for any files, archives, runs and failures, a destination
\* that stands has the whole payload of one locked release.
THEOREM Publication == Spec => []PublishedWhole
BY Inductive, PTL DEF Inv

\* verify_extracted: whoever accepts a directory accepted a complete one, and
\* a run one that is bound to a single version of the lock file.
THEOREM Acceptance == Spec => []AcceptedComplete
BY Inductive, PTL DEF Inv

LEMMA OwnStep ==
  ASSUME Inv, NEW p \in Runs, RunStep(p) \/ RemovePartial(p)
  PROVE  /\ \A q \in Runs \ {p} : tree'[q] = tree[q]
         /\ \A w \in DOMAIN place : place[w] \notin {p, None} => place'[w] = place[w]
<1> USE DEF Inv, TypeOK, PlaceInv, From, files, Extracting, Publishing, Write
<1>1. CASE ReadLock(p) \/ RequireRelease(p) \/ RequireTag(p) \/ Download(p) \/ CheckFresh(p) \/ EndOfArchive(p)
  BY <1>1 DEF ReadLock, RequireRelease, RequireTag, Download, CheckFresh, EndOfArchive
<1>2. CASE MakePartial(p)  BY <1>2 DEF MakePartial
<1>3. CASE OpenMember(p) \/ FillMember(p)  BY <1>3 DEF OpenMember, FillMember
<1>4. CASE Replace(p)  BY <1>4 DEF Replace
<1>5. CASE CopyManifest(p) \/ WriteReceipt(p)  BY <1>5 DEF CopyManifest, WriteReceipt
<1>6. CASE RemovePartial(p)  BY <1>6 DEF RemovePartial
<1> QED  BY <1>1, <1>2, <1>3, <1>4, <1>5, <1>6 DEF RunStep

\* A run neither writes nor removes what another run made, whatever fails.
THEOREM Ownership == Spec => OwnDirectoryOnly
<1>1. Inv /\ [Next]_vars => [\A p \in Runs : RunStep(p) \/ RemovePartial(p) =>
        /\ \A q \in Runs \ {p} : tree'[q] = tree[q]
        /\ \A w \in DOMAIN place : place[w] \notin {p, None} => place'[w] = place[w]]_vars
  BY OwnStep
<1> QED  BY <1>1, Inductive, PTL DEF Spec, OwnDirectoryOnly
-----------------------------------------------------------------------------
(* RuntimeInspection *)

Looked == {"hash", "recheck", "settle", "grant", "verify", "undo"}
HasOpen(f) == doing \in Looked \/ (doing = "open" /\ f \notin pending)

\* What a descriptor saw on opening lies in the past of its file.
HeldInv ==
  \A f \in Files : HasOpen(f) =>
    /\ held[f] # Nothing
    /\ held[f].gen <= gen[f] /\ held[f].tick <= Open(f).tick

\* A file that has not changed since it was opened is as it was measured.
HashInv ==
  kind = "frozen" => \A f \in Files :
    /\ doing \in {"recheck", "settle"} \/ (doing = "hash" /\ f \notin pending)
    /\ Open(f).tick = held[f].tick
    => Open(f).body = "good" /\ Open(f).mode \in SignedMode(f)

Outdated(f) == held[f].gen < gen[f] \/ held[f].tick < Open(f).tick

\* If the closure was not as signed, something the last look has yet to
\* compare is out of date for good.
LastLookInv ==
  /\ doing = "settle" /\ ~whole => dir.moved \/ \E f \in pending : Outdated(f)
  /\ doing \in {"grant", "verify", "undo"} => kind = "restore"
  /\ doing = "settle" => kind = "frozen"
  /\ doing # "idle" => result = "none"

\* What a restoration has done to a file that others left alone.
RestoreInv ==
  /\ doing \in {"list", "open", "hash", "recheck"} => changed = Empty
  /\ doing = "grant" => pending \subseteq Native /\ \A f \in pending : changed[f] = Nothing
  /\ \A f \in Files : changed[f] # Nothing => f \in Native
  /\ \A f \in Files : doing # "idle" /\ changed[f] # Nothing => held[f] # Nothing
  /\ kind = "restore" => \A f \in Files \ touched :
       /\ HasOpen(f) => held[f].gen = gen[f]
       /\ doing # "idle" /\ changed[f] = Nothing => Named(f).mode = before[f]
       /\ doing # "idle" /\ changed[f] # Nothing => changed[f] = before[f]
       /\ doing = "verify" /\ f \notin pending => Named(f).mode \in SignedMode(f) /\ Named(f).body = "good"

InspectInv == InspectTypeOK /\ HeldInv /\ HashInv /\ LastLookInv /\ RestoreInv /\ FrozenSnapshot /\ RestoreAllOrNothing
-----------------------------------------------------------------------------
LEMMA NamedTyped == ASSUME InspectTypeOK PROVE [f \in Files |-> Named(f).mode] \in [Files -> Modes]
<1>1. ASSUME NEW f \in Files PROVE Named(f).mode \in Modes
  <2>1. node[f][gen[f]] \in [body : Bodies, mode : Modes, tick : Nat]  BY DEF InspectTypeOK
  <2> QED  BY <2>1 DEF Named
<1> QED  BY <1>1

LEMMA BeginStep == ASSUME InspectInv, NEW k \in Wanted, Begin(k) PROVE InspectInv'
<1>b. before' \in [Files -> Modes]  BY NamedTyped DEF InspectInv, Begin
<1> USE BoundAssumption DEF fs, Steps, Empty
<1>1. InspectTypeOK'
  <2>1. passes' \in 0 .. Passes /\ kind' \in Kinds  BY KindAssumption DEF InspectInv, InspectTypeOK, Begin
  <2> QED  BY <1>b, <2>1 DEF InspectInv, InspectTypeOK, Begin
<1>2. HeldInv'  BY KindAssumption DEF HeldInv, HasOpen, Looked, Begin
<1>3. HashInv'  BY KindAssumption DEF HashInv, Begin
<1>4. LastLookInv'  BY KindAssumption DEF LastLookInv, Begin
<1>5. RestoreInv'  BY KindAssumption DEF RestoreInv, HasOpen, Looked, Named, Begin
<1>6. FrozenSnapshot'  BY KindAssumption DEF FrozenSnapshot, Begin
<1>7. RestoreAllOrNothing'  BY KindAssumption DEF RestoreAllOrNothing, Begin
<1> QED  BY <1>1, <1>2, <1>3, <1>4, <1>5, <1>6, <1>7 DEF InspectInv

LEMMA ListNamesStep == ASSUME InspectInv, ListNames PROVE InspectInv'
<1> USE DEF Enter, Keep, fs, account, Steps
<1>1. InspectTypeOK'  BY DEF InspectInv, InspectTypeOK, ListNames
<1>2. HeldInv'  BY DEF HeldInv, HasOpen, Looked, ListNames
<1>3. HashInv'  BY DEF HashInv, ListNames
<1>4. LastLookInv'  BY DEF InspectInv, LastLookInv, ListNames
<1>5. RestoreInv'  BY DEF InspectInv, RestoreInv, HasOpen, Looked, Named, ListNames
<1>6. FrozenSnapshot'  BY DEF InspectInv, FrozenSnapshot, ListNames
<1>7. RestoreAllOrNothing'  BY DEF InspectInv, LastLookInv, RestoreAllOrNothing, ListNames
<1> QED  BY <1>1, <1>2, <1>3, <1>4, <1>5, <1>6, <1>7 DEF InspectInv

LEMMA OpenedStep == ASSUME InspectInv, Opened PROVE InspectInv'
<1> USE DEF Enter, Keep, fs, account, Steps
<1>1. InspectTypeOK'  BY DEF InspectInv, InspectTypeOK, Opened
<1>2. HeldInv'  BY DEF InspectInv, HeldInv, HasOpen, Open, Opened
<1>3. HashInv'  BY DEF HashInv, Opened
<1>4. LastLookInv'  BY DEF InspectInv, LastLookInv, Opened
<1>5. RestoreInv'  BY DEF InspectInv, RestoreInv, HasOpen, Named, Opened
<1>6. FrozenSnapshot'  BY DEF InspectInv, FrozenSnapshot, Opened
<1>7. RestoreAllOrNothing'  BY DEF InspectInv, LastLookInv, RestoreAllOrNothing, Opened
<1> QED  BY <1>1, <1>2, <1>3, <1>4, <1>5, <1>6, <1>7 DEF InspectInv

LEMMA LookAgainStep == ASSUME InspectInv, LookAgain PROVE InspectInv'
<1> USE DEF Enter, fs, account, Steps
<1>1. InspectTypeOK'  BY DEF InspectInv, InspectTypeOK, LookAgain
<1>2. HeldInv'  BY DEF InspectInv, HeldInv, HasOpen, Looked, Open, LookAgain
<1>3. HashInv'  BY DEF InspectInv, HashInv, Open, LookAgain
<1>4. LastLookInv'  BY DEF InspectInv, LastLookInv, LookAgain
<1>5. RestoreInv'  BY DEF InspectInv, RestoreInv, HasOpen, Looked, Named, LookAgain
<1>6. FrozenSnapshot'  BY DEF InspectInv, FrozenSnapshot, LookAgain
<1>7. RestoreAllOrNothing'  BY DEF InspectInv, LastLookInv, RestoreAllOrNothing, LookAgain
<1> QED  BY <1>1, <1>2, <1>3, <1>4, <1>5, <1>6, <1>7 DEF InspectInv

LEMMA AcceptFrozenStep == ASSUME InspectInv, AcceptFrozen PROVE InspectInv'
<1> USE DEF Finish, fs, account, Steps
<1>1. InspectTypeOK'  BY DEF InspectInv, InspectTypeOK, AcceptFrozen
<1>2. HeldInv'  BY DEF HeldInv, HasOpen, Looked, AcceptFrozen
<1>3. HashInv'  BY DEF HashInv, AcceptFrozen
<1>4. LastLookInv'  BY DEF LastLookInv, AcceptFrozen
<1>5. RestoreInv'  BY DEF InspectInv, LastLookInv, RestoreInv, AcceptFrozen
<1>6. FrozenSnapshot'  BY DEF InspectInv, LastLookInv, FrozenSnapshot, AcceptFrozen
<1>7. RestoreAllOrNothing'  BY DEF InspectInv, LastLookInv, RestoreAllOrNothing, AcceptFrozen
<1> QED  BY <1>1, <1>2, <1>3, <1>4, <1>5, <1>6, <1>7 DEF InspectInv

LEMMA BeginGrantStep == ASSUME InspectInv, BeginGrant PROVE InspectInv'
<1> USE NativeAssumption DEF Enter, Keep, fs, account, Steps, Empty
<1>1. InspectTypeOK'  BY DEF InspectInv, InspectTypeOK, BeginGrant
<1>2. HeldInv'  BY DEF InspectInv, HeldInv, HasOpen, Looked, Open, BeginGrant
<1>3. HashInv'  BY DEF HashInv, BeginGrant
<1>4. LastLookInv'  BY DEF InspectInv, LastLookInv, BeginGrant
<1>5. RestoreInv'  BY DEF InspectInv, RestoreInv, HasOpen, Looked, Named, BeginGrant
<1>6. FrozenSnapshot'  BY DEF FrozenSnapshot, BeginGrant
<1>7. RestoreAllOrNothing'  BY DEF InspectInv, LastLookInv, RestoreAllOrNothing, BeginGrant
<1> QED  BY <1>1, <1>2, <1>3, <1>4, <1>5, <1>6, <1>7 DEF InspectInv

LEMMA BeginVerifyStep == ASSUME InspectInv, BeginVerify PROVE InspectInv'
<1> USE DEF Enter, Keep, fs, account, Steps
<1>1. InspectTypeOK'  BY DEF InspectInv, InspectTypeOK, BeginVerify
<1>2. HeldInv'  BY DEF InspectInv, HeldInv, HasOpen, Looked, Open, BeginVerify
<1>3. HashInv'  BY DEF HashInv, BeginVerify
<1>4. LastLookInv'  BY DEF InspectInv, LastLookInv, BeginVerify
<1>5. RestoreInv'  BY DEF InspectInv, RestoreInv, HasOpen, Looked, Named, BeginVerify
<1>6. FrozenSnapshot'  BY DEF InspectInv, FrozenSnapshot, BeginVerify
<1>7. RestoreAllOrNothing'  BY DEF InspectInv, LastLookInv, RestoreAllOrNothing, BeginVerify
<1> QED  BY <1>1, <1>2, <1>3, <1>4, <1>5, <1>6, <1>7 DEF InspectInv

LEMMA AcceptRestoredStep == ASSUME InspectInv, AcceptRestored PROVE InspectInv'
<1> USE DEF Finish, fs, account, Steps
<1>1. InspectTypeOK'  BY DEF InspectInv, InspectTypeOK, AcceptRestored
<1>2. HeldInv'  BY DEF HeldInv, HasOpen, Looked, AcceptRestored
<1>3. HashInv'  BY DEF HashInv, AcceptRestored
<1>4. LastLookInv'  BY DEF LastLookInv, AcceptRestored
<1>5. RestoreInv'  BY DEF InspectInv, RestoreInv, HasOpen, Looked, AcceptRestored
<1>6. FrozenSnapshot'  BY DEF InspectInv, LastLookInv, FrozenSnapshot, AcceptRestored
<1>7. RestoreAllOrNothing'  BY DEF InspectInv, RestoreInv, RestoreAllOrNothing, Named,
     AcceptRestored
<1> QED  BY <1>1, <1>2, <1>3, <1>4, <1>5, <1>6, <1>7 DEF InspectInv

LEMMA RefuseStep == ASSUME InspectInv, Refuse PROVE InspectInv'
<1> USE DEF Finish, fs, account, Steps, Empty
<1>1. InspectTypeOK'  BY DEF InspectInv, InspectTypeOK, Refuse
<1>2. HeldInv'  BY DEF InspectInv, HeldInv, HasOpen, Looked, Open, Refuse
<1>3. HashInv'  BY DEF HashInv, Refuse
<1>4. LastLookInv'  BY DEF InspectInv, LastLookInv, Refuse
<1>5. RestoreInv'  BY DEF InspectInv, RestoreInv, HasOpen, Looked, Named, Refuse
<1>6. FrozenSnapshot'  BY DEF InspectInv, FrozenSnapshot, Refuse
<1>7. RestoreAllOrNothing'  BY DEF InspectInv, InspectTypeOK, LastLookInv, RestoreInv,
     RestoreAllOrNothing, Named, Refuse
<1> QED  BY <1>1, <1>2, <1>3, <1>4, <1>5, <1>6, <1>7 DEF InspectInv

LEMMA GrantFailsStep == ASSUME InspectInv, NEW x \in Files, GrantFails(x) PROVE InspectInv'
<1> USE BoundAssumption DEF fs, Steps
<1>1. InspectTypeOK'  BY DEF InspectInv, InspectTypeOK, GrantFails
<1>2. HeldInv'  BY DEF InspectInv, HeldInv, HasOpen, Looked, Open, GrantFails
<1>3. HashInv'  BY DEF HashInv, GrantFails
<1>4. LastLookInv'  BY DEF InspectInv, LastLookInv, GrantFails
<1>5. RestoreInv'  BY DEF InspectInv, RestoreInv, HasOpen, Looked, Named, GrantFails
<1>6. FrozenSnapshot'  BY DEF InspectInv, FrozenSnapshot, GrantFails
<1>7. RestoreAllOrNothing'  BY DEF InspectInv, LastLookInv, RestoreAllOrNothing, GrantFails
<1> QED  BY <1>1, <1>2, <1>3, <1>4, <1>5, <1>6, <1>7 DEF InspectInv

LEMMA StopMachineStep == ASSUME InspectInv, StopMachine PROVE InspectInv'
<1> USE BoundAssumption DEF Finish, fs, Steps
<1>1. InspectTypeOK'  BY DEF InspectInv, InspectTypeOK, StopMachine
<1>2. HeldInv'  BY DEF HeldInv, HasOpen, Looked, StopMachine
<1>3. HashInv'  BY DEF HashInv, StopMachine
<1>4. LastLookInv'  BY DEF LastLookInv, StopMachine
<1>5. RestoreInv'  BY DEF InspectInv, RestoreInv, HasOpen, Looked, StopMachine
<1>6. FrozenSnapshot'  BY DEF FrozenSnapshot, StopMachine
<1>7. RestoreAllOrNothing'  BY DEF RestoreAllOrNothing, StopMachine
<1> QED  BY <1>1, <1>2, <1>3, <1>4, <1>5, <1>6, <1>7 DEF InspectInv

LEMMA LastLookStep == ASSUME InspectInv, LastLook PROVE InspectInv'
<1> USE BoundAssumption DEF Enter, Keep, fs, account, Generations, Steps
<1>1. InspectTypeOK'  BY DEF InspectInv, InspectTypeOK, AsSigned, LastLook
<1>2. HeldInv'  BY DEF InspectInv, HeldInv, HasOpen, Looked, Open, LastLook
<1>3. HashInv'  BY DEF InspectInv, HeldInv, HashInv, HasOpen, Looked, Open, LastLook
<1>4. LastLookInv'  BY DEF InspectInv, InspectTypeOK, HeldInv, HashInv, LastLookInv, HasOpen,
     Outdated, Looked, Named, Open, AsSigned, LastLook
<1>5. RestoreInv'  BY DEF InspectInv, RestoreInv, LastLook
<1>6. FrozenSnapshot'  BY DEF InspectInv, LastLookInv, FrozenSnapshot, LastLook
<1>7. RestoreAllOrNothing'  BY DEF RestoreAllOrNothing, LastLook
<1> QED  BY <1>1, <1>2, <1>3, <1>4, <1>5, <1>6, <1>7 DEF InspectInv

LEMMA OpenFileStep == ASSUME InspectInv, NEW x \in Files, OpenFile(x) PROVE InspectInv'
<1> USE BoundAssumption, NoneAssumption DEF Loop, Keep, fs, account, Generations, Bodies, Modes,
    Empty
<1>1. InspectTypeOK'  BY DEF InspectInv, InspectTypeOK, LastLookInv, Named, Expected, OpenFile
<1>2. HeldInv'
  <2>1. ASSUME NEW f \in Files \ {x}, HasOpen(f)'
        PROVE  HasOpen(f) /\ held'[f] = held[f] /\ node'[f] = node[f] /\ gen'[f] = gen[f]
    BY <2>1 DEF InspectInv, InspectTypeOK, HasOpen, OpenFile
  <2>2. /\ held'[x] = [gen |-> gen[x], tick |-> Named(x).tick] /\ held'[x] # Nothing
        /\ node' = node /\ gen' = gen
    BY DEF InspectInv, InspectTypeOK, Named, OpenFile
  <2>3. gen[x] \in Nat /\ Named(x).tick \in Nat
    BY DEF InspectInv, InspectTypeOK, Named
  <2> QED  BY <2>1, <2>2, <2>3 DEF InspectInv, HeldInv, Named, Open
<1>3. HashInv'  BY DEF HashInv, OpenFile
<1>4. LastLookInv'  BY DEF InspectInv, LastLookInv, OpenFile
<1>5. RestoreInv'  BY DEF InspectInv, InspectTypeOK, RestoreInv, HasOpen, Named, Open, OpenFile
<1>6. FrozenSnapshot'  BY DEF InspectInv, FrozenSnapshot, OpenFile
<1>7. RestoreAllOrNothing'  BY DEF InspectInv, LastLookInv, RestoreAllOrNothing, OpenFile
<1> QED  BY <1>1, <1>2, <1>3, <1>4, <1>5, <1>6, <1>7 DEF InspectInv

LEMMA HashStep == ASSUME InspectInv, NEW x \in Files, Hash(x) PROVE InspectInv'
<1> USE DEF Loop, Keep, fs, account
<1>1. InspectTypeOK'  BY DEF InspectInv, InspectTypeOK, Hash
<1>2. HeldInv'  BY DEF InspectInv, HeldInv, HasOpen, Open, Hash
<1>3. HashInv'
  <2>1. HashInv /\ UNCHANGED <<node, held, kind, doing>> /\ pending' = pending \ {x} /\ doing = "hash"
    BY DEF InspectInv, Hash
  <2>2. kind = "frozen" => Open(x).body = "good" /\ Open(x).mode \in SignedMode(x)
    BY DEF Hash, AllowedMode
  <2> QED  BY ONLY <2>1, <2>2 DEF HashInv, Open, SignedMode, Expected
<1>4. LastLookInv'  BY DEF InspectInv, LastLookInv, Hash
<1>5. RestoreInv'  BY DEF InspectInv, RestoreInv, HasOpen, Named, Hash
<1>6. FrozenSnapshot'  BY DEF InspectInv, FrozenSnapshot, Hash
<1>7. RestoreAllOrNothing'  BY DEF InspectInv, LastLookInv, RestoreAllOrNothing, Hash
<1> QED  BY <1>1, <1>2, <1>3, <1>4, <1>5, <1>6, <1>7 DEF InspectInv

LEMMA RecheckStep == ASSUME InspectInv, NEW x \in Files, Recheck(x) PROVE InspectInv'
<1> USE DEF Loop, Keep, fs, account
<1>1. InspectTypeOK'  BY DEF InspectInv, InspectTypeOK, Recheck
<1>2. HeldInv'  BY DEF InspectInv, HeldInv, HasOpen, Open, Recheck
<1>3. HashInv'  BY DEF InspectInv, HeldInv, HashInv, RestoreAllOrNothing, HasOpen, Looked, Named,
     Open, Recheck
<1>4. LastLookInv'  BY DEF InspectInv, LastLookInv, Recheck
<1>5. RestoreInv'  BY DEF InspectInv, RestoreInv, HasOpen, Named, Recheck
<1>6. FrozenSnapshot'  BY DEF InspectInv, FrozenSnapshot, Recheck
<1>7. RestoreAllOrNothing'  BY DEF InspectInv, LastLookInv, RestoreAllOrNothing, Recheck
<1> QED  BY <1>1, <1>2, <1>3, <1>4, <1>5, <1>6, <1>7 DEF InspectInv

LEMMA SettleStep == ASSUME InspectInv, NEW x \in Files, Settle(x) PROVE InspectInv'
<1> USE BoundAssumption DEF Loop, Keep, fs, account, Generations
<1>1. InspectTypeOK'  BY DEF InspectInv, InspectTypeOK, Settle
<1>2. HeldInv'  BY DEF InspectInv, HeldInv, HasOpen, Open, Settle
<1>3. HashInv'  BY DEF InspectInv, HashInv, Open, Settle
<1>4. LastLookInv'  BY DEF InspectInv, InspectTypeOK, LastLookInv, Outdated, Open, Settle
<1>5. RestoreInv'  BY DEF InspectInv, LastLookInv, RestoreInv, Settle
<1>6. FrozenSnapshot'  BY DEF InspectInv, FrozenSnapshot, Settle
<1>7. RestoreAllOrNothing'  BY DEF InspectInv, LastLookInv, RestoreAllOrNothing, Settle
<1> QED  BY <1>1, <1>2, <1>3, <1>4, <1>5, <1>6, <1>7 DEF InspectInv

LEMMA VerifyFileStep == ASSUME InspectInv, NEW x \in Files, VerifyFile(x) PROVE InspectInv'
<1> USE DEF Loop, Keep, fs, account
<1>1. InspectTypeOK'  BY DEF InspectInv, InspectTypeOK, VerifyFile
<1>2. HeldInv'  BY DEF InspectInv, HeldInv, HasOpen, Open, VerifyFile
<1>3. HashInv'  BY DEF HashInv, VerifyFile
<1>4. LastLookInv'  BY DEF InspectInv, LastLookInv, VerifyFile
<1>5. RestoreInv'  BY DEF InspectInv, RestoreInv, HasOpen, Named, VerifyFile
<1>6. FrozenSnapshot'  BY DEF InspectInv, FrozenSnapshot, VerifyFile
<1>7. RestoreAllOrNothing'  BY DEF InspectInv, LastLookInv, RestoreAllOrNothing, VerifyFile
<1> QED  BY <1>1, <1>2, <1>3, <1>4, <1>5, <1>6, <1>7 DEF InspectInv

LEMMA GrantSkipStep == ASSUME InspectInv, NEW x \in Files, Grant(x), Open(x).mode = Expected(x) PROVE InspectInv'
<1> USE DEF Loop, account
<1>f. /\ UNCHANGED <<node, changed, gen, dir, kind, held, since, result, whole, touched, late, account, doing>>
      /\ pending' = pending \ {x} /\ doing = "grant"
  BY DEF Grant
<1>1. InspectTypeOK'  BY <1>f DEF InspectInv, InspectTypeOK
<1>2. HeldInv'  BY <1>f DEF InspectInv, HeldInv, HasOpen, Open
<1>3. HashInv'  BY <1>f DEF HashInv
<1>4. LastLookInv'  BY <1>f DEF InspectInv, LastLookInv
<1>5. RestoreInv'  BY <1>f DEF InspectInv, RestoreInv, HasOpen, Named
<1>6. FrozenSnapshot'  BY <1>f DEF InspectInv, FrozenSnapshot
<1>7. RestoreAllOrNothing'  BY <1>f DEF InspectInv, LastLookInv, RestoreAllOrNothing
<1> QED  BY <1>1, <1>2, <1>3, <1>4, <1>5, <1>6, <1>7 DEF InspectInv

\* What giving the file behind a descriptor another mode does to the table.
LEMMA ModeTable ==
  ASSUME InspectTypeOK, NEW x \in Files, NEW k \in Generations, NEW m \in Modes,
         node' = [node EXCEPT ![x][k] = WithMode(@, m)]
  PROVE  /\ node' \in [Files -> [Generations -> [body : Bodies, mode : Modes, tick : Nat]]]
         /\ \A f \in Files \ {x} : node'[f] = node[f]
         /\ \A g \in Generations \ {k} : node'[x][g] = node[x][g]
         /\ node'[x][k].tick = node[x][k].tick + 1
         /\ node'[x][k].mode = m /\ node'[x][k].body = node[x][k].body
<1>1. node \in [Files -> [Generations -> [body : Bodies, mode : Modes, tick : Nat]]]  BY DEF InspectTypeOK
<1> DEFINE r == WithMode(node[x][k], m)
           row == [node[x] EXCEPT ![k] = r]
<1>2. /\ r \in [body : Bodies, mode : Modes, tick : Nat]
      /\ r.tick = node[x][k].tick + 1 /\ r.mode = m /\ r.body = node[x][k].body
  BY <1>1 DEF WithMode
<1>3. node' = [node EXCEPT ![x] = row]  BY <1>1
<1> HIDE DEF r
<1>4. /\ row \in [Generations -> [body : Bodies, mode : Modes, tick : Nat]]
      /\ row[k] = r /\ \A g \in Generations \ {k} : row[g] = node[x][g]
  BY <1>1, <1>2
<1> HIDE DEF row
<1> QED  BY <1>1, <1>2, <1>3, <1>4

LEMMA GrantFacts ==
  ASSUME InspectInv, NEW x \in Files, Grant(x), Open(x).mode # Expected(x)
  PROVE  /\ held[x] \in [gen : Generations, tick : Nat]
         /\ node' \in [Files -> [Generations -> [body : Bodies, mode : Modes, tick : Nat]]]
         /\ \A f \in Files \ {x} : node'[f] = node[f]
         /\ \A g \in Generations \ {held[x].gen} : node'[x][g] = node[x][g]
         /\ node'[x][held[x].gen].tick = node[x][held[x].gen].tick + 1
         /\ node'[x][held[x].gen].mode = Expected(x)
         /\ node'[x][held[x].gen].body = node[x][held[x].gen].body
<1>1. held[x] \in [gen : Generations, tick : Nat]
  BY DEF InspectInv, InspectTypeOK, HeldInv, HasOpen, Looked, Grant, Loop
<1>2. node' = [node EXCEPT ![x][held[x].gen] = WithMode(@, Expected(x))]  BY DEF Grant, SetMode
<1>3. Expected(x) \in Modes  BY DEF Expected, Modes
<1>4. InspectTypeOK /\ held[x].gen \in Generations  BY <1>1 DEF InspectInv
<1> DEFINE k == held[x].gen
           m == Expected(x)
<1>5. m \in Modes /\ k \in Generations /\ node' = [node EXCEPT ![x][k] = WithMode(@, m)]
  BY <1>2, <1>3, <1>4
<1> HIDE DEF k, m
<1>6. /\ node' \in [Files -> [Generations -> [body : Bodies, mode : Modes, tick : Nat]]]
      /\ \A f \in Files \ {x} : node'[f] = node[f]
      /\ \A g \in Generations \ {k} : node'[x][g] = node[x][g]
      /\ node'[x][k].tick = node[x][k].tick + 1
      /\ node'[x][k].mode = m /\ node'[x][k].body = node[x][k].body
  BY ONLY x \in Files, <1>4, <1>5, ModeTable, Zenon
<1> QED  BY <1>1, <1>6 DEF k, m

LEMMA GrantStep == ASSUME InspectInv, NEW x \in Files, Grant(x), Open(x).mode # Expected(x) PROVE InspectInv'
<1>f. /\ UNCHANGED <<gen, dir, kind, held, since, result, whole, touched, late, before, spent, passes, stops, doing>>
      /\ pending' = pending \ {x} /\ x \in pending /\ doing = "grant" /\ kind = "restore" /\ result = "none"
      /\ changed' = [changed EXCEPT ![x] = Open(x).mode]
  BY DEF InspectInv, LastLookInv, Grant, Loop, account
<1>g. Open(x).mode \in Modes
  <2>1. node[x][held[x].gen] \in [body : Bodies, mode : Modes, tick : Nat]
    BY GrantFacts DEF InspectInv, InspectTypeOK
  <2> QED  BY <2>1 DEF Open
<1>t. /\ \A f \in Files : held[f] \in [gen : Generations, tick : Nat]
      /\ \A f \in Files, g \in Generations : node[f][g].tick \in Nat
  BY <1>f DEF InspectInv, InspectTypeOK, HeldInv, HasOpen, Looked
<1>1. InspectTypeOK'  BY GrantFacts, <1>f, <1>g DEF InspectInv, InspectTypeOK
<1>2. HeldInv'
  <2>1. \A f \in Files : HasOpen(f)  BY <1>f DEF HasOpen, Looked
  <2>2. ASSUME NEW f \in Files PROVE node[f][held[f].gen].tick <= node'[f][held[f].gen].tick
    <3>1. CASE f = x  BY <3>1, GrantFacts, <1>t
    <3>2. CASE f # x  BY <3>2, GrantFacts, <1>t
    <3> QED  BY <3>1, <3>2
  <2>3. \A f \in Files : node'[f][held[f].gen].tick \in Nat
    BY <1>1, <1>t DEF InspectTypeOK
  <2> QED  BY <1>f, <1>t, <2>1, <2>2, <2>3 DEF InspectInv, HeldInv, Open
<1>3. HashInv' /\ LastLookInv' /\ FrozenSnapshot' /\ RestoreAllOrNothing'
  BY <1>f DEF HashInv, LastLookInv, FrozenSnapshot, RestoreAllOrNothing
<1>5. RestoreInv'
  <2>1. \A f \in Files : changed'[f] # Nothing => f \in Native
    <3>1. x \in Native  BY <1>f DEF InspectInv, RestoreInv
    <3> QED  BY <1>f, <3>1 DEF InspectInv, RestoreInv, InspectTypeOK
  <2>2. ASSUME NEW f \in Files \ touched
        PROVE  /\ held[f].gen = gen[f]
               /\ changed'[f] = Nothing => node'[f][gen[f]].mode = before[f]
               /\ changed'[f] # Nothing => changed'[f] = before[f]
    <3>1. held[f].gen = gen[f]  BY <1>f DEF InspectInv, RestoreInv, HasOpen, Looked
    <3>2. CASE f # x
      <4>1. changed'[f] = changed[f] /\ node'[f] = node[f]  BY <1>f, <3>2, GrantFacts DEF InspectInv, InspectTypeOK
      <4> QED  BY <1>f, <3>1, <4>1 DEF InspectInv, RestoreInv, Named
    <3>3. CASE f = x
      <4>1. changed'[x] = Open(x).mode /\ Open(x).mode # Nothing
        BY <1>f, <1>g, NoneAssumption DEF InspectInv, InspectTypeOK
      <4>2. changed[x] = Nothing  BY <1>f DEF InspectInv, RestoreInv
      <4>3. Open(x).mode = before[x]  BY <1>f, <3>1, <3>3, <4>2 DEF InspectInv, RestoreInv, Named, Open
      <4> QED  BY <3>1, <3>3, <4>1, <4>3
    <3> QED  BY <3>2, <3>3
  <2>4. ASSUME NEW f \in Files, f \in pending' PROVE changed'[f] = Nothing
    BY <1>f, <2>4 DEF InspectInv, RestoreInv, InspectTypeOK
  <2>5. \A f \in Files : held[f] # Nothing  BY <1>t, NoneAssumption
  <2>6. pending' \subseteq Native  BY <1>f DEF InspectInv, RestoreInv
  <2>7. /\ doing' = "grant" /\ kind' = "restore" /\ touched' = touched /\ gen' = gen /\ held' = held
        /\ before' = before  BY <1>f
  <2>8. \A f \in Files \ touched' :
       /\ held'[f].gen = gen'[f]
       /\ changed'[f] = Nothing => (Named(f))'.mode = before'[f]
       /\ changed'[f] # Nothing => changed'[f] = before'[f]
    BY <2>2, <2>7 DEF Named
  <2>9. /\ doing' = "grant" => pending' \subseteq Native /\ \A f \in pending' : changed'[f] = Nothing
    <3>1. pending' \subseteq Files  BY <1>1 DEF InspectTypeOK
    <3> QED  BY <2>4, <2>6, <3>1
  <2>10. \A f \in Files : held'[f] # Nothing  BY <2>5, <2>7
  <2> QED  BY <2>1, <2>7, <2>8, <2>9, <2>10 DEF RestoreInv
<1> QED  BY <1>1, <1>2, <1>3, <1>5 DEF InspectInv

\* What the roll-back does to the table, file by file.
LEMMA UndoTable ==
  ASSUME InspectInv, NEW failing \in SUBSET Files, doing = "undo",
         node' = [f \in Files |-> IF changed[f] = Nothing \/ f \in failing THEN node[f]
                                 ELSE [node[f] EXCEPT ![held[f].gen] = WithMode(@, changed[f])]]
  PROVE  /\ node' \in [Files -> [Generations -> [body : Bodies, mode : Modes, tick : Nat]]]
         /\ \A f \in Files : changed[f] = Nothing => node'[f] = node[f]
         /\ \A f \in Files \ failing : changed[f] # Nothing => node'[f][held[f].gen].mode = changed[f]
<1>1. node \in [Files -> [Generations -> [body : Bodies, mode : Modes, tick : Nat]]]  BY DEF InspectInv, InspectTypeOK
<1>2. ASSUME NEW f \in Files, changed[f] # Nothing
      PROVE  held[f].gen \in Generations /\ changed[f] \in Modes
  BY <1>2 DEF InspectInv, InspectTypeOK, RestoreInv
<1>3. ASSUME NEW f \in Files
      PROVE  /\ node'[f] \in [Generations -> [body : Bodies, mode : Modes, tick : Nat]]
             /\ changed[f] = Nothing => node'[f] = node[f]
             /\ f \notin failing /\ changed[f] # Nothing => node'[f][held[f].gen].mode = changed[f]
  <2>1. CASE changed[f] = Nothing \/ f \in failing  BY <1>1, <2>1
  <2>2. CASE changed[f] # Nothing /\ f \notin failing
    <3> DEFINE r == WithMode(node[f][held[f].gen], changed[f])
    <3>1. r \in [body : Bodies, mode : Modes, tick : Nat] /\ r.mode = changed[f]
      BY <1>1, <1>2, <2>2 DEF WithMode
    <3>2. node'[f] = [node[f] EXCEPT ![held[f].gen] = r]  BY <2>2
    <3> HIDE DEF r
    <3> QED  BY <1>1, <1>2, <2>2, <3>1, <3>2
  <2> QED  BY <2>1, <2>2
<1> QED  BY <1>3

LEMMA UndoStep == ASSUME InspectInv, Undo PROVE InspectInv'
<1>1. PICK failing \in SUBSET {f \in Files : changed[f] # Nothing} :
        /\ failing # {} => stops < Stops
        /\ stops' = IF failing = {} THEN stops ELSE stops + 1
        /\ node' = [f \in Files |-> IF changed[f] = Nothing \/ f \in failing THEN node[f]
                                    ELSE [node[f] EXCEPT ![held[f].gen] = WithMode(@, changed[f])]]
        /\ Finish(IF failing = {} THEN "failed" ELSE "broken")
  BY DEF Undo
<1>2. /\ UNCHANGED <<gen, dir, kind, pending, held, since, changed, whole, touched, late, before, spent, passes>>
      /\ doing = "undo" /\ doing' = "idle" /\ result' \in {"failed", "broken"} /\ (result' = "failed" <=> failing = {})
      /\ kind = "restore"
  BY <1>1 DEF Undo, Finish, InspectInv, LastLookInv
<1>3. /\ node' \in [Files -> [Generations -> [body : Bodies, mode : Modes, tick : Nat]]]
      /\ \A f \in Files : changed[f] = Nothing => node'[f] = node[f]
      /\ \A f \in Files \ failing : changed[f] # Nothing => node'[f][held[f].gen].mode = changed[f]
  <2>1. failing \in SUBSET Files  OBVIOUS
  <2> QED  BY <1>1, <1>2, <2>1, UndoTable
<1>4. stops' \in 0 .. Stops  BY <1>1, BoundAssumption DEF InspectInv, InspectTypeOK
<1>5. InspectTypeOK'  BY <1>2, <1>3, <1>4 DEF InspectInv, InspectTypeOK, Steps
<1>6. HeldInv' /\ HashInv' /\ LastLookInv' /\ FrozenSnapshot'
  BY <1>2 DEF HeldInv, HashInv, LastLookInv, FrozenSnapshot, HasOpen, Looked
<1>7. RestoreInv'
  BY <1>2 DEF InspectInv, RestoreInv, HasOpen, Looked
<1>8. RestoreAllOrNothing'
  <2>1. ASSUME NEW f \in Files \ touched, failing = {} PROVE node'[f][gen[f]].mode = before[f]
    <3>1. held[f].gen = gen[f]  BY <1>2 DEF InspectInv, RestoreInv, HasOpen, Looked
    <3>2. CASE changed[f] = Nothing  BY <1>2, <1>3, <3>2 DEF InspectInv, RestoreInv, Named
    <3>3. CASE changed[f] # Nothing  BY <1>2, <1>3, <2>1, <3>1, <3>3 DEF InspectInv, RestoreInv
    <3> QED  BY <3>2, <3>3
  <2> QED  BY <1>2, <2>1 DEF RestoreAllOrNothing, Named
<1> QED  BY <1>5, <1>6, <1>7, <1>8 DEF InspectInv

\* What any change by others is like: time only advances, and a file whose
\* change time stands still is the same.
Outside ==
  /\ \A f \in Files : gen[f] <= gen'[f]
  /\ \A f \in Files, g \in Generations :
       /\ node[f][g].tick <= node'[f][g].tick
       /\ node[f][g].tick = node'[f][g].tick => node'[f][g] = node[f][g]
  /\ \A f \in Files \ touched' : gen'[f] = gen[f] /\ node'[f] = node[f]
  /\ touched \subseteq touched'
  /\ dir.moved => dir'.moved
  /\ UNCHANGED <<pass, whole, before>>

LEMMA OutsideStep == ASSUME InspectInv, InspectTypeOK', Outside PROVE InspectInv'
<1>0. /\ UNCHANGED <<doing, kind, pending, held, since, changed, result, whole, before>>
      /\ \A f \in Files : (HasOpen(f))' <=> HasOpen(f)
  BY DEF Outside, pass, HasOpen
<1>1. \A f \in Files : HasOpen(f) => held[f] \in [gen : Generations, tick : Nat]
  BY DEF InspectInv, InspectTypeOK, HeldInv
<1>2. \A f \in Files : gen[f] \in Generations /\ gen'[f] \in Generations
  BY DEF InspectInv, InspectTypeOK
<1>3. \A f \in Files, g \in Generations : node[f][g].tick \in Nat /\ node'[f][g].tick \in Nat
  BY DEF InspectInv, InspectTypeOK
<1>4. HeldInv'
  BY <1>0, <1>1, <1>2, <1>3 DEF InspectInv, HeldInv, Outside, Open, Generations
<1>5. HashInv'
  <2>1. \A f \in Files : doing \in {"recheck", "settle"} \/ (doing = "hash" /\ f \notin pending) => HasOpen(f)
    BY DEF HasOpen, Looked
  <2>2. ASSUME NEW f \in Files, HasOpen(f), node'[f][held[f].gen].tick = held[f].tick
        PROVE  node'[f][held[f].gen] = node[f][held[f].gen] /\ node[f][held[f].gen].tick = held[f].tick
    BY <1>1, <1>3, <2>2 DEF InspectInv, HeldInv, Open, Outside
  <2> QED  BY <1>0, <2>1, <2>2 DEF InspectInv, HashInv, Open
<1>6. LastLookInv'
  <2>1. ASSUME NEW f \in Files, HasOpen(f), Outdated(f) PROVE (Outdated(f))'
    BY <1>0, <1>1, <1>2, <1>3, <2>1 DEF Outdated, Outside, Open, Generations
  <2>2. doing = "settle" => \A f \in Files : HasOpen(f)  BY DEF HasOpen, Looked
  <2>3. pending \subseteq Files  BY DEF InspectInv, InspectTypeOK
  <2> QED  BY <1>0, <2>1, <2>2, <2>3 DEF InspectInv, LastLookInv, Outside
<1>7. \A f \in Files \ touched' : f \notin touched /\ gen'[f] = gen[f] /\ node'[f] = node[f]
  BY DEF Outside
<1>8. RestoreInv'
  BY <1>0, <1>7 DEF InspectInv, RestoreInv, Named
<1>9. FrozenSnapshot' /\ RestoreAllOrNothing'
  BY <1>0, <1>7 DEF InspectInv, FrozenSnapshot, RestoreAllOrNothing, Named
<1> QED  BY <1>4, <1>5, <1>6, <1>8, <1>9 DEF InspectInv

LEMMA SpendTyped == ASSUME InspectTypeOK, Spend PROVE spent' \in 0 .. Budget /\ UNCHANGED <<before, passes, stops>>
BY BoundAssumption DEF InspectTypeOK, Spend

LEMMA GenReflexive == ASSUME InspectTypeOK PROVE \A f \in Files : gen[f] <= gen[f]
BY BoundAssumption DEF InspectTypeOK, Generations

LEMMA EditOutside == ASSUME InspectTypeOK, NEW x \in Files, Edit(x) PROVE InspectTypeOK' /\ Outside
<1>1. PICK b \in Bodies, m \in Modes : node' = [node EXCEPT ![x][gen[x]] =
        [body |-> b, mode |-> m, tick |-> @.tick + 1]]  BY DEF Edit
<1>2. node \in [Files -> [Generations -> [body : Bodies, mode : Modes, tick : Nat]]] /\ gen[x] \in Generations  BY DEF InspectTypeOK
<1> DEFINE r == [body |-> b, mode |-> m, tick |-> node[x][gen[x]].tick + 1]
           row == [node[x] EXCEPT ![gen[x]] = r]
<1>3. r \in [body : Bodies, mode : Modes, tick : Nat] /\ r.tick = node[x][gen[x]].tick + 1  BY <1>2
<1>4. node' = [node EXCEPT ![x] = row]  BY <1>1, <1>2
<1>5. /\ row \in [Generations -> [body : Bodies, mode : Modes, tick : Nat]]
      /\ row[gen[x]] = r /\ \A g \in Generations \ {gen[x]} : row[g] = node[x][g]
  BY <1>2, <1>3
<1> HIDE DEF r, row
<1>6. /\ node' \in [Files -> [Generations -> [body : Bodies, mode : Modes, tick : Nat]]] /\ node'[x] = row
      /\ \A f \in Files \ {x} : node'[f] = node[f]
  BY <1>2, <1>4, <1>5
<1>7. UNCHANGED <<gen, dir, pass, whole>> /\ touched' = touched \cup {x} /\ late' = late \cup {x} /\ Spend
  BY DEF Edit, Touch
<1>8. InspectTypeOK'  BY <1>6, <1>7, SpendTyped DEF InspectTypeOK, pass
<1>9. Outside
  <2>1. \A g \in Generations : /\ node[x][g].tick <= row[g].tick
                               /\ node[x][g].tick = row[g].tick => row[g] = node[x][g]
    BY <1>2, <1>3, <1>5
  <2>2. \A f \in Files, g \in Generations : node[f][g].tick <= node[f][g].tick
    BY <1>2
  <2>3. \A f \in Files : gen[f] <= gen[f]  BY GenReflexive
  <2>4. UNCHANGED <<gen, dir, pass, whole, before>> /\ touched' = touched \cup {x}
    BY <1>7, SpendTyped
  <2> QED  BY <1>6, <2>1, <2>2, <2>3, <2>4 DEF Outside
<1> QED  BY <1>8, <1>9

LEMMA SubstituteOutside == ASSUME InspectTypeOK, NEW x \in Files, Substitute(x) PROVE InspectTypeOK' /\ Outside
<1>1. PICK b \in Bodies, m \in Modes : node' = [node EXCEPT
        ![x][gen[x] + 1] = [body |-> b, mode |-> m, tick |-> @.tick + 1],
        ![x][gen[x]] = WithMode(@, @.mode)]  BY DEF Substitute
<1>2. /\ node \in [Files -> [Generations -> [body : Bodies, mode : Modes, tick : Nat]]]
      /\ gen[x] \in Generations /\ gen[x] + 1 \in Generations /\ gen[x] + 1 # gen[x]
  <2>1. gen \in [Files -> 0 .. Budget] /\ gen[x] < Budget  BY DEF InspectTypeOK, Substitute, Generations
  <2>2. gen[x] \in 0 .. Budget /\ gen[x] + 1 \in 0 .. Budget /\ gen[x] + 1 # gen[x]
    BY <2>1, BoundAssumption
  <2> QED  BY <2>2 DEF InspectTypeOK, Generations
<1> DEFINE r == [body |-> b, mode |-> m, tick |-> node[x][gen[x] + 1].tick + 1]
           o == WithMode(node[x][gen[x]], node[x][gen[x]].mode)
           row == [[node[x] EXCEPT ![gen[x] + 1] = r] EXCEPT ![gen[x]] = o]
<1>3. /\ r \in [body : Bodies, mode : Modes, tick : Nat] /\ r.tick = node[x][gen[x] + 1].tick + 1
      /\ o \in [body : Bodies, mode : Modes, tick : Nat] /\ o.tick = node[x][gen[x]].tick + 1
  BY <1>2 DEF WithMode
<1>4. node' = [node EXCEPT ![x] = row]  BY <1>1, <1>2
<1>5. /\ row \in [Generations -> [body : Bodies, mode : Modes, tick : Nat]]
      /\ row[gen[x]] = o /\ row[gen[x] + 1] = r
      /\ \A g \in Generations \ {gen[x], gen[x] + 1} : row[g] = node[x][g]
  BY <1>2, <1>3
<1> HIDE DEF r, o, row
<1>6. /\ node' \in [Files -> [Generations -> [body : Bodies, mode : Modes, tick : Nat]]] /\ node'[x] = row
      /\ \A f \in Files \ {x} : node'[f] = node[f]
  BY <1>2, <1>4, <1>5
<1>7. /\ UNCHANGED <<pass, whole>> /\ touched' = touched \cup {x} /\ late' = late \cup {x} /\ Spend
      /\ gen' = [gen EXCEPT ![x] = @ + 1] /\ dir' = [dir EXCEPT !.tick = @ + 1]
  BY DEF Substitute, Touch
<1>8. InspectTypeOK'
  <2>1. dir' \in [extra : BOOLEAN, tick : Nat, moved : BOOLEAN]
    <3>1. dir' = [extra |-> dir.extra, tick |-> dir.tick + 1, moved |-> dir.moved]
      BY <1>7 DEF InspectTypeOK
    <3> QED  BY <3>1 DEF InspectTypeOK
  <2>2. gen' \in [Files -> Generations]  BY <1>2, <1>7 DEF InspectTypeOK
  <2> QED  BY <1>6, <1>7, <2>1, <2>2, SpendTyped DEF InspectTypeOK, pass
<1>9. Outside
  <2>1. \A g \in Generations : /\ node[x][g].tick <= row[g].tick
                               /\ node[x][g].tick = row[g].tick => row[g] = node[x][g]
    BY <1>2, <1>3, <1>5
  <2>2. \A f \in Files : gen[f] <= gen'[f] /\ (f # x => gen'[f] = gen[f])
    BY <1>7 DEF InspectTypeOK, Generations
  <2>3. \A f \in Files, g \in Generations : node[f][g].tick <= node[f][g].tick
    BY <1>2
  <2>4. dir'.moved = dir.moved  BY <1>7 DEF InspectTypeOK
  <2> QED  BY <1>6, <1>7, <2>1, <2>2, <2>3, <2>4, SpendTyped DEF Outside, InspectTypeOK
<1> QED  BY <1>8, <1>9

LEMMA DirectoryOutside ==
  ASSUME InspectTypeOK, AddOrRemoveName \/ MoveDirectory PROVE InspectTypeOK' /\ Outside
<1>1. Spend /\ UNCHANGED <<node, gen, pass, whole, touched, late>>
  BY DEF AddOrRemoveName, MoveDirectory
<1>2. dir' \in [extra : BOOLEAN, tick : Nat, moved : BOOLEAN]
  <2>1. CASE AddOrRemoveName
    <3>1. dir' = [extra |-> ~dir.extra, tick |-> dir.tick + 1, moved |-> dir.moved]
      BY <2>1 DEF AddOrRemoveName, InspectTypeOK
    <3> QED  BY <3>1 DEF InspectTypeOK
  <2>2. CASE MoveDirectory  BY <2>2 DEF MoveDirectory, InspectTypeOK
  <2> QED  BY <2>1, <2>2
<1>3. dir.moved => dir'.moved  BY DEF AddOrRemoveName, MoveDirectory, InspectTypeOK
<1>4. InspectTypeOK'  BY <1>1, <1>2, SpendTyped DEF InspectTypeOK, pass
<1>5. Outside
  <2>1. \A f \in Files, g \in Generations : node[f][g].tick <= node[f][g].tick
    <3>1. node \in [Files -> [Generations -> [body : Bodies, mode : Modes, tick : Nat]]]  BY DEF InspectTypeOK
    <3> QED  BY <3>1
  <2>2. \A f \in Files : gen[f] <= gen[f]  BY GenReflexive
  <2>3. UNCHANGED <<node, gen, pass, whole, touched, before>>  BY <1>1, SpendTyped
  <2> QED  BY <1>3, <2>1, <2>2, <2>3 DEF Outside
<1> QED  BY <1>4, <1>5

LEMMA OthersStep ==
  ASSUME InspectInv, \/ \E f \in Files : Edit(f) \/ Substitute(f)
                     \/ AddOrRemoveName \/ MoveDirectory
  PROVE  InspectInv'
<1>1. InspectTypeOK' /\ Outside
  BY EditOutside, SubstituteOutside, DirectoryOutside DEF InspectInv
<1> QED  BY <1>1, OutsideStep

LEMMA GrantEitherStep == ASSUME InspectInv, NEW f \in Files, Grant(f) PROVE InspectInv'
BY GrantStep, GrantSkipStep

LEMMA InspectInitInv == InspectInit => InspectInv
<1> SUFFICES ASSUME InspectInit PROVE InspectInv  OBVIOUS
<1>1. PICK lost \in SUBSET Files : node = [f \in Files |-> [g \in Generations |->
       [body |-> IF Damaged /\ f \in lost THEN "bad" ELSE "good", mode |-> "plain", tick |-> 0]]]
  BY DEF InspectInit
<1>2. node \in [Files -> [Generations -> [body : Bodies, mode : Modes, tick : Nat]]]
  BY <1>1 DEF Bodies, Modes
<1>3. InspectTypeOK
  <2>1. gen \in [Files -> Generations] /\ spent \in 0 .. Budget /\ passes \in 0 .. Passes /\ stops \in 0 .. Stops
    BY BoundAssumption DEF InspectInit, Generations
  <2>2. held \in [Files -> [gen : Generations, tick : Nat] \cup {Nothing}] /\ changed \in [Files -> Modes \cup {Nothing}]
    BY DEF InspectInit, Empty
  <2>3. dir \in [extra : BOOLEAN, tick : Nat, moved : BOOLEAN] /\ before \in [Files -> Modes]
    BY DEF InspectInit, Modes
  <2> QED  BY <1>2, <2>1, <2>2, <2>3 DEF InspectInit, InspectTypeOK, Steps, Kinds
<1>4. HeldInv /\ HashInv /\ LastLookInv /\ RestoreInv /\ FrozenSnapshot /\ RestoreAllOrNothing
  BY DEF InspectInit, Empty, HeldInv, HashInv, LastLookInv, RestoreInv, FrozenSnapshot,
         RestoreAllOrNothing, HasOpen, Looked
<1> QED  BY <1>3, <1>4 DEF InspectInv

LEMMA InspectNextInv == InspectInv /\ [InspectNext]_inspectVars => InspectInv'
<1> SUFFICES ASSUME InspectInv, [InspectNext]_inspectVars PROVE InspectInv'  OBVIOUS
<1>1. CASE \E k \in Wanted : Begin(k)  BY <1>1, BeginStep
<1>2. CASE PassStep
  BY <1>2, ListNamesStep, OpenedStep, LookAgainStep, LastLookStep, AcceptFrozenStep, BeginGrantStep,
     BeginVerifyStep, AcceptRestoredStep, OpenFileStep, HashStep, RecheckStep, SettleStep,
     GrantEitherStep, VerifyFileStep DEF PassStep
<1>3. CASE Undo  BY <1>3, UndoStep
<1>4. CASE Refuse  BY <1>4, RefuseStep
<1>5. CASE StopMachine \/ \E f \in Files : GrantFails(f)  BY <1>5, StopMachineStep, GrantFailsStep
<1>6. CASE \/ \E f \in Files : Edit(f) \/ Substitute(f)
           \/ AddOrRemoveName \/ MoveDirectory
  BY <1>6, OthersStep
<1>7. CASE UNCHANGED inspectVars
  BY <1>7 DEF inspectVars, fs, pass, account, InspectInv, InspectTypeOK, HeldInv, HashInv,
       LastLookInv, RestoreInv, FrozenSnapshot, RestoreAllOrNothing, HasOpen, Outdated, Named, Open
<1> QED  BY <1>1, <1>2, <1>3, <1>4, <1>5, <1>6, <1>7 DEF InspectNext
-----------------------------------------------------------------------------
\* The strengthened invariant holds in every reachable state.
THEOREM InspectInductive == InspectSpec => []InspectInv
<1>1. InspectInv /\ [InspectNext]_inspectVars => InspectInv'  BY InspectNextInv
<1> QED  BY InspectInitInv, <1>1, PTL DEF InspectSpec

\* Every variable keeps its type, for any closure and any number of passes.
THEOREM InspectTyping == InspectSpec => []InspectTypeOK
<1>1. InspectInv => InspectTypeOK  BY DEF InspectInv
<1> QED  BY InspectInductive, <1>1, PTL

\* A frozen pass that accepts saw the closure as signed at one moment, for any
\* number of files and of changes by others.
THEOREM Snapshot == InspectSpec => []FrozenSnapshot
<1>1. InspectInv => FrozenSnapshot  BY DEF InspectInv
<1> QED  BY InspectInductive, <1>1, PTL

\* A restoration leaves the modes of untouched files either all granted or all
\* as they were, for any number of files, passes and stops.
THEOREM Restoration == InspectSpec => []RestoreAllOrNothing
<1>1. InspectInv => RestoreAllOrNothing  BY DEF InspectInv
<1> QED  BY InspectInductive, <1>1, PTL
-----------------------------------------------------------------------------
\* The second look has found a file good, or has found them all good.
Seen(f) == (doing = "recheck" /\ f \notin pending) \/ doing = "grant"

\* What the second look found good still is, unless others changed the file
\* since that look began.
Confirmed == \A f \in Files \ late : Seen(f) => Named(f).body = "good"

LEMMA ConfirmedUntouched == ASSUME Confirmed, late \subseteq late',
         \A f \in Files \ late' : gen'[f] = gen[f] /\ node'[f] = node[f],
         \A f \in Files \ late' : Seen(f)' => Seen(f)
  PROVE Confirmed'
BY DEF Confirmed, Named

LEMMA ConfirmedPass == ASSUME InspectInv, Confirmed, PassStep PROVE Confirmed'
<1> USE DEF Loop, Enter, Finish, Keep, fs
<1>1. CASE ListNames \/ Opened \/ LastLook \/ AcceptFrozen \/ BeginVerify \/ AcceptRestored
  BY <1>1 DEF Confirmed, Seen, ListNames, Opened, LastLook, AcceptFrozen, BeginVerify, AcceptRestored
<1>2. CASE LookAgain  BY <1>2 DEF Confirmed, Seen, LookAgain
<1>3. CASE BeginGrant  BY <1>3, ConfirmedUntouched DEF BeginGrant, Seen
<1>4. ASSUME NEW f \in Files, Recheck(f) PROVE Confirmed'
  <2>1. UNCHANGED <<node, gen, late, doing>> /\ pending' = pending \ {f} /\ doing = "recheck"  BY <1>4 DEF Recheck
  <2>2. Named(f).body = "good"  BY <1>4 DEF Recheck, Open, Named
  <2> QED  BY <2>1, <2>2 DEF Confirmed, Seen, Named
<1>5. ASSUME NEW f \in Files, Grant(f) PROVE Confirmed'
  <2>1. UNCHANGED <<gen, late, doing>> /\ doing = "grant"  BY <1>5 DEF Grant
  <2>2. \A x \in Files : node'[x][gen[x]].body = node[x][gen[x]].body
    <3>1. CASE UNCHANGED node  BY <3>1
    <3>2. CASE SetMode(f, Expected(f))
      <4> DEFINE row == [node[f] EXCEPT ![held[f].gen] = WithMode(@, Expected(f))]
      <4>1. node \in [Files -> [Generations -> [body : Bodies, mode : Modes, tick : Nat]]]
            /\ \A x \in Files : gen[x] \in Generations
        BY DEF InspectInv, InspectTypeOK
      <4>2. node' = [node EXCEPT ![f] = row]  BY <3>2, <4>1 DEF SetMode
      <4>3. \A g \in Generations : row[g].body = node[f][g].body  BY <4>1 DEF WithMode
      <4> HIDE DEF row
      <4> QED  BY <4>1, <4>2, <4>3
    <3> QED  BY <1>5, <3>1, <3>2 DEF Grant
  <2> QED  BY <2>1, <2>2 DEF Confirmed, Seen, Named
<1>6. ASSUME NEW f \in Files, OpenFile(f) \/ Hash(f) \/ Settle(f) \/ VerifyFile(f) PROVE Confirmed'
  BY <1>6 DEF Confirmed, Seen, OpenFile, Hash, Settle, VerifyFile
<1> QED  BY <1>1, <1>2, <1>3, <1>4, <1>5, <1>6 DEF PassStep

LEMMA ConfirmedOthers == ASSUME InspectInv, Confirmed, \/ \E f \in Files : Edit(f) \/ Substitute(f)
                                                       \/ AddOrRemoveName \/ MoveDirectory
  PROVE Confirmed'
<1>1. ASSUME NEW x \in Files, Edit(x) \/ Substitute(x) PROVE Confirmed'
  <2>1. UNCHANGED <<doing, pending>> /\ late' = late \cup {x}
    BY <1>1 DEF Edit, Substitute, Touch, pass
  <2>2. node \in [Files -> [Generations -> [body : Bodies, mode : Modes, tick : Nat]]]
        /\ gen \in [Files -> Generations]
    BY DEF InspectInv, InspectTypeOK
  <2>3. \A f \in Files \ {x} : gen'[f] = gen[f] /\ node'[f] = node[f]
    <3>1. CASE Edit(x)  BY <2>2, <3>1 DEF Edit
    <3>2. CASE Substitute(x)  BY <2>2, <3>2 DEF Substitute
    <3> QED  BY <1>1, <3>1, <3>2
  <2> QED  BY <2>1, <2>3, ConfirmedUntouched DEF Seen
<1>2. CASE AddOrRemoveName \/ MoveDirectory
  BY <1>2, ConfirmedUntouched DEF AddOrRemoveName, MoveDirectory, pass, Seen
<1> QED  BY <1>1, <1>2

LEMMA ConfirmedStep == InspectInv /\ Confirmed /\ [InspectNext]_inspectVars => Confirmed'
<1> SUFFICES ASSUME InspectInv, Confirmed, [InspectNext]_inspectVars PROVE Confirmed'  OBVIOUS
<1>1. CASE \E k \in Wanted : Begin(k)  BY <1>1 DEF Begin, Confirmed, Seen
<1>2. CASE Undo \/ Refuse \/ StopMachine \/ \E f \in Files : GrantFails(f)
  BY <1>2 DEF Undo, Refuse, StopMachine, GrantFails, Finish, Confirmed, Seen
<1>3. CASE UNCHANGED inspectVars  BY <1>3, ConfirmedUntouched DEF inspectVars, fs, pass, Seen
<1> QED  BY <1>1, <1>2, <1>3, ConfirmedPass, ConfirmedOthers DEF InspectNext

\* A restoration changes the mode of a file only after a second look found
\* every file good, and none that others left alone since is damaged: for any
\* closure, any changes and any number of interrupted passes.
THEOREM GrantsOnGoodBytes == InspectSpec => NothingGrantedWhenDamaged
<1>1. InspectInit => Confirmed  BY DEF InspectInit, Confirmed, Seen
<1>2. InspectInv /\ Confirmed /\ [InspectNext]_inspectVars => Confirmed'  BY ConfirmedStep
<1>3. Confirmed => [\A f \in Files, g \in Native :
                      Grant(g) /\ node' # node => f \in late \/ Named(f).body = "good"]_inspectVars
  BY DEF Confirmed, Seen, Grant, Loop
<1> QED  BY InspectInductive, <1>1, <1>2, <1>3, PTL DEF InspectSpec, NothingGrantedWhenDamaged
=============================================================================
