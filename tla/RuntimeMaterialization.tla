------------------------ MODULE RuntimeMaterialization ------------------------
(***************************************************************************)
(* materialize-aros-tools-runtime.py materialize and verify: the released  *)
(* runtime a lock file names is looked up, downloaded, unpacked into a     *)
(* .partial sibling, moved to its destination in one rename and completed  *)
(* there by a manifest and a receipt; verify re-reads a destination some   *)
(* earlier step left.                                                      *)
(*                                                                         *)
(* Around them: other materializations of the same destination, a lock     *)
(* file that a newer checkout replaces while a run reads it again and      *)
(* again, a release that changes, steps that fail and machines that stop   *)
(* without any clean-up.  The file system is reached by path only.         *)
(***************************************************************************)
EXTENDS Integers, Sequences, FiniteSets

CONSTANTS Runs,      \* processes that materialize
          Verifiers, \* processes that only verify
          Payload,   \* the paths of EXPECTED_FILES
          Alien,     \* a path the manifest does not declare
          Archives,  \* member lists a released archive may hold
          MaxLock,   \* versions the lock file goes through
          Faulty,    \* whether steps may fail and machines stop
          None

Actors == Runs \cup Verifiers
Locks == 1 .. MaxLock
Metadata == {"manifest", "receipt"}
Paths == Payload \cup Metadata

\* What a file can hold: the bytes of the release that lock n names and, in a
\* receipt, the locks that its fields and its digest come from.
Bytes == [fields : {0} \cup Locks, digest : {0} \cup Locks]
Of(n) == [fields |-> n, digest |-> n]
Half == Of(0)   \* a file that was created and not completely written

ASSUME PartyAssumption == Runs \cap Verifiers = {} /\ None \notin Runs
ASSUME FileAssumption == /\ IsFiniteSet(Payload) /\ Payload \cap Metadata = {}
                         /\ MaxLock \in Nat \ {0}
                         /\ None \notin Bytes /\ Alien \notin Payload
ASSUME ArchiveAssumption ==
  \A a \in Archives : a \in Seq([path : Payload \cup {Alien}, intact : BOOLEAN])

VARIABLES
  lock,     \* the version of the lock file
  archive,  \* the members of the released archive
  remote,   \* what GitHub still shows as the lock says
  place,    \* which run's directory stands at the destination and at .partial
  tree,     \* the files of each run's directory
  pc,
  used,     \* the lock whose fields a process works with
  observed, \* members a run has extracted
  todo,     \* files a verification has yet to measure
  accepted  \* the lock under which a process reported success

files == <<place, tree>>
process == <<pc, used, observed, todo, accepted>>
vars == <<lock, archive, remote, files, process>>

Facts == {"release", "tag", "assets"}
Extracting == {"extract", "fill", "replace"}
Publishing == {"manifest", "copying", "receipt", "writing"}
Checking == {"check", "compare", "list", "measure"}
Labels == {"lock", "release", "tag", "download", "absent", "mkdir", "remove", "done", "failed", "stopped"}
            \cup Extracting \cup Publishing \cup Checking

TypeOK ==
  /\ lock \in Locks /\ archive \in Archives /\ remote \in SUBSET Facts
  /\ place \in [{"destination", "partial"} -> Runs \cup {None}]
  /\ tree \in [Runs -> [Paths -> Bytes \cup {None}]]
  /\ pc \in [Actors -> Labels]
  /\ used \in [Actors -> Locks]
  /\ observed \in [Runs -> SUBSET Payload]
  /\ todo \in [Actors -> SUBSET Paths]
  /\ accepted \in [Actors -> Locks \cup {None}]

EmptyTree == [f \in Paths |-> None]

Init ==
  /\ lock = 1 /\ archive \in Archives /\ remote = Facts
  /\ place = [w \in {"destination", "partial"} |-> None]
  /\ tree = [p \in Runs |-> EmptyTree]
  /\ pc = [a \in Actors |-> IF a \in Runs THEN "lock" ELSE "check"]
  /\ used = [a \in Actors |-> 1]
  /\ observed = [p \in Runs |-> {}]
  /\ todo = [a \in Actors |-> {}]
  /\ accepted = [a \in Actors |-> None]

Goto(a, l) == pc' = [pc EXCEPT ![a] = l]
From(a, l, m) == pc[a] = l /\ Goto(a, m)

\* Writing by path reaches whatever directory stands there.
Write(where, f, body) ==
  /\ place[where] # None
  /\ tree' = [tree EXCEPT ![place[where]][f] = body]
-----------------------------------------------------------------------------
(* Before anything is written: the lock, the release, the tag, the assets. *)

ReadLock(p) ==
  /\ From(p, "lock", "release")
  /\ used' = [used EXCEPT ![p] = lock]
  /\ UNCHANGED <<lock, archive, remote, files, observed, todo, accepted>>

\* The release must be published, immutable and list the locked assets.
RequireRelease(p) ==
  /\ From(p, "release", "tag")
  /\ "release" \in remote
  /\ UNCHANGED <<lock, archive, remote, files, used, observed, todo, accepted>>

\* The tag object, its commit, tree and date.
RequireTag(p) ==
  /\ From(p, "tag", "download")
  /\ "tag" \in remote
  /\ UNCHANGED <<lock, archive, remote, files, used, observed, todo, accepted>>

\* Bytes that differ from the locked digest are refused, so are a bad
\* signature and a manifest that does not describe the locked release.
Download(p) ==
  /\ From(p, "download", "absent")
  /\ "assets" \in remote
  /\ UNCHANGED <<lock, archive, remote, files, used, observed, todo, accepted>>
-----------------------------------------------------------------------------
(* safe_extract. *)

\* (seeded fault) an abandoned .partial directory is taken over
CheckFreshDestination(p) ==
  /\ From(p, "absent", IF place["partial"] = None THEN "mkdir" ELSE "extract")
  /\ place["destination"] = None
  /\ UNCHANGED <<lock, archive, remote, files, used, observed, todo, accepted>>

CheckFresh(p) ==
  /\ From(p, "absent", "mkdir")
  /\ place["destination"] = None /\ place["partial"] = None
  /\ UNCHANGED <<lock, archive, remote, files, used, observed, todo, accepted>>

\* (seeded fault) mkdir accepts a directory that exists
MakeAnyPartial(p) ==
  /\ From(p, "mkdir", "extract")
  /\ place' = [place EXCEPT !["partial"] = IF @ = None THEN p ELSE @]
  /\ UNCHANGED <<lock, archive, remote, tree, used, observed, todo, accepted>>

\* mkdir is exclusive: the second of two runs fails here, and removes nothing.
MakePartial(p) ==
  /\ From(p, "mkdir", "extract")
  /\ place["partial"] = None
  /\ place' = [place EXCEPT !["partial"] = p]
  /\ UNCHANGED <<lock, archive, remote, tree, used, observed, todo, accepted>>

\* The next member of the archive this run has not extracted.
Member(p) == archive[Cardinality(observed[p]) + 1]
MoreMembers(p) == Cardinality(observed[p]) < Len(archive)

\* Only declared files, each once, each created exclusively.
OpenMember(p) ==
  /\ From(p, "extract", "fill")
  /\ MoreMembers(p)
  /\ Member(p).path \in Payload \ observed[p]
  /\ place["partial"] # None /\ tree[place["partial"]][Member(p).path] = None
  /\ Write("partial", Member(p).path, Half)
  /\ UNCHANGED <<lock, archive, remote, place, used, observed, todo, accepted>>

\* (seeded fault) the extracted bytes are not measured
FillUnmeasured(p) ==
  /\ From(p, "fill", "extract")
  /\ Write("partial", Member(p).path, IF Member(p).intact THEN Of(used[p]) ELSE Half)
  /\ observed' = [observed EXCEPT ![p] = @ \cup {Member(p).path}]
  /\ UNCHANGED <<lock, archive, remote, place, used, todo, accepted>>

FillMember(p) ==
  /\ From(p, "fill", "extract")
  /\ Member(p).intact
  /\ Write("partial", Member(p).path, Of(used[p]))
  /\ observed' = [observed EXCEPT ![p] = @ \cup {Member(p).path}]
  /\ UNCHANGED <<lock, archive, remote, place, used, todo, accepted>>

EndOfArchive(p) ==
  /\ From(p, "extract", "replace")
  /\ ~MoreMembers(p) /\ observed[p] = Payload
  /\ UNCHANGED <<lock, archive, remote, files, used, observed, todo, accepted>>

\* os.replace does not replace a directory that holds anything.
Replace(p) ==
  /\ From(p, "replace", "manifest")
  /\ place["partial"] # None
  /\ place["destination"] = None
  /\ place' = [destination |-> place["partial"], partial |-> None]
  /\ UNCHANGED <<lock, archive, remote, tree, used, observed, todo, accepted>>
-----------------------------------------------------------------------------
(* What completes the destination after the rename. *)

CopyManifest(p) ==
  /\ \/ From(p, "manifest", "copying") /\ Write("destination", "manifest", Half)
     \/ From(p, "copying", "receipt") /\ Write("destination", "manifest", Of(used[p]))
  /\ UNCHANGED <<lock, archive, remote, place, used, observed, todo, accepted>>

\* The receipt has the fields of the lock read first and the digest of the
\* lock file as it is now.
Receipt(a) == [fields |-> used[a], digest |-> lock]

WriteReceipt(p) ==
  /\ \/ From(p, "receipt", "writing") /\ Write("destination", "receipt", Half)
     \/ From(p, "writing", "check") /\ Write("destination", "receipt", Receipt(p))
  /\ UNCHANGED <<lock, archive, remote, place, used, observed, todo, accepted>>
-----------------------------------------------------------------------------
(* verify_extracted, at the end of a run and as a command of its own. *)

Read(f) == tree[place["destination"]][f]
Standing == place["destination"] # None

CheckManifest(a) ==
  /\ From(a, "check", "compare")
  /\ Standing /\ Read("manifest") = Of(lock)
  /\ used' = [used EXCEPT ![a] = lock]
  /\ UNCHANGED <<lock, archive, remote, files, observed, todo, accepted>>

\* (seeded fault) the receipt only has to exist
CompareAnyReceipt(a) ==
  /\ From(a, "compare", "list")
  /\ Standing /\ Read("receipt") # None
  /\ UNCHANGED <<lock, archive, remote, files, used, observed, todo, accepted>>

CompareReceipt(a) ==
  /\ From(a, "compare", "list")
  /\ Standing /\ Read("receipt") = Receipt(a)
  /\ UNCHANGED <<lock, archive, remote, files, used, observed, todo, accepted>>

List(a) ==
  /\ From(a, "list", "measure")
  /\ Standing /\ {f \in Paths : Read(f) # None} = Paths
  /\ todo' = [todo EXCEPT ![a] = Payload]
  /\ UNCHANGED <<lock, archive, remote, files, used, observed, accepted>>

Measure(a) ==
  /\ pc[a] = "measure" /\ UNCHANGED pc
  /\ \E f \in todo[a] : /\ Standing /\ Read(f) = Of(used[a])
                        /\ todo' = [todo EXCEPT ![a] = @ \ {f}]
  /\ UNCHANGED <<lock, archive, remote, files, used, observed, accepted>>

Accept(a) ==
  /\ From(a, "measure", "done")
  /\ todo[a] = {}
  /\ accepted' = [accepted EXCEPT ![a] = used[a]]
  /\ UNCHANGED <<lock, archive, remote, files, used, observed, todo>>
-----------------------------------------------------------------------------
(* What goes wrong. *)

RunStep(p) == \/ ReadLock(p) \/ RequireRelease(p) \/ RequireTag(p) \/ Download(p)
              \/ CheckFresh(p) \/ MakePartial(p) \/ OpenMember(p) \/ FillMember(p)
              \/ EndOfArchive(p) \/ Replace(p) \/ CopyManifest(p) \/ WriteReceipt(p)

Verify(a) == \/ CheckManifest(a) \/ CompareReceipt(a) \/ List(a) \/ Measure(a) \/ Accept(a)

\* A gate that is not open: every operation fails when it cannot succeed.
Blocked(a) == ~ENABLED (RunStep(a) \/ Verify(a))

\* Only the extraction cleans up after itself.
Fail(a) ==
  /\ pc[a] \notin {"done", "failed", "stopped", "remove"}
  /\ Faulty \/ Blocked(a)
  /\ Goto(a, IF pc[a] \in Extracting THEN "remove" ELSE "failed")
  /\ UNCHANGED <<lock, archive, remote, files, used, observed, todo, accepted>>

\* rmtree(ignore_errors) of the path .partial, which may leave some of it.
RemovePartial(p) ==
  /\ From(p, "remove", "failed")
  /\ \/ place' = [place EXCEPT !["partial"] = None] /\ UNCHANGED tree
     \/ /\ Faulty /\ place["partial"] # None
        /\ \E left \in SUBSET Paths : tree' = [tree EXCEPT ![place["partial"]] =
             [f \in Paths |-> IF f \in left THEN @[f] ELSE None]]
        /\ UNCHANGED place
  /\ UNCHANGED <<lock, archive, remote, used, observed, todo, accepted>>

\* The machine stops: no clean-up at all.
Stop(a) ==
  /\ Faulty /\ pc[a] \notin {"done", "failed", "stopped"}
  /\ Goto(a, "stopped")
  /\ UNCHANGED <<lock, archive, remote, files, used, observed, todo, accepted>>

\* A newer checkout replaces the lock file; older ones do not come back.
Relock == /\ lock < MaxLock /\ lock' = lock + 1
          /\ UNCHANGED <<archive, remote, files, process>>

Withdraw(fact) == /\ Faulty /\ fact \in remote /\ remote' = remote \ {fact}
                  /\ UNCHANGED <<lock, archive, files, process>>
-----------------------------------------------------------------------------
Next == \/ \E p \in Runs : RunStep(p) \/ RemovePartial(p)
        \/ \E a \in Actors : Verify(a) \/ Fail(a) \/ Stop(a)
        \/ Relock
        \/ \E fact \in Facts : Withdraw(fact)

Spec == Init /\ [][Next]_vars
FairSpec == Spec /\ \A p \in Runs : WF_vars(RunStep(p) \/ Verify(p) \/ Fail(p) \/ RemovePartial(p))
-----------------------------------------------------------------------------
\* The rename publishes a finished extraction: at no moment, whoever crashed
\* or lost a race, does the destination hold a payload that is not wholly of
\* one locked release (safe_extract builds it in the .partial sibling).
PublishedWhole ==
  Standing => \E n \in Locks : \A f \in Payload : Read(f) = Of(n)

\* Whoever reported success did so about the directory that stands there, and
\* that directory is wholly of one release.  For a run, which reads the lock
\* file four times, it is also bound to one lock in all its parts: a run that
\* crossed a change of the lock file never passes as either release.  (A
\* verifier that overlaps both the run and the change of the lock between its
\* own two reads may accept a receipt whose digest is the newer lock's.)
AcceptedComplete ==
  \A a \in Actors : accepted[a] # None =>
    /\ Standing
    /\ \A f \in Payload \cup {"manifest"} : Read(f) = Of(accepted[a])
    /\ Read("receipt").fields = accepted[a]
    /\ a \in Runs => Read("receipt").digest = accepted[a]

\* A run touches no directory but its own, and removes nothing that another
\* run moved to the destination or is still extracting.
OwnDirectoryOnly ==
  [][\A p \in Runs : RunStep(p) \/ RemovePartial(p) =>
       /\ \A q \in Runs \ {p} : tree'[q] = tree[q]
       /\ \A w \in DOMAIN place : place[w] \notin {p, None} => place'[w] = place[w]]_vars

\* Without faults and changes one of the racing runs completes, although each
\* may be the one that another run's directory stops.
SomeRunCompletes == <>(\E p \in Runs : pc[p] = "done")
=============================================================================
