---------------------------- MODULE CandidateAssembly ----------------------------
(***************************************************************************)
(* Assembly of a release candidate: assemble-release-candidate-v2.py and   *)
(* the two programs it runs, assemble-compiler-candidate-v2.py and         *)
(* assemble-sdk-candidate-v2.py.                                           *)
(*                                                                         *)
(* The selected runtime verifies every package, both builds of a compiler  *)
(* lane are compared, and the packages are copied first into a stage of    *)
(* each program and from there into the release directory, where SBOMs and *)
(* the index are made.  The compiler program holds what it selected by     *)
(* measurement and stat fingerprint, the SDK program by measurement alone. *)
(* Other processes may rewrite any file at any time, also back to what it  *)
(* was.                                                                    *)
(***************************************************************************)
EXTENDS Naturals, FiniteSets, SequencesExt

CONSTANTS Lanes,     \* compiler lanes, each built twice
          Sdks,
          Clashes,   \* pairs of members whose names fold to the same
          Troubles,  \* changes that others make, commands that fail
          None

Bytes == {"selected", "other"}
Tool == <<"aros", None>>
Doc == <<"documents", None>>   \* plan, fragment, required paths, directories
Index == <<"index", None>>
Copies(kind, ids) == {<<kind, x>> : x \in ids}

Sources == {Tool, Doc} \cup Copies("a", Lanes) \cup Copies("b", Lanes) \cup Copies("package", Sdks)
Staged == Copies("staged", Lanes \cup Sdks)
Members == Copies("member", Lanes \cup Sdks \cup {None}) \cup Copies("sbom", Sdks)
Files == Sources \cup Staged \cup Members \cup {Index}

\* Who holds files: the selections of the combined program and of the programs
\* it runs, the trees captured from their stages, and the staged inventories.
ByStat == {"release", "compiler", "trees"}
Holders == ByStat \cup {"release_sdk", "sdk", "inventory"}

ASSUME SetAssumption == /\ IsFiniteSet(Lanes) /\ IsFiniteSet(Sdks) /\ Lanes \cap Sdks = {}
                        /\ None \notin Lanes \cup Sdks
ASSUME BoundAssumption == Troubles \in Nat
ASSUME ClashAssumption == \A c \in Clashes : \E f, g \in Members : f # g /\ c = {f, g}

Node == [data : Bytes, mark : 0 .. Troubles]
ASSUME NoneAssumption == None \notin Node \cup Bytes

VARIABLES
  file,     \* what each path holds, None while it does not exist
  root,     \* the operation root: absent, made by this run, or another's
  stray,    \* output directories with an undeclared name
  clash,    \* the members whose names fold to the same
  at,       \* the step of the program
  held,     \* what each holder measured
  end,
  \* accounts
  read,     \* the bytes a command last read of a source
  fooled,   \* a command was run by another program than the selected one
  troubles

vars == <<file, root, stray, clash, at, held, end, read, fooled, troubles>>
-----------------------------------------------------------------------------
(* The program, in the order of the source; one step for each file. *)

Do(what, by, files) == [i \in DOMAIN files |-> [do |-> what, by |-> by, on |-> files[i]]]
ForEach(set, Steps(_)) == FlattenSeq([i \in DOMAIN SetToSeq(set) |-> Steps(SetToSeq(set)[i])])

Small == <<Tool, Doc>>
Pair(l) == <<<<"a", l>>, <<"b", l>>>>
CompilerFiles == Small \o ForEach(Lanes, Pair)
SdkFiles == Small \o SetToSeq(Copies("package", Sdks))
Stage(ids) == SetToSeq(Copies("staged", ids))
Inventory == SetToSeq(Members)

Copy(by, f) == Do("stream", by, <<f>>) \o Do("reread", by, <<f>>)
CompilerRun(what, f) ==
  Do("check", "compiler", Small) \o Do(what, "compiler", <<f>>) \o Do("check", "compiler", Small)

CompilerLane(l) ==
  CompilerRun("verify", <<"a", l>>) \o CompilerRun("verify", <<"b", l>>)
    \o Do("check", "compiler", Pair(l)) \o CompilerRun("compare", <<"a", l>>)
CompilerBarrier ==
  Do("check", "compiler", CompilerFiles) \o Do("list", "inventory", <<<<"compiler", None>>>>)
    \o Do("check", "inventory", Stage(Lanes))
CompilerCopy(l) == Copy("compiler", <<"staged", l>>)

CompilerWork ==
  Do("check", "compiler", CompilerFiles) \o ForEach(Lanes, CompilerLane)
    \o ForEach(Lanes, CompilerCopy) \o CompilerBarrier \o CompilerBarrier
CompilerAssembly == Do("hold", "compiler", CompilerFiles) \o CompilerWork

SdkPackage(s) == Do("check", "sdk", SdkFiles) \o Do("verify", "sdk", <<<<"package", s>>>>)
SdkBarrier ==
  Do("check", "sdk", SdkFiles) \o Do("list", "inventory", <<<<"sdk", None>>>>)
    \o Do("check", "inventory", Stage(Sdks))
SdkCopy(s) == Copy("sdk", <<"staged", s>>)

SdkWork ==
  ForEach(Sdks, SdkPackage) \o Do("check", "sdk", SdkFiles)
    \o ForEach(Sdks, SdkCopy) \o SdkBarrier \o SdkBarrier
SdkAssembly == Do("hold", "sdk", SdkFiles) \o SdkWork

BothHeld == Do("check", "release", CompilerFiles) \o Do("check", "release_sdk", SdkFiles)
ReleaseRun(what, f) ==
  LET around == Do("check", "release", Small) \o Do("check", "release_sdk", SdkFiles)
  IN around \o Do(what, "release", <<f>>) \o around
Sbom(s) == ReleaseRun("describe", <<"sbom", s>>)
Member(x) == Copy("release", <<"member", x>>)
Listed == Do("list", "inventory", <<<<"release", None>>>>)
Indexed == Do("check", "inventory", Inventory \o <<Index>>) \o Listed

\* What is selected is held before anything runs and compared after everything.
Opening ==
  Do("hold", "release", CompilerFiles) \o Do("hold", "release_sdk", SdkFiles)
    \o Do("absent", "release", <<None>>) \o BothHeld \o Do("make", "release", <<None>>)
Packaging ==
  CompilerAssembly \o Do("hold", "trees", Stage(Lanes))
    \o SdkAssembly \o Do("hold", "trees", Stage(Sdks))
Publishing ==
  ForEach(Lanes, Member) \o ForEach(Sdks, Member) \o Member(None)
    \o ForEach(Sdks, Sbom) \o Listed \o Do("check", "inventory", Inventory)
    \o ReleaseRun("index", Index) \o Indexed
Closing == BothHeld \o Do("check", "trees", Stage(Lanes \cup Sdks)) \o Indexed

Program == Opening \o Packaging \o Publishing \o Closing

Step == Program[at]
Doing(what) == /\ end = "running" /\ Step.do = what
               /\ at' = at + 1 /\ end' = IF at = Len(Program) THEN "returned" ELSE end
               /\ UNCHANGED <<clash, stray, troubles>>
-----------------------------------------------------------------------------
TypeOK ==
  /\ file \in [Files -> Node \cup {None}]
  /\ root \in {"absent", "own", "foreign"}
  /\ stray \subseteq {"compiler", "sdk", "release"} /\ clash \in Clashes \cup {{}}
  /\ at \in 1 .. Len(Program) + 1
  /\ held \in [Holders -> [Files -> Node \cup {None}]]
  /\ end \in {"running", "returned", "failed", "killed"}
  /\ read \in [Sources -> Bytes \cup {None}] /\ fooled \in BOOLEAN /\ troubles \in 0 .. Troubles
  /\ \A h \in Holders, f \in Sources : held[h][f] # None => held[h][f].data = "selected"

Init ==
  /\ file = [f \in Files |-> IF f \in Sources THEN [data |-> "selected", mark |-> 0] ELSE None]
  /\ root = "absent" /\ stray = {} /\ clash \in Clashes \cup {{}} /\ at = 1
  /\ held = [h \in Holders |-> [f \in Files |-> None]] /\ end = "running"
  /\ read = [f \in Sources |-> None] /\ fooled = FALSE /\ troubles = 0

\* The bytes are those that the digests given, the plan, the signed origin and
\* the collector name for the file; a captured tree joins its stage's summary.
Joined(f) == file[f].data = IF f \in Sources THEN "selected" ELSE held["inventory"][f].data
Hold == /\ Doing("hold") /\ file[Step.on] # None /\ Joined(Step.on)
        /\ held' = [held EXCEPT ![Step.by][Step.on] = file[Step.on]]
        /\ UNCHANGED <<file, root, read, fooled>>

\* (seeded fault) measurements are compared, fingerprints are not
Same(h, f) == file[f] # None /\ held[h][f] # None /\ file[f].data = held[h][f].data

AsHeld(h, f) == IF h \in ByStat THEN file[f] # None /\ file[f] = held[h][f]
                ELSE file[f] # None /\ held[h][f] # None /\ file[f].data = held[h][f].data
Check == Doing("check") /\ AsHeld(Step.by, Step.on) /\ UNCHANGED <<file, root, held, read, fooled>>

\* A directory has exactly the names of the inventory.
List == Doing("list") /\ Step.on[1] \notin stray /\ UNCHANGED <<file, root, held, read, fooled>>

\* (seeded fault) the root is expected to exist
PresentRoot == Doing("absent") /\ root # "absent" /\ UNCHANGED <<file, root, held, read, fooled>>

AbsentRoot == Doing("absent") /\ root = "absent" /\ UNCHANGED <<file, root, held, read, fooled>>
MakeRoot == /\ Doing("make") /\ root = "absent" /\ root' = "own"
            /\ UNCHANGED <<file, held, read, fooled>>
-----------------------------------------------------------------------------
(* Commands of the selected runtime.  The path is opened again to run it: a  *)
(* program put there may accept anything, the selected one reads for itself. *)

Genuine == file[Tool].data = "selected"
Runs == fooled' = (fooled \/ ~Genuine)

Verify == /\ Doing("verify") /\ Runs
          /\ Genuine => file[Step.on].data = held[Step.by][Step.on].data
          /\ read' = [read EXCEPT ![Step.on] = file[Step.on].data]
          /\ UNCHANGED <<file, root, held>>

\* Both builds of the lane, member by member.
Compare == /\ Doing("compare") /\ Runs
           /\ LET l == Step.on[2] IN
                /\ Genuine => file[<<"a", l>>].data = file[<<"b", l>>].data
                /\ read' = [read EXCEPT ![<<"a", l>>] = file[<<"a", l>>].data,
                                        ![<<"b", l>>] = file[<<"b", l>>].data]
           /\ UNCHANGED <<file, root, held>>

\* The same name after case folding is in the directory already.
Folded(f) == IF f[1] = "staged" THEN <<"member", f[2]>> ELSE f
Beside(f) == IF f \in Staged THEN IF f[2] \in Lanes THEN Copies("staged", Lanes) ELSE Copies("staged", Sdks)
             ELSE Members
\* (seeded fault) names are compared inside a stage only
CollidesInStage(f) == f \in Staged /\ \E g \in Beside(f) \ {f} :
                        file[g] # None /\ {Folded(f), Folded(g)} = clash

Collides(f) == \E g \in Beside(f) \ {f} : file[g] # None /\ {Folded(f), Folded(g)} = clash

Write(f, data) == /\ file[f] = None /\ file' = [file EXCEPT ![f] = [data |-> data, mark |-> 0]]
                  /\ held' = [held EXCEPT !["inventory"][f] = [data |-> data, mark |-> 0]]

\* The SBOM of an SDK is made from its package, not from the copy.
Describe == /\ Doing("describe") /\ Runs /\ ~Collides(Step.on)
            /\ LET package == <<"package", Step.on[2]>> IN
                 /\ Genuine => file[package].data = held["release_sdk"][package].data
                 /\ read' = [read EXCEPT ![package] = file[package].data]
                 /\ \E data \in Bytes : Write(Step.on, data) /\ (Genuine => data = file[package].data)
            /\ UNCHANGED root

\* The index is made of what the release directory holds; its count of members
\* must be that of the inventory.
MakeIndex == /\ Doing("index") /\ Runs /\ "release" \notin stray
             /\ \E data \in Bytes : Write(Index, data)
                  /\ (Genuine => data = IF \A f \in Members : file[f].data = "selected"
                                        THEN "selected" ELSE "other")
             /\ UNCHANGED <<root, read>>
-----------------------------------------------------------------------------
(* Copying: first the source is streamed into a file created for it ... *)

Source(f) == IF f \in Staged THEN IF f[2] \in Lanes THEN <<"a", f[2]>> ELSE <<"package", f[2]>>
             ELSE IF f[2] = None THEN Doc ELSE <<"staged", f[2]>>

\* (seeded fault) the copy is compared with what its source is now
ExpectedNow(by, f) == file[Source(f)].data

Expected(by, f) == IF Source(f) \in Staged THEN held["inventory"][Source(f)].data
                   ELSE held[by][Source(f)].data

Stream == /\ Doing("stream") /\ ~Collides(Step.on)
          /\ file[Source(Step.on)].data = Expected(Step.by, Step.on)
          /\ Write(Step.on, file[Source(Step.on)].data) /\ UNCHANGED <<root, read, fooled>>

\* ... then both are measured again.
ReadBack == /\ Doing("reread")
            /\ file[Source(Step.on)].data = Expected(Step.by, Step.on)
            /\ file[Step.on].data = Expected(Step.by, Step.on)
            /\ UNCHANGED <<file, root, held, read, fooled>>

AssemblyStep == \/ Hold \/ Check \/ List \/ AbsentRoot \/ MakeRoot
                \/ Verify \/ Compare \/ Describe \/ MakeIndex \/ Stream \/ ReadBack

\* A requirement does not hold: the run ends where it is and removes nothing.
Fail == /\ end = "running" /\ ~ENABLED AssemblyStep /\ end' = "failed"
        /\ UNCHANGED <<file, root, stray, clash, at, held, read, fooled, troubles>>
-----------------------------------------------------------------------------
(* Other processes, and commands that fail or time out. *)

Trouble == /\ troubles < Troubles /\ end = "running" /\ troubles' = troubles + 1
           /\ UNCHANGED <<clash, at, held, read, fooled>>

Edit(f) == /\ Trouble /\ file[f] # None
           /\ \E data \in Bytes :
                file' = [file EXCEPT ![f] = [data |-> data, mark |-> file[f].mark + 1]]
           /\ UNCHANGED <<root, stray, end>>
Occupy == Trouble /\ root = "absent" /\ root' = "foreign" /\ UNCHANGED <<file, stray, end>>
AddName(d) == /\ Trouble /\ root = "own" /\ d \notin stray /\ stray' = stray \cup {d}
              /\ UNCHANGED <<file, root, end>>
Kill == Trouble /\ end' = "killed" /\ UNCHANGED <<file, root, stray>>
CommandFails == /\ Trouble /\ Step.do \in {"verify", "compare", "describe", "index"}
                /\ end' = "failed" /\ UNCHANGED <<file, root, stray>>

-----------------------------------------------------------------------------
(* Somebody starts the operation again after it failed or was killed: over   *)
(* what the earlier run left at the operation root, or with that removed.    *)

Again == /\ end \in {"failed", "killed"} /\ end' = "running" /\ at' = 1
         /\ held' = [h \in Holders |-> [f \in Files |-> None]]
         /\ read' = [f \in Sources |-> None] /\ fooled' = FALSE
         /\ UNCHANGED <<clash, troubles>>
Retry == /\ Again /\ root' = (IF root = "own" THEN "foreign" ELSE root)
         /\ UNCHANGED <<file, stray>>
RetryCleared == /\ Again /\ root' = "absent" /\ stray' = {}
                /\ file' = [f \in Files |-> IF f \in Sources THEN file[f] ELSE None]

Next == \/ AssemblyStep \/ Fail \/ Occupy \/ Kill \/ CommandFails \/ Retry \/ RetryCleared
        \/ \E f \in Files : Edit(f)
        \/ \E d \in {"compiler", "sdk", "release"} : AddName(d)

Spec == Init /\ [][Next]_vars
FairSpec == Spec /\ WF_vars(AssemblyStep \/ Fail)
-----------------------------------------------------------------------------
\* A candidate that is returned was judged by the selected runtime alone.
\* Every command opens the runtime by path; the SDK program, which compares
\* bytes before commands and after all of them, does not notice a runtime that
\* was exchanged for one command and put back, but the combined program, which
\* holds the fingerprint from before the first stage, does.
GenuineVerdicts == end = "returned" => ~fooled

\* Every member of a returned inventory has the bytes its selection names, and
\* a command of this run read those bytes: of both builds for a compiler
\* package, of the package itself for an SDK and for the SBOM that describes
\* it, although payloads are left out of the checks around commands and are
\* copied twice, and although an earlier run may have left files behind.
InventoryVerified ==
  end = "returned" =>
    /\ \A m \in Members : held["inventory"][m] # None /\ held["inventory"][m].data = "selected"
    /\ \A f \in Sources \ {Tool, Doc} : read[f] = "selected"

\* No two members of a returned candidate have the same name on a host that
\* folds case, also when they come from different stages or from a command.
NoFoldedClash == end = "returned" => clash = {}

\* Undisturbed, with commands that pass, the assembly returns.
QuietReturns == <>(end = "returned" \/ troubles > 0 \/ clash # {})
=============================================================================
