--------------------------- MODULE EvidenceOperations ---------------------------
(***************************************************************************)
(* The three operations on the evidence of a complete release:             *)
(* record-complete-qualification-v2.py writes the qualification,           *)
(* audit-isolated-release-v2.py verifies an isolated release against it    *)
(* and prepare-recovery-request-v2.py writes a recovery request for it.    *)
(*                                                                         *)
(* They are one protocol.  Selected inputs are measured once and held by   *)
(* measurement and stat fingerprint; a fresh directory is made; external   *)
(* and native programs, which open every input by path again, run between  *)
(* checks of all that is held; a document is created exclusively under its *)
(* final name only after that.  Other processes may rewrite inputs and     *)
(* outputs at any time, also back to what they were.                       *)
(***************************************************************************)
EXTENDS Integers, Sequences, FiniteSets

CONSTANTS Inputs,    \* runtime, selection, summary, index, bundle ...
          Pinned,    \* those the caller selects by digest
          Reported,  \* those whose digest the native result repeats
          Wanted,    \* the operations that are run
          Budget,    \* changes that others make
          Faults,    \* steps that fail, machines that stop
          None

Kinds == {"record", "audit", "recover"}
Outputs == {"verification", "policy", "pending", "final"}
Names == Inputs \cup Outputs
Bodies == {"selected", "made", "half", "other"}
Roots == {"own", "foreign"}

ASSUME InputAssumption == /\ IsFiniteSet(Inputs) /\ Pinned \cup Reported \subseteq Inputs
                          /\ Inputs \cap Outputs = {}
ASSUME BoundAssumption == Budget \in Nat /\ Faults \in Nat /\ Wanted \subseteq Kinds

\* A file: its bytes, its fingerprint, and whether this operation created it.
Node == [body : Bodies, stamp : Nat, mine : BOOLEAN]
ASSUME NoneAssumption == None \notin Node /\ None \notin Bodies \cup Roots \cup Outputs

VARIABLES
  input,    \* the selected files
  root,     \* what stands at the path of the operation directory
  out,      \* the documents in the directory made and in one put in its place
  extra,    \* the release directory has an undeclared name
  overlap,  \* the operation directory was selected inside the release
  agree,    \* the selected documents describe one release
  kind, at, todo,
  held,     \* files as they were measured
  seen,     \* the bytes that the program now running has read
  found,    \* the clean-up found the document it created under its name
  result,
  \* accounts
  astray,   \* a program read bytes that were not the held ones
  whole,    \* all was as held when the last check began
  clock, spent, faults

world == <<input, root, out, extra, clock>>
choice == <<overlap, agree, kind>>
account == <<astray, spent, faults>>
vars == <<world, choice, at, todo, held, seen, found, result, whole, account>>
-----------------------------------------------------------------------------
(* The steps of the three operations, in order. *)

Do(a) == <<[do |-> a, on |-> None]>>
On(a, o) == <<[do |-> a, on |-> o]>>

Verifying == Do("check") \o Do("read") \o Do("check")
Producing(o) == Do("check") \o On("read", o) \o On("produce", o) \o Do("check")
Document(o) == On("create", o) \o On("fill", o)
Recheck == Do("identity") \o Do("inventory") \o Do("check")

Record ==
  Do("select") \o Do("join") \o Do("separate") \o Do("mkdir")
    \o Producing("verification") \o On("hold", "verification") \o Do("check")
    \o Document("policy") \o On("hold", "policy")
    \o Producing("pending") \o On("hold", "pending") \o Do("compare") \o Do("check")
    \o Verifying \o Do("compare") \o Do("check")
    \o Document("final") \o On("confirm", "final") \o Do("last")

Audit ==
  Do("inventory") \o Do("select") \o Do("join") \o Do("separate") \o Do("check") \o Do("mkdir")
    \o Producing("verification") \o Do("identity") \o On("hold", "verification") \o Do("check")
    \o Do("inventory") \o Do("check") \o Do("identity")
    \o Document("policy") \o On("hold", "policy") \o Do("identity")
    \o Verifying \o Do("identity") \o Do("compare")
    \o Recheck \o Do("identity") \o Do("inventory") \o Do("last")

Recover ==
  Do("select") \o Do("join") \o Do("separate") \o Do("check") \o Do("mkdir") \o Do("check")
    \o Document("pending") \o On("hold", "pending")
    \o Verifying \o Do("compare") \o Do("check") \o On("same", "pending")
    \o Do("identity") \o Document("final")
    \o On("confirm", "final") \o Do("last") \o Do("identity")

\* (seeded fault) the request is exposed before the inputs are compared again
Hasty(k) == IF k = "record" THEN Record ELSE IF k = "audit" THEN Audit ELSE
  Do("select") \o Do("join") \o Do("separate") \o Do("check") \o Do("mkdir") \o Do("check")
    \o Document("pending") \o On("hold", "pending") \o Do("check") \o Do("read") \o Do("compare")
    \o Do("identity") \o Document("final") \o Do("check")
    \o On("confirm", "final") \o Do("last") \o Do("identity")

Program(k) == IF k = "record" THEN Record ELSE IF k = "audit" THEN Audit ELSE Recover

Steps == Program(kind)
Running == result = "none" /\ at <= Len(Steps)
Step == Steps[at]
End == [do |-> "end", on |-> None]
StepAfter == IF at < Len(Steps) THEN Steps[at + 1] ELSE End
\* A recovery compares its pending request once, apart from the other files.
Checked == Names \ (IF kind = "recover" THEN {"pending"} ELSE {})
Held == {n \in Checked : held[n] # None}

\* What a program is told to open: one that verifies, also the documents that
\* its result names by digest.
Documents == {"policy", "pending"}
Told(step) == {n \in Inputs \cup (IF step.on = None THEN Documents ELSE {}) : held[n] # None}

Scope(step, holding) == IF step.do = "select" THEN Inputs
                        ELSE IF step.do \in {"check", "last"} THEN holding
                        ELSE IF step.do = "read" THEN Told(step) ELSE {}

TypeOK ==
  /\ input \in [Inputs -> Node]
  /\ root \in Roots \cup {None}
  /\ out \in [Roots -> [Outputs -> Node \cup {None}]]
  /\ {extra, overlap, agree} \subseteq BOOLEAN /\ kind \in Kinds /\ at \in Nat
  /\ todo \in SUBSET Names
  /\ held \in [Names -> Node \cup {None}]
  /\ seen \in [Names -> Bodies \cup {None}]
  /\ found \in BOOLEAN
  /\ result \in {"none", "cleaning", "removing", "accepted", "failed", "left", "stopped"}
  /\ {astray, whole} \subseteq BOOLEAN
  /\ clock \in Nat /\ spent \in 0 .. Budget /\ faults \in 0 .. Faults
  /\ \A n \in Pinned : held[n] # None => held[n].body = "selected"

Nothing == [n \in Names |-> None]

\* Only a pinned input has a body to be wrong before the first change.
Init ==
  /\ \E wrong \in SUBSET Pinned : input = [n \in Inputs |->
       [body |-> IF n \in wrong THEN "other" ELSE "selected", stamp |-> 0, mine |-> FALSE]]
  /\ root = None /\ out = [r \in Roots |-> [o \in Outputs |-> None]]
  /\ extra = FALSE /\ overlap \in BOOLEAN /\ agree \in BOOLEAN
  /\ kind \in Wanted /\ at = 1 /\ todo = Scope(Program(kind)[1], {})
  /\ held = Nothing /\ seen = Nothing /\ found = FALSE /\ result = "none"
  /\ astray = FALSE /\ whole = FALSE
  /\ clock = 1 /\ spent = 0 /\ faults = 0

\* The file at the path of a name, None when there is none.
File(n) == IF n \in Inputs THEN input[n] ELSE IF root = None THEN None ELSE out[root][n]
\* Nothing measured has changed, wherever the operation directory was moved.
AsHeld == /\ kind = "audit" => ~extra
          /\ \A n \in Held : IF n \in Inputs THEN input[n] = held[n]
                             ELSE \E r \in Roots : out[r][n] = held[n]

Advance(holding) ==
  /\ at' = at + 1
  /\ todo' = Scope(StepAfter, holding)
  /\ whole' = IF StepAfter.do = "last" THEN AsHeld ELSE whole
  /\ result' = IF StepAfter.do = "end" THEN "accepted" ELSE result

Once(step) == Running /\ Step.do = step /\ Advance(Held)
Each(step, n) == /\ Running /\ Step.do = step /\ n \in todo
                 /\ todo' = todo \ {n} /\ UNCHANGED <<at, whole, result>>
-----------------------------------------------------------------------------
(* Holding and checking. *)

Select(n) == /\ Each("select", n)
             /\ n \in Pinned => input[n].body = "selected"
             /\ held' = [held EXCEPT ![n] = input[n]]
             /\ UNCHANGED <<world, choice, seen, found, account>>

\* (seeded fault) a held file is compared by its bytes alone
CheckBytes(n) == /\ Each("check", n) \/ Each("last", n)
                 /\ File(n) # None /\ File(n).body = held[n].body
                 /\ UNCHANGED <<world, choice, held, seen, found, account>>

\* Measurement and fingerprint, by path.
CheckHeld(n) == /\ Each("check", n) \/ Each("last", n)
                /\ File(n) = held[n]
                /\ UNCHANGED <<world, choice, held, seen, found, account>>

\* Every loop over files ends when each was visited.
EndLoop == /\ todo = {} /\ \E step \in {"select", "check", "read", "last"} : Once(step)
           /\ seen' = IF StepAfter.do = "read" THEN Nothing ELSE seen
           /\ UNCHANGED <<world, choice, held, found, account>>

\* The names of the release directory, complete and no other.
Inventory == /\ Once("inventory") /\ ~extra
             /\ UNCHANGED <<world, choice, held, seen, found, account>>

\* What the documents say of each other: counts, names, digests, source, tag.
Join == /\ Once("join") /\ agree
        /\ UNCHANGED <<world, choice, held, seen, found, account>>

\* (seeded fault) the operation directory may lie inside the release
Inseparate == Once("separate") /\ UNCHANGED <<world, choice, held, seen, found, account>>

\* The operation directory overlaps nothing that is selected, and is absent.
Separate == /\ Once("separate") /\ ~overlap /\ root = None
            /\ UNCHANGED <<world, choice, held, seen, found, account>>

MakeDirectory == /\ Once("mkdir") /\ root = None
                 /\ root' = "own" /\ extra' = (extra \/ overlap)
                 /\ UNCHANGED <<input, out, clock, choice, held, seen, found, account>>

Identity == /\ Once("identity") /\ root = "own"
            /\ UNCHANGED <<world, choice, held, seen, found, account>>
-----------------------------------------------------------------------------
(* Programs run by _run_child. *)

\* The bytes measured; those of a recovery request are selected beforehand.
Measured(n) == IF n \in Held THEN held[n].body ELSE "made"

\* A program opens what it was told to by path, in its own time.
ChildReads(n) ==
  /\ Each("read", n) /\ File(n) # None
  /\ seen' = [seen EXCEPT ![n] = File(n).body]
  /\ astray' = (astray \/ File(n).body # Measured(n))
  /\ UNCHANGED <<world, choice, held, found, spent, faults>>

New(body) == [body |-> body, stamp |-> clock, mine |-> TRUE]

\* A recovery creates its request through a descriptor of the directory it
\* made; everything else goes by path.
Place(o) == IF kind = "recover" /\ o = "final" THEN "own" ELSE root

Make(o, body) == /\ Place(o) # None /\ out[Place(o)][o] = None
                 /\ out' = [out EXCEPT ![Place(o)][o] = New(body)]
                 /\ clock' = clock + 1
                 /\ UNCHANGED <<input, root, extra, choice, seen, found, account>>

Produce == Once("produce") /\ Make(Step.on, "made") /\ UNCHANGED held

\* What was written becomes held, as it is read back; only of the policy the
\* bytes are not compared with anything.
Hold == /\ Running /\ Step.do = "hold" /\ Advance((Held \cup {Step.on}) \cap Checked)
        /\ File(Step.on) # None /\ (Step.on = "policy" \/ File(Step.on).body = "made")
        /\ held' = [held EXCEPT ![Step.on] = File(Step.on)]
        /\ UNCHANGED <<world, choice, seen, found, account>>

\* The native result repeats digests of what was read; they must be those
\* measured.
Repeated == \A n \in Reported \cup Documents : seen[n] \in {None, Measured(n)}

CompareResult ==
  /\ Once("compare") /\ Repeated
  /\ UNCHANGED <<world, choice, held, seen, found, account>>
-----------------------------------------------------------------------------
(* Documents the operation itself writes. *)

Create == Once("create") /\ Make(Step.on, "half") /\ UNCHANGED held

\* Writing goes to the file that was created, wherever it stands now.
IsMine(r, o) == out[r][o] # None /\ out[r][o].mine

Fill == /\ Once("fill")
        /\ out' = [r \in Roots |-> [o \in Outputs |->
             IF o = Step.on /\ IsMine(r, o) THEN New("made") ELSE out[r][o]]]
        /\ clock' = clock + 1
        /\ UNCHANGED <<input, root, extra, choice, held, seen, found, account>>

\* The pending request is the file that was measured.
SamePending == /\ Once("same") /\ File(Step.on) = held[Step.on]
               /\ UNCHANGED <<world, choice, held, seen, found, account>>

\* Read back by path.
Confirm == /\ Once("confirm")
           /\ File(Step.on) # None /\ File(Step.on).body = "made"
           /\ UNCHANGED <<world, choice, held, seen, found, account>>
-----------------------------------------------------------------------------
(* Failure. *)

OperationStep ==
  \/ Inventory \/ Join \/ Separate \/ MakeDirectory \/ Identity \/ Produce \/ Hold \/ CompareResult
  \/ Create \/ Fill \/ Confirm \/ SamePending \/ EndLoop
  \/ \E n \in Names : Select(n) \/ CheckHeld(n) \/ ChildReads(n)

Blocked == ~ENABLED OperationStep
Exposed == \E j \in 1 .. at - 1 : Steps[j] = [do |-> "create", on |-> "final"]

\* A check that does not hold, or a step that fails.  Only the recovery
\* request is taken back.
Fail ==
  /\ Running
  /\ \/ Blocked /\ UNCHANGED faults
     \/ faults < Faults /\ faults' = faults + 1
  /\ result' = IF kind = "recover" /\ Exposed THEN "cleaning" ELSE "failed"
  /\ UNCHANGED <<world, choice, at, todo, held, seen, found, whole, astray, spent>>

\* (seeded fault) the clean-up goes by the path of the directory
FindByPath == /\ result = "cleaning" /\ result' = "removing"
              /\ found' = (root = "own" /\ IsMine("own", "final"))
              /\ UNCHANGED <<world, choice, at, todo, held, seen, whole, account>>

\* _unlink_created_final, through the descriptor of the directory it made:
\* first it looks whether that name is still its own file ...
Find == /\ result = "cleaning" /\ result' = "removing"
        /\ found' = IsMine("own", "final")
        /\ UNCHANGED <<world, choice, at, todo, held, seen, whole, account>>

\* ... then it removes what has that name.
Remove ==
  /\ result = "removing"
  /\ \/ /\ result' = "failed" /\ UNCHANGED faults
        /\ out' = IF found THEN [out EXCEPT !["own"]["final"] = None] ELSE out
     \/ found /\ faults < Faults /\ faults' = faults + 1 /\ result' = "left" /\ UNCHANGED out
  /\ UNCHANGED <<input, root, extra, clock, choice, at, todo, held, seen, found, whole, astray, spent>>

\* The machine stops, or the process is killed.
Stop == /\ result \in {"none", "cleaning", "removing"} /\ faults < Faults /\ faults' = faults + 1
        /\ result' = "stopped"
        /\ UNCHANGED <<world, choice, at, todo, held, seen, found, whole, astray, spent>>
-----------------------------------------------------------------------------
(* Other processes.  Every change of a file gives it a new fingerprint.    *)
(* What they do after the operation ended is no longer its concern.        *)

Spend == /\ result \in {"none", "cleaning", "removing"}
         /\ spent < Budget /\ spent' = spent + 1 /\ clock' = clock + 1
         /\ UNCHANGED <<choice, at, todo, held, seen, found, result, whole, astray, faults>>

RewriteInput(n) ==
  /\ Spend /\ UNCHANGED <<root, out, extra>>
  /\ \E b \in {"selected", "other"} : input' = [input EXCEPT ![n] = [body |-> b, stamp |-> clock, mine |-> FALSE]]

\* A document is written, replaced or removed.
RewriteOutput(o) ==
  /\ Spend /\ UNCHANGED <<input, root, extra>> /\ root # None
  /\ \/ out' = [out EXCEPT ![root][o] = None]
     \/ \E b \in {"made", "other"}, mine \in {FALSE, IsMine(root, o)} :
          out' = [out EXCEPT ![root][o] = [body |-> b, stamp |-> clock, mine |-> mine]]

\* Another directory is put at the path, or the first one is moved back.
SwapRoot == /\ Spend /\ UNCHANGED <<input, out, extra>>
            /\ root # None /\ root' \in Roots \ {root}

AddOrRemoveName == Spend /\ extra' = ~extra /\ UNCHANGED <<input, root, out>>

Next == \/ OperationStep \/ Fail \/ Find \/ Remove \/ Stop
        \/ \E n \in Inputs : RewriteInput(n)
        \/ \E o \in Outputs : RewriteOutput(o)
        \/ SwapRoot \/ AddOrRemoveName

Spec == Init /\ [][Next]_vars
FairSpec == Spec /\ WF_vars(OperationStep \/ Fail \/ Find \/ Remove)
-----------------------------------------------------------------------------
\* An operation reports success only about files that stood together: when its
\* last check began, everything it measured in the course of hours was as first
\* measured, the pinned inputs as selected and of one release, and no program it ran read anything
\* else, although each opened the files by path and others may have changed
\* them and changed them back.
StoodTogether ==
  result = "accepted" => whole /\ ~astray /\ agree /\ \A n \in Pinned : held[n].body = "selected"

\* "Only after both native operations pass does it expose the unchanged
\* qualification document": a final document that the operation created was
\* verified by programs that read what was measured, also while it is being
\* written, and even if the operation then failed or was killed.
ExposedIsVerified == (\E r \in Roots : IsMine(r, "final")) => ~astray

\* A recovery that fails takes its request back, also from a directory that
\* was moved away, unless the removal itself failed.
FailureLeavesNoRequest ==
  kind = "recover" /\ result = "failed" => \A r \in Roots : ~IsMine(r, "final")

\* Undisturbed, each operation succeeds with its own documents beside it; one
\* whose inputs are not those selected or disagree, or whose directory would
\* disturb the release it measures, is refused before it has written anything.
Refutable == overlap \/ ~agree \/ \E n \in Pinned : input[n].body # "selected"
QuietCompletes ==
  <>(\/ spent + faults > 0
     \/ IF Refutable THEN result = "failed" /\ root = None ELSE result = "accepted")
=============================================================================
