----------------------------- MODULE RetainedOutput -----------------------------
(***************************************************************************)
(* The retention of verified bytes by artifact-origin.py: a new directory  *)
(* is made at the output path, four files are created in it through a      *)
(* descriptor, and everything is measured and looked at once more; when    *)
(* any of it fails, the files whose inodes the call created are removed,   *)
(* and the directory if it is the call's own and empty.                    *)
(*                                                                         *)
(* A killed process leaves what it had made, and a later attempt meets it. *)
(* Other processes may move directories, replace, rewrite or remove files  *)
(* and add names at any time.                                              *)
(***************************************************************************)
EXTENDS Naturals, FiniteSets

CONSTANTS OutputNames,  \* payload.zip, origin.json, origin.sigstore.json, selection.json
          Extra,        \* any other name
          Retries, Meddlings, Faults,
          Nothing

Dirs == {"own", "other"}   \* made by this attempt, or by anybody else
Slots == OutputNames \cup {Extra}

ASSUME NameAssumption == /\ IsFiniteSet(OutputNames) /\ Extra \notin OutputNames
                         /\ Nothing \notin Dirs \cup Slots \cup {"run", "others"}
ASSUME BoundAssumption == Retries \in Nat /\ Meddlings \in Nat /\ Faults \in Nat

VARIABLES
  place,    \* the directory that has the output's name
  parent,   \* the parent path leads to the directory it led to at first
  maker,    \* who made the file in an entry: this attempt, others, or none is there
  data,     \* its bytes
  phase,
  identity, \* the inode recorded for the root
  fd,       \* the directory that the descriptor is open on
  created,  \* the names whose inodes this attempt created
  todo,     \* names that the current loop has still to visit
  \* accounts
  late,     \* others acted after the names of the directory were read
  raced,    \* others acted between a look and the removal that follows it
  retries, meddled, faults

files == <<maker, data>>
roots == <<place, parent, identity, fd>>
account == <<late, raced, retries, meddled, faults>>
retainVars == <<files, roots, phase, created, todo, account>>

Ends == {"retained", "refused", "failed", "cleaned", "left", "killed"}
Cleaning == {"clean", "unlink", "look", "rmdir"}
Phases == {"preflight", "ready", "made", "identified", "secured", "create", "fill", "list",
           "measure", "final", "last"} \cup Cleaning

RetainTypeOK ==
  /\ place \in Dirs \cup {Nothing} /\ parent \in BOOLEAN
  /\ maker \in [Dirs -> [Slots -> {"run", "others", Nothing}]]
  /\ data \in [Dirs -> [Slots -> {"verified", "half", "other"}]]
  /\ phase \in Phases \cup Ends
  /\ identity \in Dirs \cup {Nothing} /\ fd \in {Nothing, identity}
  /\ created \subseteq OutputNames /\ todo \subseteq OutputNames
  /\ late \in BOOLEAN /\ raced \in BOOLEAN
  /\ retries \in 0 .. Retries /\ meddled \in 0 .. Meddlings /\ faults \in 0 .. Faults

RetainInit ==
  /\ place \in {Nothing, "other"} /\ parent = TRUE
  /\ \E m \in {"others", Nothing} :
       maker = [d \in Dirs |-> [s \in Slots |-> IF d = "other" THEN m ELSE Nothing]]
  /\ data = [d \in Dirs |-> [s \in Slots |-> "other"]]
  /\ phase = "preflight" /\ identity = Nothing /\ fd = Nothing /\ created = {} /\ todo = OutputNames
  /\ late = FALSE /\ raced = FALSE /\ retries = 0 /\ meddled = 0 /\ faults = 0

Goto(from, to) == phase = from /\ phase' = to
-----------------------------------------------------------------------------
(* Making the root. *)

\* (seeded fault) a directory that exists passes
LeavePreflight == Goto("preflight", "ready") /\ UNCHANGED <<files, roots, created, todo, account>>

\* The output must be absent; asked before any download and again before mkdir.
Preflight == /\ Goto("preflight", "ready") /\ place = Nothing /\ parent
             /\ UNCHANGED <<files, roots, created, todo, account>>
RefuseOutput == /\ Goto("preflight", "refused") /\ ~(place = Nothing /\ parent)
                /\ UNCHANGED <<files, roots, created, todo, account>>

\* mkdirat, through the descriptor of the parent.
MakeRoot == /\ Goto("ready", "made") /\ place = Nothing /\ parent /\ place' = "own"
            /\ UNCHANGED <<files, parent, identity, fd, created, todo, account>>

\* The identity is that of whatever has the name by now.
Identify == /\ Goto("made", "identified") /\ place # Nothing /\ identity' = place
            /\ UNCHANGED <<files, place, parent, fd, created, todo, account>>
Secure == /\ Goto("identified", "secured") /\ place = identity
          /\ UNCHANGED <<files, roots, created, todo, account>>

OpenRoot == /\ Goto("secured", "create") /\ place = identity /\ fd' = place
            /\ UNCHANGED <<files, place, parent, identity, created, todo, account>>
-----------------------------------------------------------------------------
(* Writing and measuring, through the descriptor. *)

\* O_EXCL: nothing has the name.
Create(n) == /\ Goto("create", "fill") /\ n \in todo /\ maker[fd][n] = Nothing
             /\ maker' = [maker EXCEPT ![fd][n] = "run"] /\ data' = [data EXCEPT ![fd][n] = "half"]
             /\ created' = created \cup {n} /\ todo' = {n}
             /\ UNCHANGED <<roots, account>>

\* The bytes go to the file created; the name must still be that file's.
Fill(n) == /\ phase = "fill" /\ n \in todo /\ maker[fd][n] = "run"
           /\ data' = [data EXCEPT ![fd][n] = "verified"]
           /\ todo' = OutputNames \ created /\ phase' = IF created = OutputNames THEN "list" ELSE "create"
           /\ UNCHANGED <<maker, roots, created, account>>

\* (seeded fault) the four names are there, and perhaps others
ListFour == /\ Goto("list", "measure") /\ \A n \in OutputNames : maker[fd][n] # Nothing
            /\ todo' = OutputNames /\ late' = FALSE
            /\ UNCHANGED <<files, roots, created, raced, retries, meddled, faults>>

List == /\ Goto("list", "measure") /\ \A s \in Slots : maker[fd][s] # Nothing <=> s \in OutputNames
        /\ todo' = OutputNames /\ late' = FALSE
        /\ UNCHANGED <<files, roots, created, raced, retries, meddled, faults>>

Measure(n) == /\ phase = "measure" /\ n \in todo /\ maker[fd][n] # Nothing /\ data[fd][n] = "verified"
              /\ todo' = todo \ {n} /\ phase' = IF todo = {n} THEN "final" ELSE phase
              /\ UNCHANGED <<files, roots, created, account>>

\* The job and the artifacts are asked for once more.
FinalCheck == Goto("final", "last") /\ UNCHANGED <<files, roots, created, todo, account>>
LastLook == /\ Goto("last", "retained") /\ place = identity /\ parent
            /\ UNCHANGED <<files, roots, created, todo, account>>
-----------------------------------------------------------------------------
(* Failure and clean-up. *)

WriteStep == \/ Preflight \/ MakeRoot \/ Identify \/ Secure \/ OpenRoot \/ List
             \/ (\E n \in OutputNames : Create(n) \/ Fill(n) \/ Measure(n)) \/ FinalCheck \/ LastLook

Working == phase \in Phases \ (Cleaning \cup {"preflight"})
\* The condition under which the step at hand cannot be taken.
Hindered ==
  \/ phase = "ready" /\ ~(place = Nothing /\ parent)
  \/ phase = "made" /\ place = Nothing
  \/ phase \in {"identified", "secured"} /\ place # identity
  \/ phase = "create" /\ \A n \in todo : maker[fd][n] # Nothing
  \/ phase = "fill" /\ \A n \in todo : maker[fd][n] # "run"
  \/ phase = "list" /\ ~\A s \in Slots : maker[fd][s] # Nothing <=> s \in OutputNames
  \/ phase = "measure" /\ \E n \in todo : maker[fd][n] = Nothing \/ data[fd][n] # "verified"
  \/ phase = "last" /\ ~(place = identity /\ parent)

\* (seeded fault) only the directory is cleaned up
FailToRoot == /\ Working
              /\ \/ Hindered /\ UNCHANGED faults
                 \/ faults < Faults /\ faults' = faults + 1
              /\ phase' = IF phase = "ready" THEN "failed" ELSE "look"
              /\ todo' = created
              /\ UNCHANGED <<files, roots, created, late, raced, retries, meddled>>

Fail == /\ Working
        /\ \/ Hindered /\ UNCHANGED faults
           \/ faults < Faults /\ faults' = faults + 1
        /\ phase' = IF phase = "ready" THEN "failed" ELSE IF fd = Nothing THEN "look" ELSE "clean"
        /\ todo' = created
        /\ UNCHANGED <<files, roots, created, late, raced, retries, meddled>>

\* A name is gone, or still that of the file created: then it is removed next.
Gone(n) == /\ phase = "clean" /\ n \in todo /\ maker[fd][n] = Nothing /\ todo' = todo \ {n}
           /\ UNCHANGED <<files, roots, phase, created, account>>

\* (seeded fault) the name is removed whatever has it
FindAny(n) == /\ phase = "clean" /\ n \in todo /\ maker[fd][n] # Nothing
              /\ phase' = "unlink" /\ todo' = {n} /\ created' = todo \ {n} /\ raced' = FALSE
              /\ UNCHANGED <<files, roots, late, retries, meddled, faults>>

Find(n) == /\ phase = "clean" /\ n \in todo /\ maker[fd][n] = "run"
           /\ phase' = "unlink" /\ todo' = {n} /\ created' = todo \ {n} /\ raced' = FALSE
           /\ UNCHANGED <<files, roots, late, retries, meddled, faults>>

Unlink(n) == /\ Goto("unlink", "clean") /\ n \in todo
             /\ maker' = [maker EXCEPT ![fd][n] = Nothing] /\ todo' = created
             /\ UNCHANGED <<data, roots, created, account>>

\* Somebody else's file has the name; a removal fails.
LeaveFile(n) == /\ phase = "clean" /\ n \in todo /\ maker[fd][n] = "others" /\ phase' = "left"
                /\ UNCHANGED <<files, roots, created, todo, account>>
FailToClean == /\ phase \in Cleaning /\ faults < Faults /\ faults' = faults + 1 /\ phase' = "left"
               /\ UNCHANGED <<files, roots, created, todo, late, raced, retries, meddled>>

NoEntry(d) == \A s \in Slots : maker[d][s] = Nothing
Emptied == /\ phase = "clean" /\ todo = {} /\ phase' = IF NoEntry(fd) THEN "look" ELSE "left"
           /\ UNCHANGED <<files, roots, created, todo, account>>

LookForOwn == /\ phase = "look" /\ place # Nothing /\ place = identity /\ phase' = "rmdir" /\ raced' = FALSE
              /\ UNCHANGED <<files, roots, created, todo, late, retries, meddled, faults>>
RootGone == /\ Goto("look", "cleaned") /\ place = Nothing
            /\ UNCHANGED <<files, roots, created, todo, account>>
LeaveRoot == /\ Goto("look", "left") /\ place # Nothing /\ place # identity
             /\ UNCHANGED <<files, roots, created, todo, account>>

\* rmdir refuses a directory that has entries.
RemoveRoot == /\ phase = "rmdir"
              /\ IF place = Nothing \/ ~NoEntry(place) THEN phase' = "left" /\ UNCHANGED place
                 ELSE phase' = "cleaned" /\ place' = Nothing
              /\ UNCHANGED <<files, parent, identity, fd, created, todo, account>>

CleanStep == \/ Emptied \/ LookForOwn \/ RootGone \/ LeaveRoot \/ RemoveRoot
             \/ \E n \in OutputNames : Gone(n) \/ Find(n) \/ Unlink(n) \/ LeaveFile(n)

Kill == /\ phase \in Phases /\ faults < Faults /\ faults' = faults + 1 /\ phase' = "killed"
        /\ UNCHANGED <<files, roots, created, todo, late, raced, retries, meddled>>

\* Another attempt at the same path: what stands there is no longer its own.
Retry ==
  /\ phase \in Ends \ {"retained"} /\ retries < Retries /\ retries' = retries + 1
  /\ phase' = "preflight" /\ identity' = Nothing /\ fd' = Nothing /\ created' = {} /\ todo' = OutputNames
  /\ place' = IF place = Nothing THEN Nothing ELSE "other"
  /\ LET there == IF place = "own" THEN "own" ELSE "other" IN
       /\ maker' = [d \in Dirs |-> [s \in Slots |->
            IF d = "other" /\ maker[there][s] # Nothing THEN "others" ELSE Nothing]]
       /\ data' = [d \in Dirs |-> data[there]]
  /\ late' = FALSE /\ UNCHANGED <<parent, raced, meddled, faults>>
-----------------------------------------------------------------------------
(* Other processes. *)

Meddle == /\ meddled < Meddlings /\ meddled' = meddled + 1 /\ late' = TRUE /\ raced' = TRUE
          /\ UNCHANGED <<phase, identity, fd, created, todo, retries, faults>>

\* A directory is moved to or away from the path, or the parent is.
MoveRoot == Meddle /\ place' \in Dirs \cup {Nothing} /\ UNCHANGED <<files, parent>>
MoveParent == Meddle /\ parent' = ~parent /\ UNCHANGED <<files, place>>

\* A file is put under a name, or what has the name is removed.
Put(d, s) == /\ Meddle /\ UNCHANGED <<place, parent>>
             /\ \E m \in {"others", Nothing} : maker' = [maker EXCEPT ![d][s] = m]
             /\ \E bytes \in {"verified", "other"} : data' = [data EXCEPT ![d][s] = bytes]
\* A file is rewritten in place.
RewriteFile(d, s) == /\ Meddle /\ maker[d][s] # Nothing /\ UNCHANGED <<maker, place, parent>>
                     /\ \E bytes \in {"verified", "other"} : data' = [data EXCEPT ![d][s] = bytes]

RunStep == WriteStep \/ RefuseOutput \/ Fail \/ CleanStep \/ FailToClean
OthersStep == \/ MoveRoot \/ MoveParent
              \/ \E d \in Dirs, s \in Slots : Put(d, s) \/ RewriteFile(d, s)
RetainNext == RunStep \/ Kill \/ Retry \/ OthersStep

RetainSpec == RetainInit /\ [][RetainNext]_retainVars
FairRetainSpec == /\ RetainSpec
                  /\ WF_retainVars(WriteStep \/ RefuseOutput \/ (Hindered /\ Fail) \/ CleanStep)
-----------------------------------------------------------------------------
\* A directory that is reported retained is the one this attempt opened and has
\* exactly the four names with the verified bytes, unless others acted after the
\* names were read: what they did before, and what a killed attempt left, is
\* either found or cannot matter.
RetainedWhole ==
  phase = "retained" /\ ~late =>
    /\ place = fd /\ created = OutputNames /\ maker[place][Extra] = Nothing
    /\ \A n \in OutputNames : maker[place][n] # Nothing /\ data[place][n] = "verified"

\* A failure that does not ask for a clean-up by hand has left no file of its
\* own anywhere, in whatever order files were made, replaced and moved.
CleanedLeavesNothing == phase \in {"cleaned", "failed", "refused"} => \A d \in Dirs, s \in Slots : maker[d][s] # "run"

\* Neither retention nor its clean-up overwrites or removes a file that others
\* made, or a directory that is not the one recorded as its own and empty, save
\* one that others put there between a look and the removal it was meant for.
OthersKept ==
  [][RunStep /\ ~raced =>
       /\ \A d \in Dirs, s \in Slots :
            maker[d][s] = "others" => maker'[d][s] = "others" /\ data'[d][s] = data[d][s]
       /\ place # place' => place = Nothing \/ (place = identity /\ NoEntry(place))]_retainVars

\* Undisturbed, an attempt at a fresh path retains; at any other it refuses.
QuietRetains ==
  <>(\/ phase = "retained" \/ meddled + faults > 0
     \/ phase = "refused" /\ place # Nothing)
=============================================================================
