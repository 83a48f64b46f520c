--------------------------- MODULE RuntimeInspection ---------------------------
(***************************************************************************)
(* _inspect_runtime of materialize-aros-tools-runtime.py: one held pass    *)
(* over a runtime directory that crossed an artifact transport.  Frozen,   *)
(* it only accepts a closure that stood still; restoring, it gives back    *)
(* the executable modes that the transport drops, or takes them away again *)
(* when the final verification fails.                                      *)
(*                                                                         *)
(* Around it: other processes that edit, replace, chmod, add and remove    *)
(* files between any two of its steps (also back to what they were), and   *)
(* a machine that stops half way, after which the pass is run again.       *)
(***************************************************************************)
EXTENDS Integers, FiniteSets

CONSTANTS Files,    \* the payload, the manifest and the receipt
          Signed,   \* those whose modes the manifest signs
          Native,   \* the executables among them
          Wanted,   \* the kinds of pass that are run
          Budget,   \* changes that others make
          Passes,   \* how often the command is run
          Stops,    \* how often its machine stops or a chmod fails
          Damaged,  \* whether the transport may also damage bytes
          Nothing

Generations == 0 .. Budget   \* successive files under one name
Bodies == {"good", "bad"}
Modes == {"plain", "exec", "other"}
Kinds == {"frozen", "restore"}

ASSUME NativeAssumption == Native \subseteq Signed /\ Signed \subseteq Files /\ IsFiniteSet(Files)
ASSUME BoundAssumption == Budget \in Nat /\ Passes \in Nat /\ Stops \in Nat
ASSUME KindAssumption == Wanted \subseteq Kinds
ASSUME NoneAssumption == Nothing \notin Modes /\ Nothing \notin [gen : Generations, tick : Nat]

VARIABLES
  \* the directory
  node,    \* per name and generation: bytes, mode and change time
  gen,     \* the generation a name stands for
  dir,     \* an undeclared name, the directory's change time, its path taken over
  \* the pass
  doing, kind, pending,
  held,    \* open descriptors: generation and the change time seen on opening
  since,   \* the change time of the directory before the second look
  changed, \* modes this pass replaced, in order to put them back
  result,
  \* accounts
  whole,   \* the closure was as signed when the last look began
  before,  \* the modes when the pass began
  touched, \* files others changed during the pass
  late,    \* the same, since the second look began
  spent, passes, stops

fs == <<node, gen, dir>>
pass == <<doing, kind, pending, held, since, changed, result>>
account == <<before, spent, passes, stops>>
inspectVars == <<fs, pass, whole, touched, late, account>>

Steps == {"idle", "list", "open", "hash", "recheck", "settle", "grant", "verify", "undo"}

InspectTypeOK ==
  /\ node \in [Files -> [Generations -> [body : Bodies, mode : Modes, tick : Nat]]]
  /\ gen \in [Files -> Generations]
  /\ dir \in [extra : BOOLEAN, tick : Nat, moved : BOOLEAN]
  /\ doing \in Steps /\ kind \in Kinds /\ pending \in SUBSET Files
  /\ held \in [Files -> [gen : Generations, tick : Nat] \cup {Nothing}]
  /\ since \in Nat
  /\ changed \in [Files -> Modes \cup {Nothing}]
  /\ result \in {"none", "accepted", "failed", "broken", "stopped"}
  /\ whole \in BOOLEAN /\ before \in [Files -> Modes] /\ touched \in SUBSET Files /\ late \in SUBSET Files
  /\ spent \in 0 .. Budget /\ passes \in 0 .. Passes /\ stops \in 0 .. Stops

Named(f) == node[f][gen[f]]
Open(f) == node[f][held[f].gen]
Expected(f) == IF f \in Native THEN "exec" ELSE "plain"
\* (seeded fault) only modes the transport dropped can be restored
DroppedMode(f) == IF kind = "restore" /\ f \in Native THEN {"plain"} ELSE {Expected(f)}

\* Nothing is said of the modes of the manifest and the receipt.
SignedMode(f) == IF f \in Signed THEN {Expected(f)} ELSE Modes
AllowedMode(f) == SignedMode(f) \cup (IF kind = "restore" /\ f \in Native THEN {"plain"} ELSE {})
Empty == [f \in Files |-> Nothing]

\* The transport keeps names and bytes and drops the executable bits.
InspectInit ==
  /\ \E lost \in SUBSET Files : node = [f \in Files |-> [g \in Generations |->
       [body |-> IF Damaged /\ f \in lost THEN "bad" ELSE "good", mode |-> "plain", tick |-> 0]]]
  /\ gen = [f \in Files |-> 0]
  /\ dir = [extra |-> FALSE, tick |-> 0, moved |-> FALSE]
  /\ doing = "idle" /\ kind = "restore" /\ pending = {} /\ held = Empty /\ since = 0
  /\ changed = Empty /\ result = "none" /\ whole = FALSE
  /\ before = [f \in Files |-> "plain"] /\ touched = {} /\ late = {}
  /\ spent = 0 /\ passes = 0 /\ stops = 0

Begin(k) ==
  /\ doing = "idle" /\ passes < Passes
  /\ doing' = "list" /\ kind' = k /\ passes' = passes + 1
  /\ pending' = {} /\ held' = Empty /\ changed' = Empty /\ result' = "none"
  /\ since' = 0 /\ whole' = FALSE /\ touched' = {} /\ late' = {}
  /\ before' = [f \in Files |-> Named(f).mode]
  /\ UNCHANGED <<fs, spent, stops>>

Loop(step, f) == doing = step /\ f \in pending /\ pending' = pending \ {f} /\ UNCHANGED doing
Enter(from, to, fileset) == doing = from /\ pending = {} /\ doing' = to /\ pending' = fileset
Finish(how) == doing' = "idle" /\ result' = how
Keep == UNCHANGED <<fs, kind, since, changed, result, touched, late, account>>
-----------------------------------------------------------------------------
(* The first look: names, descriptors, bytes and modes. *)

ListNames == /\ Enter("list", "open", Files) /\ ~dir.extra
             /\ Keep /\ UNCHANGED <<held, whole>>

OpenFile(f) == /\ Loop("open", f)
               /\ held' = [held EXCEPT ![f] = [gen |-> gen[f], tick |-> Named(f).tick]]
               /\ Keep /\ UNCHANGED whole

Opened == Enter("open", "hash", Files) /\ Keep /\ UNCHANGED <<held, whole>>

Hash(f) == /\ Loop("hash", f)
           /\ Open(f).body = "good" /\ Open(f).mode \in AllowedMode(f)
           /\ Keep /\ UNCHANGED <<held, whole>>

\* (seeded fault) a restoration does not look again
NoSecondLook ==
  /\ doing = "hash" /\ pending = {} /\ doing' = IF kind = "restore" THEN "grant" ELSE "recheck"
  /\ pending' = IF kind = "restore" THEN Native ELSE Files
  /\ since' = dir.tick /\ late' = {}
  /\ UNCHANGED <<fs, kind, held, changed, result, whole, touched, account>>

\* The second look begins with the state of the directory itself.
LookAgain == /\ Enter("hash", "recheck", Files)
             /\ since' = dir.tick /\ late' = {}
             /\ ~dir.extra /\ ~dir.moved
             /\ UNCHANGED <<fs, kind, held, changed, result, whole, touched, account>>

Recheck(f) == /\ Loop("recheck", f)
              /\ gen[f] = held[f].gen
              /\ Open(f).body = "good" /\ Open(f).mode \in AllowedMode(f)
              /\ Keep /\ UNCHANGED <<held, whole>>
-----------------------------------------------------------------------------
(* Frozen: a last look that nothing may have changed since the first. *)

AsSigned == /\ ~dir.extra /\ ~dir.moved
            /\ \A f \in Files : Named(f).body = "good" /\ Named(f).mode \in SignedMode(f)

LastLook == /\ kind = "frozen" /\ Enter("recheck", "settle", Files) /\ ~dir.extra
            /\ whole' = AsSigned
            /\ Keep /\ UNCHANGED held

\* (seeded fault) only the identity of a file is compared again
SettleName(f) == /\ Loop("settle", f)
                 /\ gen[f] = held[f].gen
                 /\ Keep /\ UNCHANGED <<held, whole>>

Settle(f) == /\ Loop("settle", f)
             /\ gen[f] = held[f].gen /\ Open(f).tick = held[f].tick
             /\ Keep /\ UNCHANGED <<held, whole>>

AcceptFrozen ==
  /\ doing = "settle" /\ pending = {}
  /\ ~dir.moved /\ ~dir.extra /\ dir.tick = since
  /\ Finish("accepted")
  /\ UNCHANGED <<fs, kind, pending, held, since, changed, whole, touched, late, account>>
-----------------------------------------------------------------------------
(* Restoring: modes are granted through the held descriptors, then the     *)
(* directory is verified by path as materialize left it.                   *)

BeginGrant == /\ kind = "restore" /\ Enter("recheck", "grant", Native)
              /\ Keep /\ UNCHANGED <<held, whole>>

\* Any change of its inode moves the change time of a file.
WithMode(n, m) == [body |-> n.body, mode |-> m, tick |-> n.tick + 1]

SetMode(f, m) == node' = [node EXCEPT ![f][held[f].gen] = WithMode(@, m)]

Grant(f) ==
  /\ Loop("grant", f)
  /\ IF Open(f).mode = Expected(f) THEN UNCHANGED <<node, changed>>
     ELSE SetMode(f, Expected(f)) /\ changed' = [changed EXCEPT ![f] = Open(f).mode]
  /\ UNCHANGED <<gen, dir, kind, held, since, result, whole, touched, late, account>>

\* Or the chmod fails, and what was granted before has to be put back.
GrantFails(f) ==
  /\ doing = "grant" /\ f \in pending /\ Open(f).mode # Expected(f)
  /\ stops < Stops /\ stops' = stops + 1 /\ doing' = "undo"
  /\ UNCHANGED <<fs, kind, pending, held, since, changed, result, whole, touched, late, before, spent, passes>>

\* verify_extracted: names, then the bytes and mode of each file by path.
BeginVerify == /\ Enter("grant", "verify", Files) /\ ~dir.extra
               /\ Keep /\ UNCHANGED <<held, whole>>

VerifyFile(f) == /\ Loop("verify", f)
                 /\ Named(f).body = "good" /\ Named(f).mode \in SignedMode(f) /\ ~dir.moved
                 /\ Keep /\ UNCHANGED <<held, whole>>

AcceptRestored ==
  /\ doing = "verify" /\ pending = {} /\ Finish("accepted")
  /\ UNCHANGED <<fs, kind, pending, held, since, changed, whole, touched, late, account>>

\* (seeded fault) a failed verification leaves the granted modes
KeepModes ==
  /\ doing = "undo" /\ Finish("failed")
  /\ UNCHANGED <<fs, kind, pending, held, since, changed, whole, touched, late, account>>

\* Every mode this pass replaced is put back, or the failure says otherwise.
Undo ==
  /\ doing = "undo"
  /\ \E failing \in SUBSET {f \in Files : changed[f] # Nothing} :
       /\ failing # {} => stops < Stops
       /\ stops' = IF failing = {} THEN stops ELSE stops + 1
       /\ node' = [f \in Files |->
            IF changed[f] = Nothing \/ f \in failing THEN node[f]
            ELSE [node[f] EXCEPT ![held[f].gen] = WithMode(@, changed[f])]]
       /\ Finish(IF failing = {} THEN "failed" ELSE "broken")
  /\ UNCHANGED <<gen, dir, kind, pending, held, since, changed, whole, touched, late, before, spent, passes>>
-----------------------------------------------------------------------------
PassStep ==
  \/ ListNames \/ Opened \/ LookAgain \/ LastLook \/ AcceptFrozen
  \/ BeginGrant \/ BeginVerify \/ AcceptRestored
  \/ \E f \in Files : OpenFile(f) \/ Hash(f) \/ Recheck(f) \/ Settle(f) \/ Grant(f) \/ VerifyFile(f)

CheckFails == ~ENABLED PassStep

\* A check that does not hold ends the pass, from the first grant on by way of
\* the roll-back.
Refuse ==
  /\ doing \notin {"idle", "undo"} /\ CheckFails
  /\ IF doing \in {"grant", "verify"} THEN doing' = "undo" /\ UNCHANGED result ELSE Finish("failed")
  /\ UNCHANGED <<fs, kind, pending, held, since, changed, whole, touched, late, account>>

StopMachine ==
  /\ doing # "idle" /\ stops < Stops /\ stops' = stops + 1
  /\ Finish("stopped")
  /\ UNCHANGED <<fs, kind, pending, held, since, changed, whole, touched, late, before, spent, passes>>

(* Other processes.  Whatever they change in a file or a directory moves   *)
(* its change time, and a new file under an old name is another inode.     *)

Spend == spent < Budget /\ spent' = spent + 1 /\ UNCHANGED <<before, passes, stops>>
Touch(f) == touched' = touched \cup {f} /\ late' = late \cup {f}

Edit(f) ==
  /\ Spend /\ Touch(f)
  /\ \E b \in Bodies, m \in Modes : node' = [node EXCEPT ![f][gen[f]] =
       [body |-> b, mode |-> m, tick |-> @.tick + 1]]
  /\ UNCHANGED <<gen, dir, pass, whole>>

Substitute(f) ==
  /\ Spend /\ Touch(f) /\ gen[f] < Budget
  /\ gen' = [gen EXCEPT ![f] = @ + 1]
  /\ \E b \in Bodies, m \in Modes : node' = [node EXCEPT
       ![f][gen[f] + 1] = [body |-> b, mode |-> m, tick |-> @.tick + 1],
       ![f][gen[f]] = WithMode(@, @.mode)]
  /\ dir' = [dir EXCEPT !.tick = @ + 1]
  /\ UNCHANGED <<pass, whole>>

AddOrRemoveName ==
  /\ Spend /\ dir' = [dir EXCEPT !.extra = ~@, !.tick = @ + 1]
  /\ UNCHANGED <<node, gen, pass, whole, touched, late>>

MoveDirectory ==
  /\ Spend /\ dir' = [dir EXCEPT !.moved = TRUE]
  /\ UNCHANGED <<node, gen, pass, whole, touched, late>>

InspectNext == \/ \E k \in Wanted : Begin(k)
               \/ PassStep \/ Undo \/ Refuse \/ StopMachine
               \/ \E f \in Files : GrantFails(f) \/ Edit(f) \/ Substitute(f)
               \/ AddOrRemoveName \/ MoveDirectory

InspectSpec == InspectInit /\ [][InspectNext]_inspectVars
FairInspectSpec == /\ InspectSpec
                   /\ WF_inspectVars(PassStep \/ Undo \/ Refuse) /\ WF_inspectVars(Begin("restore"))
-----------------------------------------------------------------------------
\* A frozen pass is a snapshot: if it accepts, there was one moment (when its
\* last look began) at which every name, byte and mode of the closure was as
\* signed, although files were read one after the other and others may have
\* changed and restored any of them in between.
FrozenSnapshot == result = "accepted" /\ kind = "frozen" => whole

\* Restoring is all or nothing: a pass that reports failure leaves the mode of
\* every file as it found it, and one that reports success leaves them all
\* executable with signed bytes (files that others changed meanwhile aside).
RestoreAllOrNothing ==
  kind = "restore" => \A f \in Files \ touched :
    /\ result = "failed" => Named(f).mode = before[f]
    /\ result = "accepted" => Named(f).mode \in SignedMode(f) /\ Named(f).body = "good"

\* No mode is granted on the strength of one reading: a file that was damaged
\* when the second look began, by the transport or by anyone since, keeps the
\* restoration from changing the mode of any other file.
NothingGrantedWhenDamaged ==
  [][\A f \in Files, g \in Native :
       Grant(g) /\ node' # node => f \in late \/ Named(f).body = "good"]_inspectVars

\* A restoration that a lost machine interrupted can be run again, whichever
\* modes it had already granted: unless bytes were damaged or others interfered
\* (or the passes the bound allows went to inspections) one is accepted.
RestoreResumes ==
  <>(\/ result = "accepted" \/ spent > 0 \/ kind = "frozen"
     \/ \E f \in Files : Named(f).body = "bad")
=============================================================================
