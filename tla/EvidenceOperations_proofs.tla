------------------------ MODULE EvidenceOperations_proofs ------------------------
(***************************************************************************)
(* Proofs about EvidenceOperations, for any inputs, any number of changes  *)
(* by others and any number of failures.                                   *)
(*                                                                         *)
(* A file that is no longer as it was measured never is again: whatever    *)
(* others write has a new fingerprint.  So a program that read other bytes *)
(* of an input leaves a file that the next check cannot pass, and the last *)
(* check cannot pass a file that had changed when it began.  A directory   *)
(* that is moved away and back keeps its files as measured: what programs  *)
(* read there is vouched for by the digests in the native result.          *)
(***************************************************************************)
EXTENDS EvidenceOperations, TLAPS

(* Where the steps that matter stand; the lemmas below say what they are.  *)

SelectAt(k) == IF k = "audit" THEN 2 ELSE 1
JoinAt(k) == IF k = "audit" THEN 3 ELSE 2
\* the program that verifies, and the comparison of its result
VerifyAt(k) == IF k = "recover" THEN 11 ELSE 22
CompareAt(k) == IF k = "record" THEN 24 ELSE IF k = "audit" THEN 25 ELSE 13
\* the final document, which an audit does not have
CreateAt(k) == IF k = "record" THEN 26 ELSE IF k = "audit" THEN 32 ELSE 17
LastAt(k) == IF k = "record" THEN 29 ELSE IF k = "audit" THEN 31 ELSE 20

Doing(d) == at <= Len(Steps) /\ Step.do = d

\* A name as it was measured, wherever the operation directory is.
Unchanged(n) == IF n \in Inputs THEN input[n] = held[n] ELSE \E r \in Roots : out[r][n] = held[n]

\* Every fingerprint lies in the past.
Stamped ==
  /\ \A n \in Inputs : input[n].stamp < clock
  /\ \A r \in Roots, o \in Outputs : out[r][o] # None => out[r][o].stamp < clock
  /\ \A n \in Names : held[n] # None => held[n].stamp < clock

\* Where the operation is, and what it still has to visit there.
Placed ==
  /\ at \in 1 .. Len(Steps) + 1
  /\ result = "none" => at <= Len(Steps)
  /\ result = "accepted" => at = Len(Steps) + 1
  /\ Doing("check") \/ Doing("last") => todo \subseteq Held
  /\ Doing("read") => todo \subseteq Told(Step) /\ \A n \in todo : seen[n] = None
  /\ Doing("select") => todo \subseteq Inputs /\ \A n \in Inputs \ todo : held[n] # None
  /\ at > SelectAt(kind) => \A n \in Inputs : held[n] # None
  /\ at > JoinAt(kind) => agree

\* A program that read astray cannot stay unnoticed: either it read a document
\* that its result must name, or a file has changed that the next check meets.
Misread(o) == seen[o] \notin {None, Measured(o)}
Noticed ==
  \/ at \in VerifyAt(kind) .. CompareAt(kind) /\ \E o \in Documents : Misread(o)
  \/ (Doing("read") \/ Doing("produce")) /\ \E n \in Inputs : ~Unchanged(n)
  \/ Doing("check") /\ \E n \in todo \cap Inputs : ~Unchanged(n)
Astray == astray => Noticed

\* The last check cannot end when something had changed before it began.
Whole ==
  /\ at = LastAt(kind) /\ ~whole => \E n \in todo : ~Unchanged(n)
  /\ at > LastAt(kind) => whole

\* A final document was created in its turn; that of a recovery stands in the
\* directory it made until the clean-up has seen it.
Final ==
  \A r \in Roots : IsMine(r, "final") =>
    /\ kind # "audit" /\ at > CreateAt(kind)
    /\ kind = "recover" => r = "own" /\ result # "failed" /\ (result = "removing" => found)

IInv == TypeOK /\ Stamped /\ Placed /\ Astray /\ Whole /\ Final
-----------------------------------------------------------------------------
(* What the three programs look like.                                      *)

LEMMA Order == ASSUME NEW k \in Kinds
  PROVE /\ Len(Program(k)) \in Nat
        /\ 1 <= SelectAt(k) /\ SelectAt(k) < JoinAt(k) /\ JoinAt(k) < VerifyAt(k)
        /\ VerifyAt(k) < CompareAt(k) /\ CompareAt(k) < CreateAt(k)
        /\ CompareAt(k) < LastAt(k) /\ LastAt(k) <= Len(Program(k))
        /\ {SelectAt(k), JoinAt(k), VerifyAt(k), CompareAt(k), CreateAt(k), LastAt(k)} \subseteq Nat
        /\ k # "audit" => CreateAt(k) < LastAt(k)
        /\ Program(k)[CompareAt(k)].do = "compare"
        /\ Program(k)[1].do \in {"select", "inventory"}
<1> USE DEF Kinds, SelectAt, JoinAt, VerifyAt, CompareAt, CreateAt, LastAt, Program, Record, Audit,
            Recover, Verifying, Producing, Document, Recheck, Do, On
<1>1. CASE k = "record"  BY <1>1
<1>2. CASE k = "audit"   BY <1>2
<1>3. CASE k = "recover" BY <1>3
<1> QED  BY <1>1, <1>2, <1>3

LEMMA Where == ASSUME NEW k \in Kinds, NEW i \in 1 .. Len(Program(k))
  PROVE LET step == Program(k)[i] IN
        /\ step.do = "select" <=> i = SelectAt(k)
        /\ step.do = "join" <=> i = JoinAt(k)
        /\ step.do = "last" <=> i = LastAt(k)
        /\ step.do = "read" => SelectAt(k) < i /\ i <= VerifyAt(k)
        /\ step.do \in {"produce", "hold"} => SelectAt(k) < i /\ i < VerifyAt(k)
        /\ i >= CreateAt(k) => step.do \notin {"read", "produce", "check"}
<1> USE DEF SelectAt, JoinAt, VerifyAt, CreateAt, LastAt, Program, Record, Audit, Recover, Verifying,
            Producing, Document, Recheck, Do, On
<1>1. ASSUME Program(k)[i].do = "select" PROVE i = SelectAt(k)
  <2> USE <1>1
  <2>1. CASE k = "record"   BY <2>1
  <2>2. CASE k = "audit"    BY <2>2
  <2>3. CASE k = "recover"  BY <2>3
  <2> QED  BY <2>1, <2>2, <2>3 DEF Kinds
<1>2. ASSUME i = SelectAt(k) PROVE Program(k)[i].do = "select"
  <2> USE <1>2
  <2>1. CASE k = "record"   BY <2>1
  <2>2. CASE k = "audit"    BY <2>2
  <2>3. CASE k = "recover"  BY <2>3
  <2> QED  BY <2>1, <2>2, <2>3 DEF Kinds
<1>3. ASSUME Program(k)[i].do = "join" PROVE i = JoinAt(k)
  <2> USE <1>3
  <2>1. CASE k = "record"   BY <2>1
  <2>2. CASE k = "audit"    BY <2>2
  <2>3. CASE k = "recover"  BY <2>3
  <2> QED  BY <2>1, <2>2, <2>3 DEF Kinds
<1>4. ASSUME i = JoinAt(k) PROVE Program(k)[i].do = "join"
  <2> USE <1>4
  <2>1. CASE k = "record"   BY <2>1
  <2>2. CASE k = "audit"    BY <2>2
  <2>3. CASE k = "recover"  BY <2>3
  <2> QED  BY <2>1, <2>2, <2>3 DEF Kinds
<1>5. ASSUME Program(k)[i].do = "last" PROVE i = LastAt(k)
  <2> USE <1>5
  <2>1. CASE k = "record"   BY <2>1
  <2>2. CASE k = "audit"    BY <2>2
  <2>3. CASE k = "recover"  BY <2>3
  <2> QED  BY <2>1, <2>2, <2>3 DEF Kinds
<1>6. ASSUME i = LastAt(k) PROVE Program(k)[i].do = "last"
  <2> USE <1>6
  <2>1. CASE k = "record"   BY <2>1
  <2>2. CASE k = "audit"    BY <2>2
  <2>3. CASE k = "recover"  BY <2>3
  <2> QED  BY <2>1, <2>2, <2>3 DEF Kinds
<1>7. ASSUME Program(k)[i].do = "read" PROVE SelectAt(k) < i /\ i <= VerifyAt(k)
  <2> USE <1>7
  <2>1. CASE k = "record"   BY <2>1
  <2>2. CASE k = "audit"    BY <2>2
  <2>3. CASE k = "recover"  BY <2>3
  <2> QED  BY <2>1, <2>2, <2>3 DEF Kinds
<1>8. ASSUME Program(k)[i].do \in {"produce", "hold"} PROVE SelectAt(k) < i /\ i < VerifyAt(k)
  <2> USE <1>8
  <2>1. CASE k = "record"   BY <2>1
  <2>2. CASE k = "audit"    BY <2>2
  <2>3. CASE k = "recover"  BY <2>3
  <2> QED  BY <2>1, <2>2, <2>3 DEF Kinds
<1>9. ASSUME i >= CreateAt(k) PROVE Program(k)[i].do \notin {"read", "produce", "check"}
  <2> USE <1>9
  <2>1. CASE k = "record"   BY <2>1
  <2>2. CASE k = "audit"    BY <2>2
  <2>3. CASE k = "recover"  BY <2>3
  <2> QED  BY <2>1, <2>2, <2>3 DEF Kinds
<1> HIDE DEF Program, SelectAt, JoinAt, VerifyAt, CreateAt, LastAt
<1> QED  BY <1>1, <1>2, <1>3, <1>4, <1>5, <1>6, <1>7, <1>8, <1>9

LEMMA Upon == ASSUME NEW k \in Kinds, NEW i \in 1 .. Len(Program(k))
  PROVE LET step == Program(k)[i] IN
        /\ step.do = "read" /\ step.on = None <=> i = VerifyAt(k)
        /\ step.do \in {"produce", "hold", "create", "fill", "confirm"} => step.on \in Outputs
        /\ step.do \in {"produce", "hold"} => step.on # "final"
        /\ step.do = "create" /\ step.on = "final" <=> i = CreateAt(k)
        /\ i = CreateAt(k) => step = [do |-> "create", on |-> "final"]
<1> USE DEF VerifyAt, CreateAt, Program, Record, Audit, Recover, Verifying, Producing, Document,
            Recheck, Do, On
<1>1. ASSUME Program(k)[i].do = "read", Program(k)[i].on = None PROVE i = VerifyAt(k)
  <2> USE <1>1, NoneAssumption DEF Outputs
  <2>1. CASE k = "record"   BY <2>1
  <2>2. CASE k = "audit"    BY <2>2
  <2>3. CASE k = "recover"  BY <2>3
  <2> QED  BY <2>1, <2>2, <2>3 DEF Kinds
<1>2. ASSUME i = VerifyAt(k) PROVE Program(k)[i].do = "read" /\ Program(k)[i].on = None
  <2> USE <1>2
  <2>1. CASE k = "record"   BY <2>1
  <2>2. CASE k = "audit"    BY <2>2
  <2>3. CASE k = "recover"  BY <2>3
  <2> QED  BY <2>1, <2>2, <2>3 DEF Kinds
<1>3. ASSUME Program(k)[i].do \in {"produce", "hold", "create", "fill", "confirm"}
      PROVE Program(k)[i].on \in Outputs
  <2> USE <1>3 DEF Outputs
  <2>1. CASE k = "record"   BY <2>1
  <2>2. CASE k = "audit"    BY <2>2
  <2>3. CASE k = "recover"  BY <2>3
  <2> QED  BY <2>1, <2>2, <2>3 DEF Kinds
<1>4. ASSUME Program(k)[i].do \in {"produce", "hold"} PROVE Program(k)[i].on # "final"
  <2> USE <1>4
  <2>1. CASE k = "record"   BY <2>1
  <2>2. CASE k = "audit"    BY <2>2
  <2>3. CASE k = "recover"  BY <2>3
  <2> QED  BY <2>1, <2>2, <2>3 DEF Kinds
<1>5. ASSUME Program(k)[i].do = "create", Program(k)[i].on = "final" PROVE i = CreateAt(k)
  <2> USE <1>5
  <2>1. CASE k = "record"   BY <2>1
  <2>2. CASE k = "audit"    BY <2>2
  <2>3. CASE k = "recover"  BY <2>3
  <2> QED  BY <2>1, <2>2, <2>3 DEF Kinds
<1>6. ASSUME i = CreateAt(k) PROVE Program(k)[i] = [do |-> "create", on |-> "final"]
  <2> USE <1>6
  <2>1. CASE k = "record"   BY <2>1
  <2>2. CASE k = "audit"    BY <2>2
  <2>3. CASE k = "recover"  BY <2>3
  <2> QED  BY <2>1, <2>2, <2>3 DEF Kinds
<1> HIDE DEF Program, Outputs, VerifyAt, CreateAt
<1> QED  BY <1>1, <1>2, <1>3, <1>4, <1>5, <1>6

LEMMA Follows == ASSUME NEW k \in Kinds, NEW i \in 1 .. Len(Program(k))
  PROVE /\ Program(k)[i].do # "end"
        /\ Program(k)[i].do \in {"read", "produce"} =>
             i < Len(Program(k)) /\ Program(k)[i + 1].do \in {"produce", "check"}
        /\ i < Len(Program(k)) /\ Program(k)[i + 1].do = "read" => Program(k)[i].do = "check"
        /\ i + 1 = LastAt(k) =>
             Program(k)[i].do = IF k = "audit" THEN "inventory" ELSE "confirm"
<1> USE DEF LastAt, Program, Record, Audit, Recover, Verifying, Producing, Document, Recheck, Do, On
<1>1. Program(k)[i].do # "end"
  <2>1. CASE k = "record"   BY <2>1
  <2>2. CASE k = "audit"    BY <2>2
  <2>3. CASE k = "recover"  BY <2>3
  <2> QED  BY <2>1, <2>2, <2>3 DEF Kinds
<1>2. ASSUME Program(k)[i].do \in {"read", "produce"}
      PROVE  i < Len(Program(k)) /\ Program(k)[i + 1].do \in {"produce", "check"}
  <2> USE <1>2
  <2>1. CASE k = "record"   BY <2>1
  <2>2. CASE k = "audit"    BY <2>2
  <2>3. CASE k = "recover"  BY <2>3
  <2> QED  BY <2>1, <2>2, <2>3 DEF Kinds
<1>3. ASSUME i < Len(Program(k)), Program(k)[i + 1].do = "read"
      PROVE  Program(k)[i].do = "check"
  <2> USE <1>3
  <2>1. CASE k = "record"   BY <2>1
  <2>2. CASE k = "audit"    BY <2>2
  <2>3. CASE k = "recover"  BY <2>3
  <2> QED  BY <2>1, <2>2, <2>3 DEF Kinds
<1>4. ASSUME i + 1 = LastAt(k)
      PROVE  Program(k)[i].do = IF k = "audit" THEN "inventory" ELSE "confirm"
  <2> USE <1>4
  <2>1. CASE k = "record"   BY <2>1
  <2>2. CASE k = "audit"    BY <2>2
  <2>3. CASE k = "recover"  BY <2>3
  <2> QED  BY <2>1, <2>2, <2>3 DEF Kinds
<1> HIDE DEF Program, LastAt
<1> QED  BY <1>1, <1>2, <1>3, <1>4
-----------------------------------------------------------------------------
(* Moving on, and standing still.                                          *)

LEMMA Here == ASSUME TypeOK, Placed
  PROVE /\ kind \in Kinds /\ Steps = Program(kind) /\ Len(Steps) \in Nat
        /\ at \in Nat /\ at >= 1 /\ at <= Len(Steps) + 1
        /\ at <= Len(Steps) => at \in 1 .. Len(Program(kind))
BY Order DEF TypeOK, Placed, Steps

LEMMA ScopeTyped == ASSUME NEW step, NEW h \in SUBSET Names PROVE Scope(step, h) \in SUBSET Names
BY DEF Scope, Told, Names, Outputs, Documents

LEMMA Onward == ASSUME TypeOK, Placed, Running, NEW h, Advance(h), kind' = kind
  PROVE /\ at \in 1 .. Len(Steps) /\ at' = at + 1 /\ at' \in 1 .. Len(Steps) + 1 /\ Steps' = Steps
        /\ at' <= Len(Steps) => Step' = StepAfter /\ StepAfter = Program(kind)[at + 1]
                               /\ at + 1 \in 1 .. Len(Program(kind))
        /\ at' > Len(Steps) => StepAfter = End
        /\ result' = IF at' <= Len(Steps) THEN "none" ELSE "accepted"
        /\ todo' = Scope(StepAfter, h)
        /\ whole' = IF at + 1 = LastAt(kind) THEN AsHeld ELSE whole
<1>1. /\ kind \in Kinds /\ Steps = Program(kind) /\ Len(Steps) \in Nat
      /\ at \in 1 .. Len(Steps) /\ at' = at + 1 /\ Steps' = Steps
  BY Here DEF Running, Advance, Steps
<1>2. LastAt(kind) <= Len(Steps)  BY <1>1, Order
<1>3. CASE at < Len(Steps)
  <2>1. StepAfter = Program(kind)[at + 1] /\ at + 1 \in 1 .. Len(Program(kind))
    BY <1>1, <1>3 DEF StepAfter
  <2>2. StepAfter.do # "end" /\ (StepAfter.do = "last" <=> at + 1 = LastAt(kind))
    BY <1>1, <2>1, Follows, Where
  <2>3. Step' = StepAfter  BY <1>1, <2>1 DEF Step
  <2> QED  BY <1>1, <1>3, <2>1, <2>2, <2>3 DEF Advance, Running
<1>4. CASE at = Len(Steps)
  <2>1. StepAfter = End /\ End.do = "end"  BY <1>1, <1>4 DEF StepAfter, End
  <2>2. at + 1 # LastAt(kind)  BY <1>1, <1>2, <1>4, Order DEF LastAt
  <2> QED  BY <1>1, <1>4, <2>1, <2>2 DEF Advance, Running
<1> QED  BY <1>1, <1>3, <1>4

\* The heart of it: what is not as measured never is again, since others can
\* only bring a name to a fingerprint it never had.
LEMMA Lost == ASSUME TypeOK, Stamped, NEW n \in Names, held[n] # None, held'[n] = held[n], ~Unchanged(n),
         n \in Inputs => input'[n] = input[n] \/ input'[n].stamp = clock,
         n \in Outputs => \A r \in Roots : out'[r][n] = out[r][n] \/ out'[r][n] = None
                                          \/ out'[r][n].stamp = clock
  PROVE ~Unchanged(n)'
<1>1. clock # held[n].stamp  BY DEF TypeOK, Stamped, Node
<1>2. CASE n \in Inputs  BY <1>1, <1>2 DEF Unchanged
<1>3. CASE n \notin Inputs
  <2>1. n \in Outputs  BY <1>3 DEF Names
  <2> QED  BY <1>1, <1>3, <2>1 DEF Unchanged
<1> QED  BY <1>2, <1>3

\* New fingerprints are taken from the clock, which then moves on.
LEMMA LaterStamped == ASSUME TypeOK, Stamped, clock' = clock + 1,
         \A n \in Inputs : input'[n] = input[n] \/ input'[n].stamp = clock,
         \A r \in Roots, o \in Outputs : \/ out'[r][o] = out[r][o] \/ out'[r][o] = None
                                       \/ out'[r][o].stamp = clock,
         held' = held
  PROVE Stamped'
<1>1. clock \in Nat /\ \A n \in Inputs : input[n].stamp \in Nat  BY DEF TypeOK, Node
<1>2. \A r \in Roots, o \in Outputs : out[r][o] # None => out[r][o].stamp \in Nat
  BY DEF TypeOK, Node
<1>3. \A n \in Names : held[n] # None => held[n].stamp \in Nat  BY DEF TypeOK, Node
<1> QED  BY <1>1, <1>2, <1>3 DEF Stamped

\* Nothing moves on in the operation, and what is lost stays lost.
LEMMA StandStill == ASSUME IInv, UNCHANGED <<choice, at, todo, held, seen, whole, astray>>,
         result' = result \/ result' \notin {"none", "accepted"},
         TypeOK', Stamped', Final',
         \A n \in Names : held[n] # None /\ ~Unchanged(n) => ~Unchanged(n)'
  PROVE IInv'
<1>1. /\ kind' = kind /\ at' = at /\ todo' = todo /\ held' = held /\ seen' = seen /\ whole' = whole
      /\ astray' = astray /\ agree' = agree
  BY DEF choice
<1>2. /\ Steps' = Steps /\ Held' = Held /\ (Step' = Step) /\ (Told(Step))' = Told(Step)
      /\ \A n \in Names : Measured(n)' = Measured(n)
  BY <1>1 DEF Steps, Held, Checked, Step, Told, Measured
<1>3. Doing("check")' = Doing("check") /\ Doing("last")' = Doing("last") /\ Doing("read")' = Doing("read")
      /\ Doing("select")' = Doing("select") /\ Doing("produce")' = Doing("produce")
  BY <1>1, <1>2 DEF Doing
<1>4. Placed'
  BY <1>1, <1>2, <1>3 DEF IInv, Placed
<1>5. Astray'
  <2>1. SUFFICES ASSUME astray, Noticed PROVE Noticed'
    BY <1>1 DEF IInv, Astray
  <2>2. CASE at \in VerifyAt(kind) .. CompareAt(kind) /\ \E o \in Documents : Misread(o)
    <3>1. \A o \in Documents : Misread(o) => Misread(o)'
      BY <1>1, <1>2 DEF Misread, Documents, Names, Outputs
    <3> QED  BY <1>1, <2>2, <3>1 DEF Noticed
  <2>3. CASE (Doing("read") \/ Doing("produce")) /\ \E n \in Inputs : ~Unchanged(n)
    <3>1. at > SelectAt(kind)
      BY <2>3, Here, Where DEF IInv, Doing, Step
    <3>2. \A n \in Inputs : held[n] # None  BY <3>1 DEF IInv, Placed
    <3> QED  BY <1>3, <2>3, <3>2 DEF Noticed, Names
  <2>4. CASE Doing("check") /\ \E n \in todo \cap Inputs : ~Unchanged(n)
    <3>1. \A n \in todo : n \in Names /\ held[n] # None  BY <2>4 DEF IInv, Placed, Held, Checked
    <3> QED  BY <1>1, <1>3, <2>4, <3>1 DEF Noticed
  <2> QED  BY <2>1, <2>2, <2>3, <2>4 DEF Noticed
<1>6. Whole'
  <2>1. ASSUME at = LastAt(kind), ~whole PROVE \E n \in todo : ~Unchanged(n)'
    <3>1. Doing("last")  BY <2>1, Here, Order, Where DEF IInv, Doing, Step
    <3>2. \A n \in todo : n \in Names /\ held[n] # None  BY <3>1 DEF IInv, Placed, Held, Checked
    <3> QED  BY <2>1, <3>2 DEF IInv, Whole
  <2> QED  BY <1>1, <2>1 DEF IInv, Whole
<1> QED  BY <1>4, <1>5, <1>6 DEF IInv

-----------------------------------------------------------------------------
(* The steps of an operation.                                              *)

Loops == {"select", "check", "read", "last"}

\* A step that measures nothing and reads nothing leaves the rest in order.
LEMMA PassOver == ASSUME IInv, Running, Step.do \notin Loops \cup {"hold"}, Advance(Held),
         UNCHANGED <<choice, held, seen, astray>>, TypeOK', Stamped', Final',
         Step.do = "join" => agree, Step.do = "compare" => Repeated,
         kind = "audit" /\ Step.do = "inventory" => ~extra,
         \A n \in Inputs : held[n] # None /\ ~Unchanged(n) => ~Unchanged(n)',
         Step.do \in {"inventory", "confirm"} => out' = out
  PROVE IInv'
<1> DEFINE h == Held
<1>1. /\ kind' = kind /\ held' = held /\ seen' = seen /\ astray' = astray /\ agree' = agree
  BY DEF choice
<1>2. /\ at \in 1 .. Len(Steps) /\ at' = at + 1 /\ at' \in 1 .. Len(Steps) + 1 /\ Steps' = Steps
      /\ at' <= Len(Steps) => Step' = StepAfter /\ StepAfter = Program(kind)[at + 1]
                              /\ at + 1 \in 1 .. Len(Program(kind))
      /\ at' > Len(Steps) => StepAfter = End
      /\ result' = IF at' <= Len(Steps) THEN "none" ELSE "accepted"
      /\ todo' = Scope(StepAfter, h)
      /\ whole' = IF at + 1 = LastAt(kind) THEN AsHeld ELSE whole
  BY <1>1, Onward DEF IInv
<1>3. /\ kind \in Kinds /\ Steps = Program(kind) /\ Len(Steps) \in Nat /\ Step = Program(kind)[at]
      /\ at \in 1 .. Len(Program(kind))
  BY <1>2, Here DEF IInv, Step
<1>4. Held' = h /\ h \in SUBSET Names /\ \A n \in Names : Measured(n)' = Measured(n)
  BY <1>1 DEF Held, Checked, Measured
<1>5. at # SelectAt(kind) /\ at # VerifyAt(kind) /\ at # LastAt(kind)
  BY <1>3, Where, Upon DEF Loops
<1>6. Placed'
  <2>1. Doing("check")' \/ Doing("last")' => todo' \subseteq Held'
    BY <1>2, <1>4 DEF Doing, Scope
  <2>2. ~Doing("read")'  BY <1>2, <1>3, Follows DEF Doing, Loops
  <2>3. Doing("select")' => todo' = Inputs  BY <1>2 DEF Doing, Scope
  <2>4. at' > SelectAt(kind) => at > SelectAt(kind)  BY <1>2, <1>3, <1>5, Order
  <2>5. at' > JoinAt(kind) => agree  BY <1>2, <1>3, Order, Where DEF IInv, Placed
  <2> QED  BY <1>1, <1>2, <2>1, <2>2, <2>3, <2>4, <2>5 DEF IInv, Placed
<1>7. Astray'
  <2>1. SUFFICES ASSUME astray PROVE Noticed'
    BY <1>1 DEF Astray
  <2>2. CASE at \in VerifyAt(kind) .. CompareAt(kind) /\ \E o \in Documents : Misread(o)
    <3>1. PICK o \in Documents : Misread(o)  BY <2>2
    <3>2. at # CompareAt(kind)  BY <3>1, <1>3, Order DEF Misread, Repeated
    <3>3. Misread(o)'  BY <1>1, <1>4, <3>1 DEF Misread, Documents, Names, Outputs
    <3>4. at' \in VerifyAt(kind) .. CompareAt(kind)  BY <1>2, <1>3, <2>2, <3>2, Order
    <3> QED  BY <1>1, <3>3, <3>4 DEF Noticed
  <2>3. CASE Step.do = "produce" /\ \E n \in Inputs : ~Unchanged(n)
    <3>1. PICK n \in Inputs : ~Unchanged(n)  BY <2>3
    <3>2. at' <= Len(Steps) /\ StepAfter.do \in {"produce", "check"}  BY <1>2, <1>3, <2>3, Follows
    <3>3. held[n] # None  BY <1>2, <1>3, <2>3, Where, Order DEF IInv, Placed
    <3>4. n \in h  BY <3>3, InputAssumption DEF Held, Checked, Names, Outputs
    <3>5. StepAfter.do = "check" => todo' = h  BY <1>2 DEF Scope
    <3> QED  BY <1>2, <3>1, <3>2, <3>3, <3>4, <3>5 DEF Noticed, Doing
  <2> QED  BY <2>1, <2>2, <2>3 DEF IInv, Astray, Noticed, Doing, Loops
<1>8. Whole'
  <2>1. ASSUME at' = LastAt(kind), ~whole' PROVE \E n \in todo' : ~Unchanged(n)'
    <3>1. ~AsHeld /\ at' <= Len(Steps)  BY <1>2, <1>3, <2>1, Order
    <3>2. Step.do = IF kind = "audit" THEN "inventory" ELSE "confirm"  BY <1>2, <1>3, <2>1, Follows
    <3>3. PICK n \in Held : ~Unchanged(n)  BY <3>1, <3>2 DEF AsHeld, Unchanged
    <3>4. StepAfter.do = "last"  BY <1>2, <1>3, <2>1, <3>1, Where
    <3>5. todo' = h  BY <1>2, <3>4 DEF Scope
    <3>6. ~Unchanged(n)'  BY <1>1, <3>2, <3>3 DEF Unchanged, Held
    <3> QED  BY <3>3, <3>5, <3>6
  <2>2. at' > LastAt(kind) => at > LastAt(kind) /\ whole' = whole
    BY <1>2, <1>3, <1>5, Order
  <2> QED  BY <1>1, <2>1, <2>2 DEF IInv, Whole
<1> QED  BY <1>6, <1>7, <1>8 DEF IInv

\* Which directory has a final document of this operation does not change with
\* a step that leaves it alone.
LEMMA FinalKept == ASSUME IInv, Running, NEW h, Advance(h), kind' = kind,
         \A r \in Roots : IsMine(r, "final")' => IsMine(r, "final")
  PROVE Final'
<1>1. at' = at + 1 /\ result' \in {"none", "accepted"} /\ at \in Nat /\ CreateAt(kind) \in Nat
  BY Onward, Here, Order DEF IInv
<1> QED  BY <1>1 DEF IInv, Final

LEMMA StepTyped == ASSUME IInv, Running, NEW h \in SUBSET Names, Advance(h), UNCHANGED choice
  PROVE /\ at' \in Nat /\ todo' \in SUBSET Names /\ whole' \in BOOLEAN
        /\ result' \in {"none", "accepted"}
<1>1. /\ at' \in 1 .. Len(Steps) + 1 /\ result' \in {"none", "accepted"} /\ todo' = Scope(StepAfter, h)
      /\ whole' = IF at + 1 = LastAt(kind) THEN AsHeld ELSE whole
  BY Onward DEF IInv, choice
<1>2. at' \in Nat  BY <1>1, Here DEF IInv
<1>3. whole' \in BOOLEAN  BY <1>1 DEF IInv, TypeOK, AsHeld
<1> QED  BY <1>1, <1>2, <1>3, ScopeTyped

LEMMA HeldTyped == Held \in SUBSET Names
BY DEF Held, Checked

Quiet == {"inventory", "join", "separate", "mkdir", "identity", "compare", "same", "confirm"}

LEMMA QuietStep == ASSUME IInv, Running, Step.do \in Quiet, Advance(Held),
         UNCHANGED <<input, out, clock, choice, held, seen, found, account>>,
         root' \in Roots \cup {None}, extra' \in BOOLEAN,
         Step.do = "join" => agree, Step.do = "compare" => Repeated,
         kind = "audit" /\ Step.do = "inventory" => ~extra
  PROVE IInv'
<1>1. TypeOK'
  BY StepTyped, HeldTyped DEF IInv, TypeOK, choice, account
<1>2. Stamped'  BY DEF IInv, Stamped
<1>3. Final'  BY FinalKept DEF IsMine, choice
<1>4. \A n \in Inputs : ~Unchanged(n) => ~Unchanged(n)'  BY DEF Unchanged
<1> QED  BY <1>1, <1>2, <1>3, <1>4, PassOver DEF Quiet, Loops, account

LEMMA EndLoopStep == ASSUME IInv, EndLoop PROVE IInv'
<1>1. /\ kind' = kind /\ held' = held /\ astray' = astray /\ agree' = agree /\ root' = root
      /\ overlap' = overlap /\ input' = input /\ out' = out /\ clock' = clock /\ found' = found
      /\ extra' = extra /\ spent' = spent /\ faults' = faults /\ todo = {}
      /\ seen' = IF StepAfter.do = "read" THEN Nothing ELSE seen
      /\ Step.do \in {"select", "check", "read", "last"} /\ Running /\ Advance(Held)
  BY DEF EndLoop, Once, world, choice, account
<1> DEFINE h == Held
<1>2. /\ at \in 1 .. Len(Steps) /\ at' = at + 1 /\ at' \in 1 .. Len(Steps) + 1 /\ Steps' = Steps
      /\ at' <= Len(Steps) => Step' = StepAfter /\ StepAfter = Program(kind)[at + 1]
                              /\ at + 1 \in 1 .. Len(Program(kind))
      /\ at' > Len(Steps) => StepAfter = End
      /\ result' = IF at' <= Len(Steps) THEN "none" ELSE "accepted"
      /\ todo' = Scope(StepAfter, h)
      /\ whole' = IF at + 1 = LastAt(kind) THEN AsHeld ELSE whole
  BY <1>1, Onward DEF IInv
<1>3. /\ kind \in Kinds /\ Steps = Program(kind) /\ Len(Steps) \in Nat /\ Step = Program(kind)[at]
      /\ at \in 1 .. Len(Program(kind))
  BY <1>2, Here DEF IInv, Step
<1>4. Held' = h /\ h \in SUBSET Names /\ \A n \in Names : Unchanged(n)' = Unchanged(n) /\ Measured(n)' = Measured(n)
  BY <1>1 DEF Held, Checked, Unchanged, Measured
<1>5. at # JoinAt(kind) /\ at # CompareAt(kind) /\ at + 1 # LastAt(kind)
  <2>1. at # JoinAt(kind)  BY <1>1, <1>3, Where
  <2>2. at # CompareAt(kind)  BY <1>1, <1>3, Order
  <2>3. at + 1 # LastAt(kind)  BY <1>1, <1>3, Follows
  <2> QED  BY <2>1, <2>2, <2>3
<1>6. TypeOK'
  <2>1. whole' \in BOOLEAN  BY <1>2, <1>5 DEF IInv, TypeOK
  <2>2. seen' \in [Names -> Bodies \cup {None}]  BY <1>1 DEF IInv, TypeOK, Nothing
  <2> QED  BY <1>1, <1>2, <1>4, <2>1, <2>2, ScopeTyped DEF IInv, TypeOK
<1>7. Stamped'  BY <1>1 DEF IInv, Stamped
<1>8. Placed'
  <2>1. Doing("check")' \/ Doing("last")' => todo' \subseteq Held'
    BY <1>2, <1>4 DEF Doing, Scope
  <2>2. Doing("read")' => todo' \subseteq Told(Step)' /\ \A n \in todo' : seen'[n] = None
    <3>1. SUFFICES ASSUME Doing("read")' PROVE todo' \subseteq Told(Step)' /\ \A n \in todo' : seen'[n] = None
      OBVIOUS
    <3>2. Step' = StepAfter /\ StepAfter.do = "read" /\ todo' = Told(StepAfter)  BY <3>1, <1>2 DEF Doing, Scope
    <3>3. Told(Step)' = Told(StepAfter)  BY <3>2, <1>1 DEF Told
    <3>4. todo' \in SUBSET Names  BY <1>2, <1>4, ScopeTyped
    <3> QED  BY <3>2, <3>3, <3>4, <1>1 DEF Nothing
  <2>3. Doing("select")' => todo' = Inputs  BY <1>2 DEF Doing, Scope
  <2>4. at' > SelectAt(kind) => \A n \in Inputs : held[n] # None
    <3>1. CASE Step.do = "select"  BY <3>1, <1>1, <1>2 DEF IInv, Placed, Doing
    <3>2. CASE Step.do # "select"  BY <3>2, <1>2, <1>3, Where, Order DEF IInv, Placed
    <3> QED  BY <3>1, <3>2
  <2>5. at' > JoinAt(kind) => agree
    BY <1>2, <1>3, <1>5, Order DEF IInv, Placed
  <2> QED  BY <1>1, <1>2, <2>1, <2>2, <2>3, <2>4, <2>5 DEF IInv, Placed
<1>9. Astray'
  <2>1. SUFFICES ASSUME astray PROVE Noticed'
    BY <1>1 DEF Astray
  <2>2. CASE at \in VerifyAt(kind) .. CompareAt(kind) /\ \E o \in Documents : Misread(o)
    <3>1. PICK o \in Documents : Misread(o)  BY <2>2
    <3>2. StepAfter.do # "read"  BY <1>2, <1>3, <2>2, Where, Order DEF End
    <3>3. Misread(o)'  BY <1>1, <1>4, <3>1, <3>2 DEF Misread, Documents, Names, Outputs
    <3>4. at' \in VerifyAt(kind) .. CompareAt(kind)  BY <1>2, <1>3, <1>5, <2>2, Order
    <3> QED  BY <1>1, <3>3, <3>4 DEF Noticed
  <2>3. CASE (Doing("read") \/ Doing("produce")) /\ \E n \in Inputs : ~Unchanged(n)
    <3>1. Step.do = "read"  BY <1>1, <2>3 DEF Doing
    <3>2. PICK n \in Inputs : ~Unchanged(n)  BY <2>3
    <3>3. at' <= Len(Steps) /\ StepAfter.do \in {"produce", "check"}  BY <1>2, <1>3, <3>1, Follows
    <3>4. held[n] # None  BY <1>2, <1>3, <3>1, Where, Order DEF IInv, Placed
    <3>5. n \in h  BY <3>4, InputAssumption DEF Held, Checked, Names, Outputs
    <3>6. StepAfter.do = "check" => todo' = h  BY <1>2 DEF Scope
    <3>7. ~Unchanged(n)'  BY <1>4, <3>2 DEF Names
    <3> QED  BY <1>2, <3>3, <3>5, <3>6, <3>7 DEF Noticed, Doing
  <2>4. ~(Doing("check") /\ \E n \in todo \cap Inputs : ~Unchanged(n))  BY <1>1
  <2> QED  BY <2>1, <2>2, <2>3, <2>4 DEF IInv, Astray, Noticed
<1>10. Whole'
  <2>1. at = LastAt(kind) => whole  BY <1>1 DEF IInv, Whole
  <2> QED  BY <1>1, <1>2, <1>3, <1>5, <2>1, Order DEF IInv, Whole
<1>11. Final'
  <2>1. at' > at /\ result' \in {"none", "accepted"}  BY <1>2
  <2> QED  BY <1>1, <1>2, <1>3, <2>1, Order DEF IInv, Final, IsMine
<1> QED  BY <1>6, <1>7, <1>8, <1>9, <1>10, <1>11 DEF IInv

LEMMA MakeStep == ASSUME IInv, Running, Step.do \in {"produce", "create"}, Advance(Held),
         NEW body \in Bodies, Make(Step.on, body), held' = held
  PROVE IInv'
<1> DEFINE o == Step.on  p == Place(o)
<1>1. /\ kind' = kind /\ seen' = seen /\ astray' = astray /\ agree' = agree /\ root' = root
      /\ overlap' = overlap /\ input' = input /\ found' = found /\ extra' = extra /\ spent' = spent
      /\ faults' = faults /\ clock' = clock + 1 /\ p # None /\ UNCHANGED choice
      /\ out' = [out EXCEPT ![p][o] = New(body)]
  BY DEF Make, choice, account
<1>2. /\ kind \in Kinds /\ at \in 1 .. Len(Program(kind)) /\ Step = Program(kind)[at]
  BY Here DEF IInv, Step, Running
<1>3. o \in Outputs /\ p \in Roots
  <2>1. o \in Outputs  BY <1>2, Upon
  <2> QED  BY <1>1, <2>1 DEF Place, Roots, IInv, TypeOK
<1>4. New(body) \in Node /\ New(body).stamp = clock /\ New(body).mine
  BY DEF New, Node, IInv, TypeOK
<1>5. /\ out' \in [Roots -> [Outputs -> Node \cup {None}]]
      /\ \A r \in Roots, x \in Outputs :
           out'[r][x] = IF r = p /\ x = o THEN New(body) ELSE out[r][x]
  <2> HIDE DEF o, p
  <2>1. out \in [Roots -> [Outputs -> Node \cup {None}]]  BY DEF IInv, TypeOK
  <2> QED  BY <1>1, <1>3, <1>4, <2>1
<1> HIDE DEF o, p
<1>6. TypeOK'
  BY <1>1, <1>5, StepTyped, HeldTyped DEF IInv, TypeOK
<1>7. Stamped'  BY <1>1, <1>4, <1>5, LaterStamped DEF IInv
<1>8. Final'
  <2>1. CASE o = "final"
    <3>1. Step.do = "create" /\ at = CreateAt(kind)  BY <1>2, <2>1, Upon DEF o
    <3>2. kind # "audit"
      BY <1>2, <3>1 DEF CreateAt, Program, Audit, Verifying, Producing, Document, Recheck, Do, On
    <3>3. at' = at + 1 /\ result' \in {"none", "accepted"}  BY <1>1, Onward DEF IInv
    <3>4. kind = "recover" => p = "own"  BY <2>1 DEF p, Place
    <3>5. \A r \in Roots : ~IsMine(r, "final")  BY <1>2, <3>1, Order DEF IInv, Final
    <3>6. \A r \in Roots : IsMine(r, "final")' => r = p  BY <1>5, <3>5 DEF IsMine, Outputs
    <3> QED  BY <1>1, <1>2, <3>1, <3>2, <3>3, <3>4, <3>6, Order DEF Final
  <2>2. CASE o # "final"
    <3>1. \A r \in Roots : IsMine(r, "final")' => IsMine(r, "final")
      BY <1>5, <2>2 DEF IsMine, Outputs
    <3> QED  BY <1>1, <3>1, FinalKept
  <2> QED  BY <2>1, <2>2
<1>9. \A n \in Inputs : ~Unchanged(n) => ~Unchanged(n)'  BY <1>1 DEF Unchanged
<1> QED  BY <1>1, <1>6, <1>7, <1>8, <1>9, PassOver DEF Loops

LEMMA FillStep == ASSUME IInv, Fill PROVE IInv'
<1> DEFINE o == Step.on
<1>1. /\ kind' = kind /\ seen' = seen /\ astray' = astray /\ agree' = agree /\ root' = root
      /\ overlap' = overlap /\ input' = input /\ found' = found /\ extra' = extra /\ spent' = spent
      /\ faults' = faults /\ clock' = clock + 1 /\ held' = held /\ UNCHANGED choice
      /\ Running /\ Step.do = "fill" /\ Advance(Held)
      /\ out' = [r \in Roots |-> [x \in Outputs |->
                   IF x = o /\ IsMine(r, x) THEN New("made") ELSE out[r][x]]]
  BY DEF Fill, Once, choice, account
<1>2. New("made") \in Node /\ New("made").stamp = clock
  BY DEF New, Node, Bodies, IInv, TypeOK
<1>3. /\ out' \in [Roots -> [Outputs -> Node \cup {None}]]
      /\ \A r \in Roots, x \in Outputs :
           (out'[r][x] = New("made") /\ IsMine(r, x)) \/ out'[r][x] = out[r][x]
  <2> HIDE DEF o
  <2>1. out \in [Roots -> [Outputs -> Node \cup {None}]]  BY DEF IInv, TypeOK
  <2> QED  BY <1>1, <1>2, <2>1
<1> HIDE DEF o
<1>4. TypeOK'
  BY <1>1, <1>3, StepTyped, HeldTyped DEF IInv, TypeOK
<1>5. Stamped'  BY <1>1, <1>2, <1>3, LaterStamped DEF IInv
<1>6. \A r \in Roots : IsMine(r, "final")' => IsMine(r, "final")
  BY <1>3 DEF IsMine, Outputs
<1>7. Final'  BY <1>1, <1>6, FinalKept
<1>8. \A n \in Inputs : ~Unchanged(n) => ~Unchanged(n)'  BY <1>1 DEF Unchanged
<1> QED  BY <1>1, <1>4, <1>5, <1>7, <1>8, PassOver DEF Loops

LEMMA HoldStep == ASSUME IInv, Hold PROVE IInv'
<1> DEFINE o == Step.on  h == (Held \cup {o}) \cap Checked
<1>1. /\ kind' = kind /\ seen' = seen /\ astray' = astray /\ agree' = agree /\ root' = root
      /\ overlap' = overlap /\ input' = input /\ found' = found /\ extra' = extra /\ spent' = spent
      /\ faults' = faults /\ clock' = clock /\ out' = out /\ UNCHANGED choice
      /\ Running /\ Step.do = "hold" /\ Advance(h) /\ File(o) # None
      /\ held' = [held EXCEPT ![o] = File(o)]
  BY DEF Hold, world, choice, account
<1>2. h \in SUBSET Names  BY DEF Held, Checked
<1>3. /\ kind \in Kinds /\ at \in 1 .. Len(Program(kind)) /\ Step = Program(kind)[at] /\ Steps = Program(kind)
  BY <1>1, Here DEF IInv, Step, Running
<1>4. /\ at' = at + 1 /\ at' \in 1 .. Len(Steps) + 1 /\ Steps' = Steps
      /\ at' <= Len(Steps) => Step' = StepAfter /\ StepAfter = Program(kind)[at + 1]
      /\ result' = IF at' <= Len(Steps) THEN "none" ELSE "accepted"
      /\ todo' = Scope(StepAfter, h)
  BY <1>1, Onward DEF IInv
<1>5. SelectAt(kind) < at /\ at < VerifyAt(kind) /\ o \in Outputs /\ at # JoinAt(kind)
  BY <1>1, <1>3, Where, Upon
<1>6. o \notin Inputs /\ o \in Names /\ File(o) \in Node /\ File(o).stamp < clock
  <2>1. o \notin Inputs  BY <1>5, InputAssumption
  <2>2. root \in Roots /\ File(o) = out[root][o]  BY <1>1, <2>1 DEF File, IInv, TypeOK
  <2> HIDE DEF o
  <2>3. out[root][o] \in Node \cup {None}  BY <1>5, <2>2 DEF IInv, TypeOK
  <2> QED  BY <1>1, <1>5, <2>1, <2>2, <2>3 DEF IInv, Stamped, Names
<1> DEFINE f == File(o)
<1>7. /\ held' \in [Names -> Node \cup {None}]
      /\ \A n \in Names : held'[n] = IF n = o THEN f ELSE held[n]
  <2>1. held \in [Names -> Node \cup {None}]  BY DEF IInv, TypeOK
  <2>2. f \in Node /\ o \in Names /\ held' = [held EXCEPT ![o] = f]  BY <1>1, <1>6
  <2> HIDE DEF f, o
  <2> QED  BY <2>1, <2>2
<1> HIDE DEF f
<1>8. Held' = h
  <2>1. f # None  BY <1>1 DEF f
  <2> QED  BY <1>1, <1>6, <1>7, <2>1 DEF Held, Checked
<1>9. ~astray
  BY <1>1, <1>3, <1>5, Order DEF IInv, Astray, Noticed, Doing
<1> HIDE DEF h
<1>10. TypeOK'
  <2>1. \A n \in Pinned : held'[n] = held[n]
    <3> HIDE DEF o
    <3> QED  BY <1>6, <1>7, InputAssumption DEF Names
  <2> QED  BY <1>1, <1>2, <1>7, <2>1, StepTyped DEF IInv, TypeOK
<1>11. Stamped'
  <2> HIDE DEF o
  <2> QED  BY <1>1, <1>6, <1>7 DEF IInv, Stamped, f
<1>12. Placed'
  <2>1. Doing("check")' \/ Doing("last")' => todo' \subseteq Held'
    BY <1>4, <1>8 DEF Doing, Scope
  <2>2. ~Doing("read")'  BY <1>1, <1>3, <1>4, Follows DEF Doing
  <2>3. Doing("select")' => todo' = Inputs  BY <1>4 DEF Doing, Scope
  <2>4. \A n \in Inputs : held'[n] = held[n]
    <3> HIDE DEF o
    <3> QED  BY <1>6, <1>7 DEF Names
  <2>5. at' > JoinAt(kind) => at > JoinAt(kind)  BY <1>3, <1>4, <1>5, Order
  <2> QED  BY <1>1, <1>4, <1>5, <2>1, <2>2, <2>3, <2>4, <2>5 DEF IInv, Placed
<1>13. Astray'  BY <1>1, <1>9 DEF Astray
<1>14. Whole'  BY <1>1, <1>3, <1>4, <1>5, Order DEF Whole
<1>15. Final'  BY <1>1, FinalKept DEF IsMine
<1> QED  BY <1>10, <1>11, <1>12, <1>13, <1>14, <1>15 DEF IInv

LEMMA SelectStep == ASSUME IInv, NEW n \in Names, Select(n) PROVE IInv'
<1>1. /\ kind' = kind /\ seen' = seen /\ astray' = astray /\ agree' = agree /\ root' = root
      /\ overlap' = overlap /\ input' = input /\ found' = found /\ extra' = extra /\ spent' = spent
      /\ faults' = faults /\ clock' = clock /\ out' = out /\ at' = at /\ result' = result /\ whole' = whole
      /\ Running /\ Step.do = "select" /\ n \in todo /\ todo' = todo \ {n}
      /\ n \in Pinned => input[n].body = "selected"
      /\ held' = [held EXCEPT ![n] = input[n]]
  BY DEF Select, Each, world, choice, account
<1>2. /\ kind \in Kinds /\ at \in 1 .. Len(Program(kind)) /\ Step = Program(kind)[at] /\ Steps = Program(kind)
  BY <1>1, Here DEF IInv, Step, Running
<1>3. at = SelectAt(kind) /\ Doing("select")  BY <1>1, <1>2, Where DEF Doing, Running
<1>4. n \in Inputs /\ input[n] \in Node /\ input[n].stamp < clock
  BY <1>1, <1>3 DEF IInv, Placed, Stamped, TypeOK
<1>5. /\ held' \in [Names -> Node \cup {None}]
      /\ \A m \in Names : held'[m] = IF m = n THEN input[n] ELSE held[m]
  <2>1. held \in [Names -> Node \cup {None}]  BY DEF IInv, TypeOK
  <2> QED  BY <1>1, <1>4, <2>1
<1>6. ~astray
  BY <1>1, <1>2, <1>3, Order DEF IInv, Astray, Noticed, Doing
<1>7. TypeOK'
  BY <1>1, <1>5, InputAssumption DEF IInv, TypeOK, Names
<1>8. Stamped'  BY <1>1, <1>4, <1>5 DEF IInv, Stamped
<1>9. Steps' = Steps /\ Step' = Step  BY <1>1 DEF Steps, Step
<1>10. Placed'
  <2>1. \A m \in Inputs \ todo' : held'[m] # None
    BY <1>1, <1>3, <1>4, <1>5, NoneAssumption DEF IInv, Placed, Names
  <2> QED  BY <1>1, <1>2, <1>3, <1>9, <2>1, Order DEF IInv, Placed, Doing
<1>11. Astray'  BY <1>1, <1>6 DEF Astray
<1>12. Whole'  BY <1>1, <1>2, <1>3, Order DEF Whole
<1>13. Final'  BY <1>1 DEF IInv, Final, IsMine
<1> QED  BY <1>7, <1>8, <1>10, <1>11, <1>12, <1>13 DEF IInv

LEMMA CheckStep == ASSUME IInv, NEW n \in Names, CheckHeld(n) PROVE IInv'
<1>1. /\ kind' = kind /\ seen' = seen /\ astray' = astray /\ agree' = agree /\ root' = root
      /\ overlap' = overlap /\ input' = input /\ found' = found /\ extra' = extra /\ spent' = spent
      /\ faults' = faults /\ clock' = clock /\ out' = out /\ at' = at /\ result' = result /\ whole' = whole
      /\ Running /\ Step.do \in {"check", "last"} /\ n \in todo /\ todo' = todo \ {n}
      /\ File(n) = held[n] /\ held' = held
  BY DEF CheckHeld, Each, world, choice, account
<1>2. /\ Steps' = Steps /\ Step' = Step /\ Held' = Held /\ \A m \in Names : Unchanged(m)' = Unchanged(m)
      /\ \A m \in Names : Measured(m)' = Measured(m)
  BY <1>1 DEF Steps, Step, Held, Checked, Unchanged, Measured
<1>3. todo \subseteq Held  BY <1>1 DEF IInv, Placed, Doing, Running
<1>4. Unchanged(n)
  <2>1. held[n] # None  BY <1>1, <1>3 DEF Held
  <2>2. CASE n \in Inputs  BY <1>1, <2>2 DEF File, Unchanged
  <2>3. CASE n \notin Inputs
    <3>1. root \in Roots  BY <1>1, <2>1, <2>3 DEF File, IInv, TypeOK
    <3> QED  BY <1>1, <2>1, <2>3, <3>1 DEF File, Unchanged
  <2> QED  BY <2>2, <2>3
<1>5. TypeOK'  BY <1>1 DEF IInv, TypeOK
<1>6. Stamped'  BY <1>1 DEF IInv, Stamped
<1>7. Placed'  BY <1>1, <1>2 DEF IInv, Placed, Doing
<1>8. Astray'
  <2>1. SUFFICES ASSUME astray PROVE Noticed'
    BY <1>1 DEF Astray
  <2>2. CASE at \in VerifyAt(kind) .. CompareAt(kind) /\ \E o \in Documents : Misread(o)
    <3>1. PICK o \in Documents : Misread(o)  BY <2>2
    <3>2. Misread(o)'  BY <1>1, <1>2, <3>1 DEF Misread, Documents, Names, Outputs
    <3> QED  BY <1>1, <2>2, <3>2 DEF Noticed
  <2>3. CASE Doing("check") /\ \E m \in todo \cap Inputs : ~Unchanged(m)
    <3>1. PICK m \in todo \cap Inputs : ~Unchanged(m)  BY <2>3
    <3>2. m \in todo' /\ ~Unchanged(m)'  BY <1>1, <1>2, <1>4, <3>1 DEF Names
    <3> QED  BY <1>1, <1>2, <2>3, <3>1, <3>2 DEF Noticed, Doing
  <2> QED  BY <1>1, <2>1, <2>2, <2>3 DEF IInv, Astray, Noticed, Doing
<1>9. Whole'
  <2>1. ASSUME NEW m \in todo, ~Unchanged(m) PROVE m \in todo' /\ ~Unchanged(m)'
    BY <1>1, <1>2, <1>3, <1>4, <2>1 DEF Held, Checked
  <2> QED  BY <1>1, <2>1 DEF IInv, Whole
<1>10. Final'  BY <1>1 DEF IInv, Final, IsMine
<1> QED  BY <1>5, <1>6, <1>7, <1>8, <1>9, <1>10 DEF IInv

LEMMA ReadStep == ASSUME IInv, NEW n \in Names, ChildReads(n) PROVE IInv'
<1>1. /\ kind' = kind /\ agree' = agree /\ root' = root
      /\ overlap' = overlap /\ input' = input /\ found' = found /\ extra' = extra /\ spent' = spent
      /\ faults' = faults /\ clock' = clock /\ out' = out /\ at' = at /\ result' = result /\ whole' = whole
      /\ Running /\ Step.do = "read" /\ n \in todo /\ todo' = todo \ {n} /\ held' = held
      /\ File(n) # None /\ seen' = [seen EXCEPT ![n] = File(n).body]
      /\ astray' = (astray \/ File(n).body # Measured(n))
  BY DEF ChildReads, Each, world, choice
<1>2. /\ kind \in Kinds /\ at \in 1 .. Len(Program(kind)) /\ Step = Program(kind)[at] /\ Steps = Program(kind)
      /\ Doing("read")
  BY <1>1, Here DEF IInv, Step, Running, Doing
<1>3. /\ Steps' = Steps /\ Step' = Step /\ Held' = Held /\ \A m \in Names : Unchanged(m)' = Unchanged(m)
      /\ (\A m \in Names : Measured(m)' = Measured(m)) /\ Told(Step)' = Told(Step) /\ Doing("read")'
  BY <1>1, <1>2 DEF Steps, Step, Held, Checked, Unchanged, Measured, Told, Doing
<1>4. n \in Told(Step) /\ seen[n] = None  BY <1>1, <1>2 DEF IInv, Placed
<1> DEFINE b == File(n).body
<1>5. b \in Bodies
  <2>1. File(n) \in Node
    <3>1. CASE n \in Inputs  BY <3>1 DEF File, IInv, TypeOK
    <3>2. CASE n \notin Inputs
      <4>1. root \in Roots /\ File(n) = out[root][n]  BY <1>1, <3>2 DEF File, IInv, TypeOK
      <4>2. n \in Outputs  BY <3>2 DEF Names
      <4> QED  BY <1>1, <4>1, <4>2 DEF IInv, TypeOK
    <3> QED  BY <3>1, <3>2
  <2> QED  BY <2>1 DEF Node
<1>6. /\ seen' \in [Names -> Bodies \cup {None}]
      /\ \A m \in Names : seen'[m] = IF m = n THEN b ELSE seen[m]
  <2>1. seen \in [Names -> Bodies \cup {None}] /\ seen' = [seen EXCEPT ![n] = b]
    BY <1>1 DEF IInv, TypeOK
  <2> HIDE DEF b
  <2> QED  BY <1>5, <2>1
<1>7. TypeOK'  BY <1>1, <1>6 DEF IInv, TypeOK
<1>8. Stamped'  BY <1>1 DEF IInv, Stamped
<1>9. Placed'
  <2>1. \A m \in todo' : seen'[m] = None
    <3> HIDE DEF b
    <3> QED  BY <1>1, <1>2, <1>6 DEF IInv, Placed, TypeOK
  <2> QED  BY <1>1, <1>3, <2>1 DEF IInv, Placed, Doing
<1>10. Astray'
  <2>1. CASE b # Measured(n) /\ n \in Inputs
    <3>1. n \in Held /\ Measured(n) = held[n].body
      BY <1>4, <2>1, InputAssumption DEF Told, Held, Checked, Measured, Names, Outputs
    <3>2. ~Unchanged(n)  BY <2>1, <3>1 DEF Unchanged, File
    <3> QED  BY <1>3, <2>1, <3>2 DEF Astray, Noticed, Names
  <2>2. CASE b # Measured(n) /\ n \notin Inputs
    <3>1. n \in Documents /\ Step.on = None  BY <1>4, <2>2 DEF Told
    <3>2. at = VerifyAt(kind)  BY <1>1, <1>2, <3>1, Upon
    <3>3. Misread(n)'
      <4> HIDE DEF b
      <4>1. seen'[n] = b /\ Measured(n)' = Measured(n) /\ b # None  BY <1>3, <1>5, <1>6, NoneAssumption
      <4> QED  BY <2>2, <4>1 DEF Misread
    <3> QED  BY <1>1, <1>2, <3>1, <3>2, <3>3, Order DEF Astray, Noticed
  <2>3. CASE astray
    <3>1. CASE at \in VerifyAt(kind) .. CompareAt(kind) /\ \E o \in Documents : Misread(o)
      <4>1. PICK o \in Documents : Misread(o)  BY <3>1
      <4>2. o # n  BY <1>4, <4>1 DEF Misread
      <4>3. Misread(o)'  BY <1>3, <1>6, <4>1, <4>2 DEF Misread, Documents, Names, Outputs
      <4> QED  BY <1>1, <3>1, <4>3 DEF Astray, Noticed
    <3>2. CASE \E m \in Inputs : ~Unchanged(m)
      BY <1>3, <3>2 DEF Astray, Noticed, Names
    <3> QED  BY <1>1, <2>3, <3>1, <3>2 DEF IInv, Astray, Noticed, Doing
  <2>4. CASE ~astray /\ b = Measured(n)  BY <1>1, <2>4 DEF Astray
  <2> QED  BY <2>1, <2>2, <2>3, <2>4 DEF IInv, TypeOK
<1>11. Whole'
  <2>1. at # LastAt(kind)  BY <1>1, <1>2, Where
  <2> QED  BY <1>1, <2>1 DEF IInv, Whole
<1>12. Final'  BY <1>1 DEF IInv, Final, IsMine
<1> QED  BY <1>7, <1>8, <1>9, <1>10, <1>11, <1>12 DEF IInv

-----------------------------------------------------------------------------
(* Failure, and what others do.                                            *)

LEMMA FailStep == ASSUME IInv, Fail PROVE IInv'
<1>1. /\ UNCHANGED <<world, choice, at, todo, held, seen, found, whole, astray, spent>>
      /\ faults' \in 0 .. Faults
      /\ result' = IF kind = "recover" /\ Exposed THEN "cleaning" ELSE "failed"
  BY BoundAssumption DEF Fail, IInv, TypeOK
<1>2. TypeOK'  BY <1>1 DEF IInv, TypeOK, world, choice
<1>3. Stamped'  BY <1>1 DEF IInv, Stamped, world
<1>4. Final'
  <2>1. SUFFICES ASSUME NEW r \in Roots, IsMine(r, "final"), kind = "recover"
                 PROVE result' = "cleaning"
    BY <1>1 DEF IInv, Final, IsMine, world, choice
  <2>2. at > CreateAt(kind)  BY <2>1 DEF IInv, Final
  <2>3. kind \in Kinds /\ CreateAt(kind) \in 1 .. Len(Program(kind)) /\ CreateAt(kind) \in 1 .. at - 1
    BY <2>1, <2>2, Here, Order DEF IInv
  <2>4. Steps[CreateAt(kind)] = [do |-> "create", on |-> "final"]  BY <2>3, Upon DEF Steps
  <2>5. Exposed  BY <2>3, <2>4 DEF Exposed
  <2> QED  BY <1>1, <2>1, <2>5
<1>5. \A n \in Names : ~Unchanged(n) => ~Unchanged(n)'  BY <1>1 DEF Unchanged, world
<1> QED  BY <1>1, <1>2, <1>3, <1>4, <1>5, StandStill

LEMMA FindStep == ASSUME IInv, Find PROVE IInv'
<1>1. /\ UNCHANGED <<world, choice, at, todo, held, seen, whole, account>> /\ result' = "removing"
      /\ found' = IsMine("own", "final")
  BY DEF Find
<1>2. TypeOK'
  <2>1. out["own"]["final"] \in Node \cup {None}  BY DEF IInv, TypeOK, Roots, Outputs
  <2>2. found' \in BOOLEAN  BY <1>1, <2>1 DEF IsMine, Node
  <2> QED  BY <1>1, <2>2 DEF IInv, TypeOK, world, choice, account
<1>3. Stamped'  BY <1>1 DEF IInv, Stamped, world
<1>4. Final'  BY <1>1 DEF IInv, Final, IsMine, world, choice
<1>5. \A n \in Names : ~Unchanged(n) => ~Unchanged(n)'  BY <1>1 DEF Unchanged, world
<1> QED  BY <1>1, <1>2, <1>3, <1>4, <1>5, StandStill DEF account

LEMMA RemoveStep == ASSUME IInv, Remove PROVE IInv'
<1>1. /\ UNCHANGED <<input, root, extra, clock, choice, at, todo, held, seen, found, whole, astray, spent>>
      /\ result = "removing" /\ result' \in {"failed", "left"} /\ faults' \in 0 .. Faults
      /\ \/ result' = "failed" /\ out' = IF found THEN [out EXCEPT !["own"]["final"] = None] ELSE out
         \/ result' = "left" /\ out' = out
  BY BoundAssumption DEF Remove, IInv, TypeOK
<1>2. /\ out' \in [Roots -> [Outputs -> Node \cup {None}]]
      /\ \A r \in Roots, o \in Outputs : out'[r][o] = out[r][o] \/ out'[r][o] = None
      /\ result' = "failed" /\ found => out'["own"]["final"] = None
  <2>1. out \in [Roots -> [Outputs -> Node \cup {None}]]  BY DEF IInv, TypeOK
  <2> QED  BY <1>1, <2>1 DEF Roots, Outputs
<1>3. TypeOK'  BY <1>1, <1>2 DEF IInv, TypeOK, choice
<1>4. Stamped'  BY <1>1, <1>2 DEF IInv, Stamped
<1>5. Final'
  <2>1. SUFFICES ASSUME NEW r \in Roots, IsMine(r, "final")'
                 PROVE IsMine(r, "final") /\ (kind = "recover" => result' # "failed")
    BY <1>1 DEF IInv, Final, choice
  <2>2. IsMine(r, "final")  BY <1>2, <2>1 DEF IsMine, Outputs
  <2> QED  BY <1>1, <1>2, <2>1, <2>2 DEF IInv, Final, IsMine
<1>6. \A n \in Names : held[n] # None /\ ~Unchanged(n) => ~Unchanged(n)'
  BY <1>1, <1>2, Lost DEF IInv
<1> QED  BY <1>1, <1>3, <1>4, <1>5, <1>6, StandStill DEF choice

LEMMA StopStep == ASSUME IInv, Stop PROVE IInv'
<1>1. /\ UNCHANGED <<world, choice, at, todo, held, seen, found, whole, astray, spent>>
      /\ result' = "stopped" /\ faults' \in 0 .. Faults
  BY BoundAssumption DEF Stop, IInv, TypeOK
<1>2. TypeOK'  BY <1>1 DEF IInv, TypeOK, world, choice
<1>3. Stamped'  BY <1>1 DEF IInv, Stamped, world
<1>4. Final'  BY <1>1 DEF IInv, Final, IsMine, world, choice
<1>5. \A n \in Names : ~Unchanged(n) => ~Unchanged(n)'  BY <1>1 DEF Unchanged, world
<1> QED  BY <1>1, <1>2, <1>3, <1>4, <1>5, StandStill

LEMMA SpendStep == ASSUME IInv, Spend, input' \in [Inputs -> Node], root' \in Roots \cup {None},
         out' \in [Roots -> [Outputs -> Node \cup {None}]], extra' \in BOOLEAN,
         \A n \in Inputs : input'[n] = input[n] \/ input'[n].stamp = clock,
         \A r \in Roots, o \in Outputs : \/ out'[r][o] = out[r][o] \/ out'[r][o] = None
                                       \/ out'[r][o].stamp = clock,
         \A r \in Roots : IsMine(r, "final")' => IsMine(r, "final")
  PROVE IInv'
<1>1. /\ UNCHANGED <<choice, at, todo, held, seen, found, result, whole, astray, faults>>
      /\ spent' \in 0 .. Budget /\ clock' = clock + 1
  BY BoundAssumption DEF Spend, IInv, TypeOK
<1>2. TypeOK'  BY <1>1 DEF IInv, TypeOK, choice
<1>3. Stamped'  BY <1>1, LaterStamped DEF IInv
<1>4. Final'  BY <1>1 DEF IInv, Final, choice
<1>5. \A n \in Names : held[n] # None /\ ~Unchanged(n) => ~Unchanged(n)'
  BY <1>1, Lost DEF IInv
<1> QED  BY <1>1, <1>2, <1>3, <1>4, <1>5, StandStill

LEMMA RewriteInputStep == ASSUME IInv, NEW n \in Inputs, RewriteInput(n) PROVE IInv'
<1>1. PICK b \in {"selected", "other"} :
        input' = [input EXCEPT ![n] = [body |-> b, stamp |-> clock, mine |-> FALSE]]
  BY DEF RewriteInput
<1>2. Spend /\ UNCHANGED <<root, out, extra>>  BY DEF RewriteInput
<1> DEFINE new == [body |-> b, stamp |-> clock, mine |-> FALSE]
<1>3. new \in Node /\ new.stamp = clock  BY DEF Node, Bodies, IInv, TypeOK
<1>4. /\ input' \in [Inputs -> Node]
      /\ \A m \in Inputs : input'[m] = input[m] \/ input'[m].stamp = clock
  <2>1. input \in [Inputs -> Node] /\ input' = [input EXCEPT ![n] = new]  BY <1>1 DEF IInv, TypeOK
  <2> HIDE DEF new
  <2> QED  BY <1>3, <2>1
<1>5. /\ root' \in Roots \cup {None} /\ extra' \in BOOLEAN
      /\ out' \in [Roots -> [Outputs -> Node \cup {None}]]
  BY <1>2 DEF IInv, TypeOK
<1> QED  BY <1>2, <1>4, <1>5, SpendStep DEF IsMine

\* A document in the operation directory is replaced, or removed.
LEMMA PutStep == ASSUME IInv, NEW o \in Outputs, NEW node, Spend, UNCHANGED <<input, root, extra>>,
         root # None, out' = [out EXCEPT ![root][o] = node],
         node = None \/ (node \in Node /\ node.stamp = clock /\ (node.mine => IsMine(root, o)))
  PROVE IInv'
<1>1. root \in Roots /\ out \in [Roots -> [Outputs -> Node \cup {None}]]  BY DEF IInv, TypeOK
<1>2. /\ out' \in [Roots -> [Outputs -> Node \cup {None}]]
      /\ \A r \in Roots, x \in Outputs : out'[r][x] = IF r = root /\ x = o THEN node ELSE out[r][x]
  BY <1>1
<1>3. \A r \in Roots, x \in Outputs : \/ out'[r][x] = out[r][x] \/ out'[r][x] = None
                                     \/ out'[r][x].stamp = clock
  BY <1>2
<1>4. \A r \in Roots : IsMine(r, "final")' => IsMine(r, "final")
  BY <1>2 DEF IsMine, Outputs
<1>5. /\ root' \in Roots \cup {None} /\ extra' \in BOOLEAN /\ input' \in [Inputs -> Node]
      /\ \A n \in Inputs : input'[n] = input[n]
  BY DEF IInv, TypeOK
<1> QED  BY <1>2, <1>3, <1>4, <1>5, SpendStep

LEMMA RewriteOutputStep == ASSUME IInv, NEW o \in Outputs, RewriteOutput(o) PROVE IInv'
<1>1. /\ Spend /\ UNCHANGED <<input, root, extra>> /\ root # None
  BY DEF RewriteOutput
<1>2. IsMine(root, o) \in BOOLEAN
  <2>1. out[root][o] \in Node \cup {None}  BY <1>1 DEF IInv, TypeOK
  <2> QED  BY <2>1 DEF IsMine, Node
<1>3. CASE out' = [out EXCEPT ![root][o] = None]  BY <1>1, <1>3, PutStep
<1>4. ASSUME NEW b \in {"made", "other"}, NEW m \in {FALSE, IsMine(root, o)},
             out' = [out EXCEPT ![root][o] = [body |-> b, stamp |-> clock, mine |-> m]]
      PROVE IInv'
  <2> DEFINE node == [body |-> b, stamp |-> clock, mine |-> m]
  <2>1. node \in Node /\ node.stamp = clock /\ (node.mine => IsMine(root, o))
    BY <1>2 DEF Node, Bodies, IInv, TypeOK
  <2>2. out' = [out EXCEPT ![root][o] = node]  BY <1>4
  <2> HIDE DEF node
  <2> QED  BY <1>1, <2>1, <2>2, PutStep
<1> QED  BY <1>3, <1>4 DEF RewriteOutput

LEMMA SwapStep == ASSUME IInv, SwapRoot \/ AddOrRemoveName PROVE IInv'
<1>1. Spend /\ input' = input /\ out' = out /\ root' \in Roots \cup {None} /\ extra' \in BOOLEAN
  BY DEF SwapRoot, AddOrRemoveName, IInv, TypeOK
<1> QED  BY <1>1, SpendStep DEF IsMine, IInv, TypeOK

LEMMA InitStep == ASSUME Init PROVE IInv
<1>1. /\ kind \in Kinds /\ at = 1 /\ result = "none" /\ clock = 1 /\ todo = Scope(Steps[1], {})
      /\ held = Nothing /\ seen = Nothing /\ ~astray /\ ~whole
      /\ out = [r \in Roots |-> [o \in Outputs |-> None]] /\ root = None
      /\ overlap \in BOOLEAN /\ agree \in BOOLEAN /\ ~extra /\ ~found /\ spent = 0 /\ faults = 0
  BY Zenon, BoundAssumption DEF Init, Steps
<1>2. PICK wrong \in SUBSET Pinned : input = [n \in Inputs |->
        [body |-> IF n \in wrong THEN "other" ELSE "selected", stamp |-> 0, mine |-> FALSE]]
  BY Zenon DEF Init
<1>3. input \in [Inputs -> Node] /\ \A n \in Inputs : input[n].stamp = 0
  BY <1>2 DEF Node, Bodies
<1>4. Steps[1].do \in {"select", "inventory"} /\ 1 <= Len(Steps) /\ Len(Steps) \in Nat
  BY <1>1, Order DEF Steps
<1>5. TypeOK
  <2>1. todo \in SUBSET Names  BY <1>1, ScopeTyped
  <2>2. root \in Roots \cup {None} /\ {extra, overlap, agree} \subseteq BOOLEAN /\ found \in BOOLEAN
    BY <1>1 DEF Init
  <2>3. spent \in 0 .. Budget /\ faults \in 0 .. Faults /\ clock \in Nat /\ at \in Nat
    BY <1>1, BoundAssumption
  <2>4. Pinned \subseteq Names  BY InputAssumption DEF Names
  <2>5. out \in [Roots -> [Outputs -> Node \cup {None}]]  BY <1>1
  <2>6. held \in [Names -> Node \cup {None}] /\ seen \in [Names -> Bodies \cup {None}]
    BY <1>1 DEF Nothing
  <2>7. {astray, whole} \subseteq BOOLEAN  BY DEF Init
  <2>8. \A n \in Pinned : held[n] = None  BY <1>1, <2>4 DEF Nothing
  <2> QED  BY <1>1, <1>3, <2>1, <2>2, <2>3, <2>5, <2>6, <2>7, <2>8 DEF TypeOK
<1>6. Stamped  BY <1>1, <1>3 DEF Stamped, Nothing
<1>7. Placed
  <2>1. Doing("select") => todo = Inputs  BY <1>1 DEF Doing, Scope, Step
  <2>2. ~(at > SelectAt(kind)) /\ ~(at > JoinAt(kind))  BY <1>1, Order
  <2>3. ~Doing("check") /\ ~Doing("last") /\ ~Doing("read")  BY <1>1, <1>4 DEF Doing, Step
  <2>4. at \in 1 .. Len(Steps) + 1 /\ at <= Len(Steps) /\ result # "accepted"  BY <1>1, <1>4
  <2> QED  BY <2>1, <2>2, <2>3, <2>4 DEF Placed
<1>8. Whole  BY <1>1, Order DEF Whole
<1>9. Astray /\ Final  BY <1>1 DEF Astray, Final, IsMine, Outputs
<1> QED  BY <1>5, <1>6, <1>7, <1>8, <1>9 DEF IInv


LEMMA QuietAction == ASSUME IInv, Inventory \/ Join \/ Separate \/ MakeDirectory \/ Identity
                                  \/ CompareResult \/ SamePending \/ Confirm
  PROVE IInv'
<1>1. /\ Running /\ Step.do \in Quiet /\ Advance(Held)
      /\ UNCHANGED <<input, out, clock, choice, held, seen, found, account>>
  BY DEF Inventory, Join, Separate, MakeDirectory, Identity, CompareResult, SamePending, Confirm,
         Once, Quiet, world
<1>2. root' \in Roots \cup {None} /\ extra' \in BOOLEAN
  BY DEF Inventory, Join, Separate, MakeDirectory, Identity, CompareResult, SamePending, Confirm,
         Roots, world, IInv, TypeOK
<1>3. /\ Step.do = "join" => agree
      /\ Step.do = "compare" => Repeated
      /\ kind = "audit" /\ Step.do = "inventory" => ~extra
  BY DEF Inventory, Join, Separate, MakeDirectory, Identity, CompareResult, SamePending, Confirm, Once
<1> QED  BY <1>1, <1>2, <1>3, QuietStep

LEMMA MakeAction == ASSUME IInv, Produce \/ Create PROVE IInv'
<1>1. CASE Produce  BY <1>1, MakeStep DEF Produce, Once, Bodies
<1>2. CASE Create   BY <1>2, MakeStep DEF Create, Once, Bodies
<1> QED  BY <1>1, <1>2

LEMMA Stutter == ASSUME IInv, UNCHANGED vars PROVE IInv'
<1>1. UNCHANGED <<input, root, out, extra, overlap, agree, kind, at, todo, held, seen, found, result,
                  astray, whole, clock, spent, faults>>
  BY DEF vars, world, choice, account
<1>2. TypeOK' /\ Stamped' /\ Final'  BY <1>1 DEF IInv, TypeOK, Stamped, Final, IsMine
<1>3. \A n \in Names : ~Unchanged(n) => ~Unchanged(n)'  BY <1>1 DEF Unchanged
<1> QED  BY <1>1, <1>2, <1>3, StandStill DEF choice

LEMMA NextStep == ASSUME IInv, [Next]_vars PROVE IInv'
<1>1. CASE OperationStep
  <2>1. CASE \E n \in Names : Select(n) \/ CheckHeld(n) \/ ChildReads(n)
    BY <2>1, SelectStep, CheckStep, ReadStep
  <2> QED  BY <1>1, <2>1, QuietAction, MakeAction, HoldStep, FillStep, EndLoopStep DEF OperationStep
<1>2. CASE Fail \/ Find \/ Remove \/ Stop  BY <1>2, FailStep, FindStep, RemoveStep, StopStep
<1>3. CASE (\E n \in Inputs : RewriteInput(n)) \/ (\E o \in Outputs : RewriteOutput(o))
           \/ SwapRoot \/ AddOrRemoveName
  BY <1>3, RewriteInputStep, RewriteOutputStep, SwapStep
<1>4. CASE UNCHANGED vars  BY <1>4, Stutter
<1> QED  BY <1>1, <1>2, <1>3, <1>4 DEF Next
-----------------------------------------------------------------------------
LEMMA Invariance == Spec => []IInv
<1>1. Init => IInv  BY InitStep
<1>2. IInv /\ [Next]_vars => IInv'  BY NextStep
<1> QED  BY <1>1, <1>2, PTL DEF Spec

\* The state of an operation keeps its type: what was held as pinned keeps the
\* selected bytes, however often others change the files.
THEOREM TypeCorrect == Spec => []TypeOK
<1>1. IInv => TypeOK  BY DEF IInv
<1> QED  BY <1>1, Invariance, PTL

LEMMA AcceptedTogether == IInv => StoodTogether
<1>1. SUFFICES ASSUME IInv, result = "accepted"
      PROVE whole /\ ~astray /\ agree /\ \A n \in Pinned : held[n].body = "selected"
  BY DEF StoodTogether
<1>2. at = Len(Steps) + 1 /\ kind \in Kinds /\ Steps = Program(kind) /\ Len(Steps) \in Nat
  BY <1>1, Here DEF IInv, Placed
<1>3. /\ at > LastAt(kind) /\ at > JoinAt(kind) /\ at > SelectAt(kind) /\ at > CompareAt(kind)
      /\ at > Len(Steps)
  BY <1>2, Order
<1>4. whole /\ agree  BY <1>1, <1>3 DEF IInv, Whole, Placed
<1>5. ~Noticed  BY <1>2, <1>3, Order DEF Noticed, Doing
<1>6. \A n \in Pinned : held[n] # None  BY <1>1, <1>3, InputAssumption DEF IInv, Placed
<1> QED  BY <1>1, <1>4, <1>5, <1>6 DEF IInv, Astray, TypeOK

\* record, audit and prepare-recovery-request report success only if, when the
\* last check began, everything measured was as first measured, the selected
\* documents belonged together and no native program had read anything else,
\* for any number of changes others make, also back to what was there.
THEOREM SuccessStoodTogether == Spec => []StoodTogether
BY AcceptedTogether, Invariance, PTL

LEMMA ExposedLate == IInv => ExposedIsVerified
<1>1. SUFFICES ASSUME IInv, NEW r \in Roots, IsMine(r, "final") PROVE ~Noticed
  BY DEF ExposedIsVerified, IInv, Astray
<1>2. kind \in Kinds /\ at > CreateAt(kind) /\ kind # "audit"  BY <1>1 DEF IInv, Final, TypeOK
<1>3. at > CompareAt(kind)  BY <1>1, <1>2, Here, Order DEF IInv
<1>4. ~Doing("read") /\ ~Doing("produce") /\ ~Doing("check")
  <2>1. CASE at <= Len(Steps)
    <3>1. at \in 1 .. Len(Program(kind)) /\ Step = Program(kind)[at]
      BY <1>1, <2>1, Here DEF IInv, Step
    <3>2. at >= CreateAt(kind)  BY <1>2, <3>1, Order
    <3> QED  BY <1>2, <3>1, <3>2, Where DEF Doing
  <2>2. CASE ~(at <= Len(Steps))  BY <2>2 DEF Doing
  <2> QED  BY <2>1, <2>2
<1>5. ~(at \in VerifyAt(kind) .. CompareAt(kind))  BY <1>2, <1>3, Order
<1> QED  BY <1>4, <1>5 DEF Noticed

\* A final document that the operation created is one that its native programs
\* verified from the measured bytes, also when it is still being written and
\* when the operation then failed or was killed.
THEOREM FinalIsVerified == Spec => []ExposedIsVerified
BY ExposedLate, Invariance, PTL

\* A recovery that failed has none of its own requests left in any directory.
THEOREM FailureTakesRequestBack == Spec => []FailureLeavesNoRequest
<1>1. IInv => FailureLeavesNoRequest  BY DEF IInv, Final, FailureLeavesNoRequest
<1> QED  BY <1>1, Invariance, PTL
=============================================================================
