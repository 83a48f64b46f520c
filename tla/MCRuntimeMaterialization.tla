---- MODULE MCRuntimeMaterialization ----
(* Instances of RuntimeMaterialization for TLC. *)
EXTENDS RuntimeMaterialization, TLC

TwoFiles == {"README.md", "bin/aros"}
Member0(path, intact) == [path |-> path, intact |-> intact]
Proper == <<Member0("README.md", TRUE), Member0("bin/aros", TRUE)>>
\* Complete, short, with a file twice, with an undeclared file, with other bytes.
Deliveries == {Proper,
               <<Member0("bin/aros", TRUE)>>,
               <<Member0("bin/aros", TRUE), Member0("bin/aros", TRUE)>>,
               Proper \o <<Member0(Alien, TRUE)>>,
               <<Member0("bin/aros", FALSE), Member0("README.md", TRUE)>>}

(* Some behaviours are calm from the start: no step fails, the lock and the *)
(* release stay as they are and the archive is the proper one.              *)

VARIABLE calm
Calm == INSTANCE RuntimeMaterialization WITH Faulty <- FALSE

MCInit == Init /\ calm \in (IF archive = Proper THEN BOOLEAN ELSE {FALSE})

MCNext == /\ UNCHANGED calm
          /\ \/ calm /\ UNCHANGED <<lock, remote>> /\ Calm!Next
             \/ ~calm /\ Next

CalmStep(p) == calm /\ UNCHANGED calm /\ (Calm!RunStep(p) \/ Calm!Verify(p) \/ Calm!Fail(p) \/ Calm!RemovePartial(p))

MCSpec == MCInit /\ [][MCNext]_<<vars, calm>> /\ \A p \in Runs : WF_<<vars, calm>>(CalmStep(p))

\* Without faults and changes one of the racing runs completes, although each
\* may be the one that another run's directory stops.
SomeCalmRunCompletes == calm => SomeRunCompletes
====
