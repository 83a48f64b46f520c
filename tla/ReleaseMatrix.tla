------------------------------ MODULE ReleaseMatrix ------------------------------
(***************************************************************************)
(* The release plan and what is scheduled from it.                         *)
(* select-release-matrix-v2.py reads a plan document group by group, lane  *)
(* by lane and SDK by SDK, and projects it into build matrices.            *)
(* compiler-owner-matrix-v2.py and sdk-owner-matrix-v2.py run later, each  *)
(* over the plan file as it then is, and print the owners that the later   *)
(* jobs must be.  Anybody may write to the files between their steps.      *)
(*                                                                         *)
(* Groups, profiles and SDKs are natural numbers, in the order of their    *)
(* names.  The document is any: a lane or an SDK is chosen when it is read *)
(* and a refused one stays at the end of what was read.                    *)
(***************************************************************************)
EXTENDS Naturals, SequencesExt

CONSTANTS Groups, Profiles, Sdks,         \* the names a document may hold
          MaxGroups, MaxSdks, MaxRefs, MaxBuilds,
          Edits,                          \* how often the files are written to
          None, Refused, Selected         \* no result, a refusal, and nothing printed yet

ASSUME NameAssumption == Groups \subseteq Nat /\ Profiles \subseteq Nat /\ Sdks \subseteq Nat
ASSUME LimitAssumption == {MaxGroups, MaxSdks, MaxRefs, MaxBuilds, Edits} \subseteq Nat
ASSUME ResultAssumption == Selected \notin {None, Refused}

ActiveHosts == <<"linux-aarch64", "linux-x86_64", "macos-aarch64">>
Hosts == Range(ActiveHosts)
Lanes == [group : Groups, host : Hosts, profile : Profiles]
References == Groups \X Profiles
Helpers == {"compiler", "sdk"}

VARIABLES
  stage,     \* how far the document has been read, "valid", or that it was refused,
             \* for an entry or for being unclosed at the end of its lanes
  plan,      \* groups, lanes and sdks as read
  declared,  \* the profiles of each group, in the order they were first met
  matrix,    \* the projection the workflow asked for
  disk,      \* the plan file as it is now
  locks,     \* the files the groups refer to are the ones of the plan
  route,     \* the kind of ref and the event of the run
  held,      \* what each helper has read from the plan file
  printed,   \* what it printed
  edits

reading == <<stage, plan, declared>>
helping == <<held, printed>>
files == <<disk, locks>>
vars == <<reading, matrix, files, route, helping, edits>>

TypeOK ==
  /\ stage \in {"groups", "lanes", "sdks", "valid", "refused", "unclosed"}
  /\ plan.groups \in Seq(Groups) /\ plan.lanes \in Seq(Lanes)
  /\ \A i \in DOMAIN plan.sdks : plan.sdks[i].id \in Sdks /\ plan.sdks[i].refs \in Seq(References)
  /\ \A g \in Groups : declared[g] \in Seq(Profiles) /\ IsInjective(declared[g])
  /\ \A g \in Groups : declared[g] # <<>> => stage = "refused" \/ g \in Range(plan.groups)
  /\ stage = "valid" => Len(plan.groups) \in 1 .. MaxGroups /\ Len(plan.sdks) <= MaxSdks
  /\ locks \in BOOLEAN /\ edits \in 0 .. Edits
  /\ DOMAIN held = Helpers /\ DOMAIN printed = Helpers

Empty == [groups |-> <<>>, lanes |-> <<>>, sdks |-> <<>>]

Init ==
  /\ stage = "groups" /\ plan = Empty /\ declared = [g \in Groups |-> <<>>]
  /\ matrix = None /\ disk = Empty /\ locks = TRUE
  /\ route \in [ref : {"tag", "branch"}, event : {"push", "workflow_dispatch"}]
  /\ held = [k \in Helpers |-> None] /\ printed = [k \in Helpers |-> None]
  /\ edits = 0

----------------------------------------------------------------------------
(* The reading of the document *)

Ascending(s) == \A i \in 2 .. Len(s) : s[i - 1] < s[i]
Place(s, x) == CHOOSE i \in DOMAIN s : s[i] = x
Before(a, b) == \E i \in DOMAIN a : a[i] < b[i] /\ \A j \in 1 .. i - 1 : a[j] = b[j]

\* The elements of s that are in T, in their order
Only(s, T) ==
  LET kept[n \in 0 .. Len(s)] ==
        IF n = 0 THEN <<>> ELSE IF s[n] \in T THEN Append(kept[n - 1], s[n]) ELSE kept[n - 1]
  IN  kept[Len(s)]

Advance(accepted, next, otherwise) == stage' = IF accepted THEN next ELSE otherwise

ReadGroups(groups) ==
  /\ stage = "groups"
  /\ Advance(groups # <<>> /\ Len(groups) <= MaxGroups /\ Ascending(groups), "lanes", "refused")
  /\ plan' = [plan EXCEPT !.groups = groups]
  /\ UNCHANGED <<declared, matrix, files, route, helping, edits>>

\* The profiles declared once the lane is read
With(lane) ==
  IF lane.profile \in Range(declared[lane.group]) THEN declared
  ELSE [declared EXCEPT ![lane.group] = Append(@, lane.profile)]

\* (seeded fault) profiles stand in the order of their names
KeyByName(lane) == <<Place(plan.groups, lane.group), lane.profile, Place(ActiveHosts, lane.host)>>

\* The order of the producer: group, then profile as first met, then host
Key(lane) == <<Place(plan.groups, lane.group), Place(With(lane)[lane.group], lane.profile),
               Place(ActiveHosts, lane.host)>>

\* (seeded fault) a profile may have a second owner
LaneFollowsOrder(lane) ==
  /\ lane.group \in Range(plan.groups)
  /\ lane \notin Range(plan.lanes)
  /\ plan.lanes = <<>> \/ Before(Key(Last(plan.lanes)), Key(lane))

LaneFollows(lane) ==
  /\ lane.group \in Range(plan.groups)
  /\ lane \notin Range(plan.lanes)
  /\ \A g \in Groups \ {lane.group} : lane.profile \notin Range(declared[g])
  /\ plan.lanes = <<>> \/ Before(Key(Last(plan.lanes)), Key(lane))

ReadLane(lane) ==
  /\ stage = "lanes"
  /\ Advance(LaneFollows(lane), "lanes", "refused")
  /\ plan' = [plan EXCEPT !.lanes = Append(@, lane)]
  /\ declared' = IF LaneFollows(lane) THEN With(lane) ELSE declared
  /\ UNCHANGED <<matrix, files, route, helping, edits>>

Crossed(g, p) ==
  LET own == Only(plan.lanes, [group : {g}, host : Hosts, profile : {p}])
  IN  [i \in DOMAIN own |-> own[i].host] = ActiveHosts

LanesClosed ==
  \A g \in Range(plan.groups) : declared[g] # <<>> /\ \A p \in Range(declared[g]) : Crossed(g, p)

EndLanes ==
  /\ stage = "lanes"
  /\ Advance(plan.lanes # <<>> /\ LanesClosed, "sdks", "unclosed")
  /\ UNCHANGED <<plan, declared, matrix, files, route, helping, edits>>

SdkFollows(sdk) ==
  /\ plan.sdks = <<>> \/ Last(plan.sdks).id < sdk.id
  /\ Len(sdk.refs) \in 1 .. MaxRefs
  /\ \A i \in DOMAIN sdk.refs : sdk.refs[i][2] \in Range(declared[sdk.refs[i][1]])
  /\ \A i \in 2 .. Len(sdk.refs) : Before(sdk.refs[i - 1], sdk.refs[i])

ReadSdk(sdk) ==
  /\ stage = "sdks"
  /\ Advance(Len(plan.sdks) < MaxSdks /\ SdkFollows(sdk), "sdks", "refused")
  /\ plan' = [plan EXCEPT !.sdks = Append(@, sdk)]
  /\ UNCHANGED <<declared, matrix, files, route, helping, edits>>

EndSdks ==
  /\ stage = "sdks" /\ stage' = "valid"
  /\ disk' = plan
  /\ UNCHANGED <<plan, declared, matrix, locks, route, helping, edits>>

----------------------------------------------------------------------------
(* The projection *)

\* A request: event, scope, full qualification and a group to diagnose, or None
Requests == [event : {"push", "workflow_dispatch"}, scope : {"full", "linux", "linux-x86_64"},
             full : BOOLEAN, group : Groups \cup {None}]

ScopeAllowed(r) ==
  /\ r.full => r.event = "workflow_dispatch" /\ r.scope = "full"
  /\ r.event = "push" => r.scope = "full"
  /\ r.event = "workflow_dispatch" /\ r.scope = "full" => r.full
  /\ r.group # None => r.event = "workflow_dispatch" /\ r.scope # "full"

SelectedHosts(scope) == CASE scope = "full" -> Hosts
                          [] scope = "linux-x86_64" -> {"linux-x86_64"}
                          [] scope = "linux" -> {"linux-aarch64", "linux-x86_64"}

SelectedLanes(p, r) ==
  Only(p.lanes, {lane \in Lanes : lane.host \in SelectedHosts(r.scope) /\ r.group \in {None, lane.group}})

Copies(lanes) == [i \in 1 .. 2 * Len(lanes) |->
                    [lane |-> lanes[(i + 1) \div 2], copy |-> IF i % 2 = 1 THEN "a" ELSE "b"]]

\* (seeded fault) lanes are counted, not copies
ProjectableLanes(p, r) ==
  /\ ScopeAllowed(r)
  /\ r.group \in Range(p.groups) \cup {None}
  /\ Len(SelectedLanes(p, r)) <= MaxBuilds

Projectable(p, r) ==
  /\ ScopeAllowed(r)
  /\ r.group \in Range(p.groups) \cup {None}
  /\ Len(Copies(SelectedLanes(p, r))) <= MaxBuilds

Projection(p, r) ==
  [request |-> r,
   verify |-> SelectedLanes(p, r),
   build |-> Copies(SelectedLanes(p, r)),
   sdks |-> Only(p.sdks, {sdk \in Range(p.sdks) : \/ r.group = None
                                                  \/ \E ref \in Range(sdk.refs) : ref[1] = r.group}),
   complete |-> r.scope = "full" /\ r.group = None]

Project(r) ==
  /\ stage = "valid" /\ matrix = None
  /\ matrix' = IF Projectable(plan, r) THEN Projection(plan, r) ELSE Refused
  /\ UNCHANGED <<reading, files, route, helping, edits>>

----------------------------------------------------------------------------
(* The owner helpers *)

\* The route that a helper projects with: one asks the provider for the event,
\* the other concludes it from the ref
RouteEvent(k) == IF k = "compiler" THEN route.event
                 ELSE IF route.ref = "tag" THEN "push" ELSE "workflow_dispatch"
RouteSelects(k) == k = "compiler" => route # [ref |-> "branch", event |-> "push"]
RouteRequest(k) == [event |-> RouteEvent(k), scope |-> "full",
                    full |-> RouteEvent(k) = "workflow_dispatch", group |-> None]

CompilerOwners(m) == {[group |-> e.lane.group, host |-> e.lane.host, profile |-> e.lane.profile,
                       copy |-> e.copy] : e \in Range(m.build)}

Referred(p) == UNION {Range(sdk.refs) : sdk \in Range(p.sdks)}
SdkOwner(p, ref, h) ==
  [group |-> ref[1], host |-> h, profile |-> ref[2],
   ids |-> {sdk.id : sdk \in {s \in Range(p.sdks) : ref \in Range(s.refs)}}]
SdkOwners(p) == {SdkOwner(p, ref, h) : ref \in Referred(p), h \in Hosts}

Owners(k, p) == IF k = "compiler" THEN CompilerOwners(Projection(p, RouteRequest(k))) ELSE SdkOwners(p)

\* (seeded fault) whatever the path holds is taken
AnyPlan(p) == p # Empty

\* The selected digest names the plan that was validated
Bound(p) == p = plan

Selects(k) ==
  /\ Bound(held[k])
  /\ RouteSelects(k) /\ Projectable(held[k], RouteRequest(k))
  /\ k = "sdk" => held[k].sdks # <<>> /\ Cardinality(SdkOwners(held[k])) <= MaxBuilds
  /\ locks

ReadPlan(k) ==
  /\ stage = "valid" /\ held[k] = None
  /\ held' = [held EXCEPT ![k] = disk]
  /\ UNCHANGED <<reading, matrix, files, route, printed, edits>>

\* The file is measured again right after it was read
Select(k) ==
  /\ held[k] # None /\ printed[k] = None
  /\ printed' = [printed EXCEPT ![k] = IF disk = held[k] /\ Selects(k) THEN Selected ELSE Refused]
  /\ UNCHANGED <<reading, matrix, files, route, held, edits>>

\* Everything is measured once more before the first byte is printed
PrintOwners(k) ==
  /\ printed[k] = Selected
  /\ printed' = [printed EXCEPT ![k] = IF disk = held[k] /\ locks THEN Owners(k, held[k]) ELSE Refused]
  /\ UNCHANGED <<reading, matrix, files, route, held, edits>>

----------------------------------------------------------------------------
(* Anybody who may write to the files: the plan of another run, or the own one *)

ShorterLanes == [plan EXCEPT !.lanes = SubSeq(@, 1, Len(@) - Len(ActiveHosts)), !.sdks = <<>>]
FewerSdks == [plan EXCEPT !.sdks = SubSeq(@, 1, Len(@) - 1)]
OtherPlans == {ShorterLanes} \cup (IF plan.sdks = <<>> THEN {} ELSE {FewerSdks})

WriteFile ==
  /\ stage = "valid" /\ edits < Edits /\ edits' = edits + 1
  /\ \/ disk' \in (OtherPlans \cup {plan}) \ {disk} /\ UNCHANGED locks
     \/ locks' = ~locks /\ UNCHANGED disk
  /\ UNCHANGED <<reading, matrix, route, helping>>

Read ==
  \/ \E groups \in BoundedSeq(Groups, MaxGroups + 1) : ReadGroups(groups)
  \/ \E lane \in Lanes : ReadLane(lane)
  \/ EndLanes
  \/ \E sdk \in [id : Sdks, refs : BoundedSeq(References, MaxRefs)] : ReadSdk(sdk)
  \/ EndSdks

Next ==
  \/ Read
  \/ \E r \in Requests : Project(r)
  \/ \E k \in Helpers : ReadPlan(k) \/ Select(k) \/ PrintOwners(k)
  \/ WriteFile

Spec == Init /\ [][Next]_vars

----------------------------------------------------------------------------
(* A declarative account of the documents that should be accepted *)

\* The lane at position i of a plan whose profiles stand in blocks
Block(i) == (i + Len(ActiveHosts) - 1) \div Len(ActiveHosts)
InBlocks(lanes) ==
  \A i \in DOMAIN lanes :
    /\ lanes[i].host = ActiveHosts[((i - 1) % Len(ActiveHosts)) + 1]
    /\ \A j \in DOMAIN lanes :
         (lanes[j].profile = lanes[i].profile) <=> (Block(j) = Block(i))
    /\ \A j \in DOMAIN lanes : j < i => lanes[j].group <= lanes[i].group
    /\ \A j \in DOMAIN lanes : lanes[j].profile = lanes[i].profile => lanes[j].group = lanes[i].group
IsProduct(p) ==
  /\ InBlocks(p.lanes)
  /\ p.lanes # <<>> /\ Len(p.lanes) % Len(ActiveHosts) = 0
  /\ {lane.group : lane \in Range(p.lanes)} = Range(p.groups)

BeginsProduct(p) == InBlocks(p.lanes) /\ \A lane \in Range(p.lanes) : lane.group \in Range(p.groups)

\* A document whose lanes were all accepted has every profile of every group once for every
\* host, in the producer's order, and a profile in one group only: the running keys, owners
\* and first occurrences of the reader add up to the product (_validate_plan).
\* It refuses no document of the producer: what it had read when it refused a lane begins
\* no product of groups, profiles and hosts, and what it found unclosed is none.
ExactlyProductsAccepted ==
  /\ stage \in {"sdks", "valid"} => IsProduct(plan)
  /\ stage = "refused" /\ plan.lanes # <<>> /\ plan.sdks = <<>> => ~BeginsProduct(plan)
  /\ stage = "unclosed" => ~IsProduct(plan)

\* A projection that was issued schedules two copies of every lane of the requested hosts and
\* group and of no other, at most MaxBuilds of them: a plan over the limit is refused, never
\* cut.  It calls itself complete only for all lanes and all SDKs (project).
WholeOrRefused ==
  matrix \notin {None, Refused} =>
    LET wanted == {lane \in Range(plan.lanes) : /\ lane.host \in SelectedHosts(matrix.request.scope)
                                                /\ matrix.request.group \in {None, lane.group}}
    IN  /\ Range(matrix.build) = [lane : wanted, copy : {"a", "b"}]
        /\ Len(matrix.build) = 2 * Cardinality(wanted) /\ Len(matrix.build) <= MaxBuilds
        /\ matrix.complete => /\ wanted = Range(plan.lanes) /\ matrix.sdks = plan.sdks
                              /\ (matrix.request.event = "push" \/ matrix.request.full)

\* When both helpers have printed, every SDK owner has the two compiler owners of its lane,
\* the compiler owners are the lanes of the validated plan twice, and the SDK owners generate
\* every SDK for every profile it refers to on every host, though the file may have been
\* written to between the two and they find the event in different ways (select of both).
OwnersJoin ==
  printed["compiler"] \notin {None, Selected, Refused} /\ printed["sdk"] \notin {None, Selected, Refused} =>
    /\ \A o \in printed["sdk"] : \A c \in {"a", "b"} :
         [group |-> o.group, host |-> o.host, profile |-> o.profile, copy |-> c] \in printed["compiler"]
    /\ {[group |-> o.group, host |-> o.host, profile |-> o.profile] : o \in printed["compiler"]} = Range(plan.lanes)
    /\ \A sdk \in Range(plan.sdks) : \A ref \in Range(sdk.refs) : \A h \in Hosts :
         \E o \in printed["sdk"] : o.group = ref[1] /\ o.profile = ref[2] /\ o.host = h /\ sdk.id \in o.ids
    /\ \A o \in printed["sdk"] : \A q \in printed["sdk"] :
         o.group = q.group /\ o.host = q.host /\ o.profile = q.profile => o = q
============================================================================
