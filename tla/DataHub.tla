------------------------------ MODULE DataHub ------------------------------
(***************************************************************************)
(* DataHub and its three users: the seed that builds the commerce graph    *)
(* aspect by aspect, the runs that read their context from it, and the     *)
(* write-back that annotates the affected assets and reads them back.      *)
(*                                                                         *)
(* DataHub itself is external: it takes proposals of one entity in their   *)
(* order, a later batch after an earlier one, and upserts whole aspects.   *)
(* A tool call may be answered or fail, and either way it may have been    *)
(* applied to any of the assets it names: the client looks at no payload.  *)
(***************************************************************************)
EXTENDS Naturals

CONSTANTS
  Projections,  \* the downstream datasets of the topology
  Owned,        \* those whose owner the seed names
  Source,       \* the authoritative catalogue
  Runs,         \* the runs followed step by step
  Others,       \* runs of which only the marks they leave are seen
  NoRun,
  ToolSets,     \* the mutation tools a server may expose
  Parts,        \* what a failed emit may have sent of its batch: a bound
  Scenarios     \* what is there and what may happen: the bounds

Mutations == {"properties", "tag", "owner", "document"}

(* An aspect of an entity; of a projection, "io" is its job's.             *)
Proposal ==
  [aspect : {"definitions", "tags", "governance", "io", "properties", "upstream", "owner"},
   of : Projections \cup {Source}]

(* How often the graph is seeded or reset, seed.verify looks and others    *)
(* mark, and whether the runs get as far as writing.                       *)
Scenario ==
  [graph : SUBSET Proposal, seeds : Nat, resets : Nat, looks : Nat, marks : Nat,
   writes : BOOLEAN]

ASSUME DataHubAssumption ==
  /\ Owned \subseteq Projections /\ Source \notin Projections
  /\ NoRun \notin Runs \cup Others /\ Runs \cap Others = {}
  /\ ToolSets \subseteq SUBSET Mutations /\ Parts \subseteq SUBSET Proposal
  /\ Scenarios \subseteq Scenario

(* What a write-back leaves on an asset: the run, with the time of its     *)
(* validation, and the pull request if it has one.  The incident's status  *)
(* is optional in the same way.                                            *)
Keys == {"last_run", "pull_request_url"}

VARIABLES
  catalogue,  \* the aspects the seed has put there
  props,      \* whose value each structured property of a projection has
  tagged,     \* the projections with the tag "remediated"
  documents,  \* the runs whose decision document is saved
  queue,      \* proposals sent and not consumed: aspect, of, batch
  batch,      \* the batch the seed emits next, 0 when none runs
  whole,      \* history: both batches of a seed were sent
  verify,     \* how far seed.verify is
  left,       \* of the scenario
  phase,      \* per run
  named,      \* ... what get_lineage answered
  context,    \* ... what get_entities said of it
  plan,       \* ... what its write-back is to say, and where
  exposed,    \* ... the tools of its session
  ops,        \* ... the outcome of each write operation
  trace,      \* ... the recorded outcome of each call
  settled,    \* history: the graph was complete when the run read it
  carried     \* history: targets with property and tag at the read-back

graph == <<catalogue, props, tagged, documents>>
seed  == <<queue, batch, whole>>
run   == <<phase, named, context, plan, exposed, ops, trace, settled, carried>>
vars  == <<graph, seed, verify, left, run>>

Nothing == [assets |-> {}, ruled |-> {}, unowned |-> {}, authority |-> FALSE]

NoPlan == [targets |-> {}, values |-> {}, assign |-> FALSE]

Untried == [o \in Mutations |-> "none"]

Init ==
  /\ left \in Scenarios
  /\ catalogue = left.graph
  /\ props = [p \in Projections |-> [k \in Keys |-> NoRun]]
  /\ tagged = {} /\ documents = {}
  /\ queue = {} /\ batch = 0 /\ whole = FALSE
  /\ verify = "idle"
  /\ phase = [r \in Runs |-> "pending"]
  /\ named = [r \in Runs |-> {}]
  /\ context = [r \in Runs |-> Nothing]
  /\ plan = [r \in Runs |-> NoPlan]
  /\ exposed = [r \in Runs |-> {}]
  /\ ops = [r \in Runs |-> Untried] /\ trace = [r \in Runs |-> Untried]
  /\ settled = [r \in Runs |-> FALSE]
  /\ carried = [r \in Runs |-> {}]

-----------------------------------------------------------------------------
(* seed.commerce_lab.  The vocabulary between the two batches is read by   *)
(* nothing here.                                                           *)

Definitions == {[aspect |-> "definitions", of |-> Source]}

AssetsAndLineage ==
  [aspect : {"tags", "governance"}, of : {Source}]
    \cup [aspect : {"io", "properties", "tags", "upstream", "governance"}, of : Projections]
    \cup [aspect : {"owner"}, of : Owned]

(* A mutant of Batches: the assets go first. *)
AssetsFirst == <<AssetsAndLineage, Definitions>>

Batches == <<Definitions, AssetsAndLineage>>

Seeded == Definitions \cup AssetsAndLineage

Sent(proposals, n) == {[aspect |-> x.aspect, of |-> x.of, batch |-> n] : x \in proposals}

Spend(what) == left[what] > 0 /\ left' = [left EXCEPT ![what] = @ - 1]

StartSeed ==
  /\ batch = 0 /\ queue = {}
  /\ batch' = 1
  /\ Spend("seeds")
  /\ UNCHANGED <<graph, queue, whole, verify, run>>

(* A failed emit ends the seed, with what was sent before and whatever the *)
(* emitter got out of this batch.                                          *)
EmitBatch ==
  /\ batch # 0
  /\ \/ /\ queue' = queue \cup Sent(Batches[batch], batch)
        /\ batch' = IF batch = 2 THEN 0 ELSE 2
        /\ whole' = (whole \/ batch = 2)
     \/ /\ \E part \in Parts :
             queue' = queue \cup Sent(part \cap Batches[batch], batch)
        /\ batch' = 0 /\ UNCHANGED whole
  /\ UNCHANGED <<graph, verify, left, run>>

(* --reset: the governance properties alone. *)
EmitReset ==
  /\ batch = 0 /\ queue = {}
  /\ Spend("resets")
  /\ queue' = Sent([aspect : {"governance"}, of : Projections], 1)
  /\ UNCHANGED <<graph, batch, whole, verify, run>>

(* The order in which an entity's aspects are built. *)
Position ==
  [definitions |-> 0, io |-> 1, properties |-> 1, tags |-> 2, upstream |-> 3,
   owner |-> 4, governance |-> 5]

SameEntity(x, y) == x.of = y.of /\ (x.aspect = "io" <=> y.aspect = "io")

Precedes(x, y) ==
  \/ x.batch < y.batch
  \/ x.batch = y.batch /\ SameEntity(x, y) /\ Position[x.aspect] < Position[y.aspect]

(* DataHub consumes a proposal.  Values of an undefined property are       *)
(* rejected; governance replaces every structured property of the asset,   *)
(* and tags every tag.                                                     *)
Consume ==
  \E x \in queue :
    /\ \A y \in queue : ~Precedes(y, x)
    /\ queue' = queue \ {x}
    /\ IF x.aspect = "governance" /\ ~(Definitions \subseteq catalogue)
       THEN UNCHANGED graph
       ELSE /\ catalogue' = catalogue \cup {[aspect |-> x.aspect, of |-> x.of]}
            /\ props' = [p \in Projections |->
                           IF x.aspect = "governance" /\ x.of = p
                           THEN [k \in Keys |-> NoRun] ELSE props[p]]
            /\ tagged' = IF x.aspect = "tags" THEN tagged \ {x.of} ELSE tagged
            /\ UNCHANGED documents
    /\ UNCHANGED <<batch, whole, verify, left, run>>

Has(aspect, e) == [aspect |-> aspect, of |-> e] \in catalogue

(* Projections within so many hops of the source: the dataset's own        *)
(* lineage is one hop, the way through its job is two.                     *)
Within(hops) ==
  {p \in Projections : Has("upstream", p) \/ (hops >= 2 /\ Has("io", p))}

-----------------------------------------------------------------------------
(* seed.verify: the fan-out and then the governance, again and again.      *)
(* The second looks for the word "authoritative", which the source's tag   *)
(* contains as well as its property.                                       *)

VerifyLineage ==
  /\ verify = "idle" /\ Spend("looks")
  /\ verify' \in {"incomplete"}
       \cup (IF Within(2) = Projections /\ \A p \in Projections : Has("io", p)
             THEN {"complete"} ELSE {})
  /\ UNCHANGED <<graph, seed, run>>

(* A mutant of VerifyGovernance: the fan-out is forgotten. *)
ForgetsLineage ==
  /\ verify \in {"complete", "incomplete"}
  /\ verify' =
       IF Has("governance", Source) \/ Has("tags", Source) THEN "ok"
       ELSE IF left.looks > 0 THEN "idle" ELSE "failed"
  /\ UNCHANGED <<graph, seed, left, run>>

VerifyGovernance ==
  /\ verify \in {"complete", "incomplete"}
  /\ \E answered \in BOOLEAN :
       verify' =
         IF verify = "complete" /\ answered /\ (Has("governance", Source) \/ Has("tags", Source))
         THEN "ok"
         ELSE IF left.looks > 0 THEN "idle" ELSE "failed"
  /\ UNCHANGED <<graph, seed, left, run>>

-----------------------------------------------------------------------------
(* build_run_context                                                       *)

(* A mutant of MaxHops: the server's default. *)
OneHop == 1

MaxHops == 3

(* A mutant of GetLineage: without lineage the topology is assumed. *)
FallsBack(r) ==
  /\ phase[r] = "pending"
  /\ phase' = [phase EXCEPT ![r] = "named"]
  /\ named' = [named EXCEPT ![r] = IF Within(MaxHops) = {} THEN Projections ELSE Within(MaxHops)]
  /\ settled' = [settled EXCEPT ![r] = Seeded \subseteq catalogue]
  /\ UNCHANGED <<graph, seed, verify, left, context, plan, exposed, ops, trace, carried>>

(* A call that fails, or a fan-out that is empty, fails the run. *)
GetLineage(r) ==
  /\ phase[r] = "pending"
  /\ \/ phase' = [phase EXCEPT ![r] = "context_failed"] /\ UNCHANGED <<named, settled>>
     \/ /\ Within(MaxHops) # {}
        /\ phase' = [phase EXCEPT ![r] = "named"]
        /\ named' = [named EXCEPT ![r] = Within(MaxHops)]
        /\ settled' = [settled EXCEPT ![r] = Seeded \subseteq catalogue]
  /\ UNCHANGED <<graph, seed, verify, left, context, plan, exposed, ops, trace, carried>>

(* The assets, those that carry a rule's name, those nobody owns, and      *)
(* whether the source is the authority, as far as the answer goes: nothing *)
(* compares it with what was asked.                                        *)
GetEntities(r) ==
  /\ phase[r] = "named"
  /\ \/ phase' = [phase EXCEPT ![r] = "context_failed"] /\ UNCHANGED context
     \/ \E answered \in SUBSET named[r], root \in BOOLEAN :
          /\ phase' = [phase EXCEPT ![r] = "resolved"]
          /\ context' = [context EXCEPT ![r] =
               [assets    |-> answered,
                ruled     |-> {p \in answered : Has("properties", p)},
                unowned   |-> {p \in answered : ~Has("owner", p)},
                authority |-> root /\ Has("governance", Source)]]
  /\ UNCHANGED <<graph, seed, verify, left, named, plan, exposed, ops, trace, settled, carried>>

(* The run finds contradictions on some of the assets whose rule it could  *)
(* name, is approved and validated, and has or has not a pull request; on  *)
(* the command line an owner may be given as well.                         *)
Resolve(r) ==
  /\ phase[r] = "resolved" /\ left.writes
  /\ IF context[r].authority
     THEN /\ phase' = [phase EXCEPT ![r] = "approved"]
          /\ \E targets \in SUBSET context[r].ruled, optional \in SUBSET (Keys \ {"last_run"}),
                assign \in BOOLEAN :
               plan' = [plan EXCEPT ![r] =
                 [targets |-> targets, values |-> {"last_run"} \cup optional,
                  assign |-> assign]]
     ELSE phase' = [phase EXCEPT ![r] = "context_failed"] /\ UNCHANGED plan
  /\ UNCHANGED <<graph, seed, verify, left, named, context, exposed, ops, trace, settled, carried>>

-----------------------------------------------------------------------------
(* write_back                                                              *)

(* A mutant of Targets: everything downstream is marked. *)
WholeRadius(r) == context[r].assets

Targets(r) == plan[r].targets

(* datahub_session and the preflight: no session leaves the run where it   *)
(* is; without a mutation tool, or a target, nothing is attempted.         *)
OpenSession(r) ==
  /\ phase[r] = "approved"
  /\ \/ phase' = [phase EXCEPT ![r] = "stuck"] /\ UNCHANGED exposed
     \/ \E tools \in ToolSets :
          /\ exposed' = [exposed EXCEPT ![r] = tools]
          /\ phase' = [phase EXCEPT ![r] =
                         IF tools = {} \/ Targets(r) = {} THEN "failed" ELSE "properties"]
  /\ UNCHANGED <<graph, seed, verify, left, named, context, plan, ops, trace, settled, carried>>

(* A mutant of Call: the exception is raised before it is recorded. *)
CallUnrecorded(r, tool, ok) ==
  /\ tool \in exposed[r]
  /\ ops' = [ops EXCEPT ![r][tool] = IF ok THEN "ok" ELSE "failed"]
  /\ trace' = IF ok THEN [trace EXCEPT ![r][tool] = "ok"] ELSE trace

(* A call that reaches the server is recorded with its outcome. *)
Call(r, tool, ok) ==
  /\ tool \in exposed[r]
  /\ ops' = [ops EXCEPT ![r][tool] = IF ok THEN "ok" ELSE "failed"]
  /\ trace' = [trace EXCEPT ![r][tool] = IF ok THEN "ok" ELSE "error"]

(* A tool the server does not expose is not called. *)
Refuse(r, tool) ==
  /\ tool \notin exposed[r]
  /\ ops' = [ops EXCEPT ![r][tool] = "failed"]
  /\ UNCHANGED trace

Goto(r, next) == phase' = [phase EXCEPT ![r] = next]

AddProperties(r) ==
  /\ phase[r] = "properties" /\ Goto(r, "tag")
  /\ \/ Refuse(r, "properties") /\ UNCHANGED props
     \/ \E applied \in SUBSET Targets(r), ok \in BOOLEAN :
          /\ Call(r, "properties", ok)
          /\ props' = [p \in Projections |-> [k \in Keys |->
               IF p \in applied /\ k \in plan[r].values THEN r ELSE props[p][k]]]
  /\ UNCHANGED <<catalogue, tagged, documents, seed, verify, left, named, context, plan, exposed,
                 settled, carried>>

AddTag(r) ==
  /\ phase[r] = "tag" /\ Goto(r, "owner")
  /\ \/ Refuse(r, "tag") /\ UNCHANGED tagged
     \/ \E applied \in SUBSET Targets(r), ok \in BOOLEAN :
          Call(r, "tag", ok) /\ tagged' = tagged \cup applied
  /\ UNCHANGED <<catalogue, props, documents, seed, verify, left, named, context, plan, exposed,
                 settled, carried>>

(* Only on request, and only where the context saw no owner. *)
AddOwner(r) ==
  /\ phase[r] = "owner" /\ Goto(r, "document")
  /\ \/ /\ ~plan[r].assign \/ context[r].unowned = {}
        /\ UNCHANGED <<catalogue, ops, trace>>
     \/ /\ plan[r].assign /\ context[r].unowned # {}
        /\ \/ Refuse(r, "owner") /\ UNCHANGED catalogue
           \/ \E applied \in SUBSET context[r].unowned, ok \in BOOLEAN :
                /\ Call(r, "owner", ok)
                /\ catalogue' = catalogue \cup [aspect : {"owner"}, of : applied]
  /\ UNCHANGED <<props, tagged, documents, seed, verify, left, named, context, plan, exposed,
                 settled, carried>>

SaveDocument(r) ==
  /\ phase[r] = "document" /\ Goto(r, "readback")
  /\ \/ Refuse(r, "document") /\ UNCHANGED documents
     \/ \E applied \in SUBSET {r}, ok \in BOOLEAN :
          Call(r, "document", ok) /\ documents' = documents \cup applied
  /\ UNCHANGED <<catalogue, props, tagged, seed, verify, left, named, context, plan, exposed,
                 settled, carried>>

(* A mutant of Confirmed: one target is enough. *)
ConfirmedSomewhere(r, answered) ==
  [o \in Mutations |->
     IF ops[r][o] # "ok" THEN ops[r][o]
     ELSE IF /\ o = "properties" => \E p \in Targets(r) \cap answered : props[p]["last_run"] # NoRun
             /\ o = "tag" => \E p \in Targets(r) \cap answered : p \in tagged
          THEN "verified" ELSE "ok"]

(* The operations after a read-back that answered for these assets: a      *)
(* property or tag must be there on every target, whoever's value it has;  *)
(* an owner or a document only has to have succeeded.                      *)
Confirmed(r, answered) ==
  [o \in Mutations |->
     IF ops[r][o] # "ok" THEN ops[r][o]
     ELSE IF /\ o = "properties" =>
                  \A p \in Targets(r) : p \in answered /\ props[p]["last_run"] # NoRun
             /\ o = "tag" => \A p \in Targets(r) : p \in answered /\ p \in tagged
          THEN "verified" ELSE "ok"]

Attempted(r) == {o \in Mutations : ops[r][o] # "none"}

(* A mutant of Status: the last case is missing. *)
StaysRunning(outcome, attempted) ==
  IF \A o \in attempted : outcome[o] = "verified" THEN "verified"
  ELSE IF \E o \in attempted : outcome[o] \in {"ok", "verified"} THEN "partial"
  ELSE "running"

Status(outcome, attempted) ==
  IF \A o \in attempted : outcome[o] = "verified" THEN "verified"
  ELSE IF \E o \in attempted : outcome[o] \in {"ok", "verified"} THEN "partial"
  ELSE "failed"

(* The read-back, and the row with its status and the trace. *)
ReadBack(r) ==
  /\ phase[r] = "readback"
  /\ \/ /\ Goto(r, Status(ops[r], Attempted(r)))
        /\ UNCHANGED ops
     \/ \E answered \in SUBSET Targets(r) :
          /\ ops' = [ops EXCEPT ![r] = Confirmed(r, answered)]
          /\ Goto(r, Status(Confirmed(r, answered), Attempted(r)))
  /\ carried' = [carried EXCEPT ![r] =
       {p \in Targets(r) : p \in tagged /\ props[p]["last_run"] # NoRun}]
  /\ UNCHANGED <<graph, seed, verify, left, named, context, plan, exposed, trace, settled>>

Writing == {"properties", "tag", "owner", "document", "readback"}

(* The process ends or the session breaks: the run stays where it is       *)
(* and is not driven again.  Outcomes and trace were in its memory, so a   *)
(* call that was applied and not yet recorded leaves what a recorded one   *)
(* does.                                                                   *)
Crash(r) ==
  /\ phase[r] \in Writing /\ Goto(r, "stuck")
  /\ ops' = [ops EXCEPT ![r] = Untried] /\ trace' = [trace EXCEPT ![r] = Untried]
  /\ UNCHANGED <<graph, seed, verify, left, named, context, plan, exposed, settled, carried>>

(* Another run marks an asset, with or without a pull request. *)
OtherMarks ==
  /\ Spend("marks")
  /\ \E o \in Others, p \in Projections, optional \in SUBSET (Keys \ {"last_run"}) :
       /\ props' = [props EXCEPT ![p] =
            [k \in Keys |-> IF k \in {"last_run"} \cup optional THEN o ELSE @[k]]]
       /\ tagged' \in {tagged, tagged \cup {p}}
  /\ UNCHANGED <<catalogue, documents, seed, verify, run>>

WriteBack(r) ==
  \/ OpenSession(r) \/ AddProperties(r) \/ AddTag(r) \/ AddOwner(r)
  \/ SaveDocument(r) \/ ReadBack(r) \/ Crash(r)

Next ==
  \/ StartSeed \/ EmitBatch \/ EmitReset \/ Consume
  \/ VerifyLineage \/ VerifyGovernance
  \/ OtherMarks
  \/ \E r \in Runs : GetLineage(r) \/ GetEntities(r) \/ Resolve(r) \/ WriteBack(r)

Spec == Init /\ [][Next]_vars

-----------------------------------------------------------------------------
(* Properties.                                                             *)

Phases ==
  {"pending", "context_failed", "named", "resolved", "approved", "stuck",
   "verified", "partial", "failed"} \cup Writing

TypeOK ==
  /\ catalogue \subseteq Proposal
  /\ props \in [Projections -> [Keys -> Runs \cup Others \cup {NoRun}]]
  /\ tagged \subseteq Projections /\ documents \subseteq Runs
  /\ \A x \in queue : [aspect |-> x.aspect, of |-> x.of] \in Proposal /\ x.batch \in {1, 2}
  /\ batch \in 0 .. 2 /\ whole \in BOOLEAN
  /\ verify \in {"idle", "complete", "incomplete", "ok", "failed"}
  /\ left \in Scenario
  /\ phase \in [Runs -> Phases]
  /\ named \in [Runs -> SUBSET Projections]
  /\ context \in [Runs -> [assets : SUBSET Projections, ruled : SUBSET Projections,
                           unowned : SUBSET Projections, authority : BOOLEAN]]
  /\ plan \in [Runs -> [targets : SUBSET Projections, values : SUBSET Keys,
                        assign : BOOLEAN]]
  /\ exposed \in [Runs -> SUBSET Mutations]
  /\ ops \in [Runs -> [Mutations -> {"none", "failed", "ok", "verified"}]]
  /\ trace \in [Runs -> [Mutations -> {"none", "ok", "error"}]]
  /\ settled \in [Runs -> BOOLEAN]
  /\ carried \in [Runs -> SUBSET Projections]

(* commerce_lab.py, build: "Order matters".  A seed whose two batches were *)
(* sent and consumed leaves the whole graph, however its assets' aspects   *)
(* were interleaved: no value met an undefined property.                   *)
SeedConverges == whole /\ queue = {} => Seeded \subseteq catalogue

(* seed.verify: COMMERCE_LAB_OK means that a blast radius is possible,     *)
(* even when the seed was still being consumed while it looked.            *)
VerifiedGraphIsTraversable == verify = "ok" => Within(MaxHops) = Projections

(* context_builder.py: no topology is assumed.  A run past its context was *)
(* given a lineage, its blast radius is some of that and in DataHub's own, *)
(* and is annotated only under an authority that DataHub names.  An answer *)
(* may omit assets; a run that found the graph complete and was answered   *)
(* for every asset has every projection with its rule.                     *)
BlastRadiusIsLineage ==
  \A r \in Runs :
    /\ phase[r] \notin {"pending", "context_failed", "named"} =>
         /\ named[r] # {} /\ named[r] \subseteq Within(3)
         /\ context[r].assets \subseteq named[r]
         /\ settled[r] /\ context[r].assets = named[r] => context[r].ruled = Projections
    /\ phase[r] \notin {"pending", "context_failed", "named", "resolved"} =>
         Has("governance", Source)

(* writeback.py: a structured property takes a run's value only after its  *)
(* approval, only on the assets that its own findings named, and only for  *)
(* what the run had to say.  (The tag names no run, and an owner goes to   *)
(* every unowned asset of the radius.)                                     *)
OnlyAffectedAnnotated ==
  \A p \in Projections, k \in Keys, r \in Runs :
    props[p][k] = r =>
      /\ phase[r] \notin {"pending", "context_failed", "named", "resolved", "approved"}
      /\ p \in plan[r].targets /\ plan[r].targets \subseteq context[r].ruled /\ k \in plan[r].values

(* writeback.py: "Every operation is verified by reading the value back."  *)
(* A verified write-back found property and tag on each of its targets,    *)
(* whatever a reset, a seed or another run did meanwhile, and none of its  *)
(* calls failed.                                                           *)
VerifiedWasCarried ==
  \A r \in Runs :
    phase[r] = "verified" =>
      /\ Targets(r) # {} /\ carried[r] = Targets(r)
      /\ \A o \in Mutations : trace[r][o] # "error"
      /\ \A o \in {"properties", "tag", "document"} : trace[r][o] = "ok"

(* mcp_client.py: "recorded for the run's evidence trail".  Once the row   *)
(* of a write-back is stored, whatever the run left in DataHub is          *)
(* explained by a call in its trace, also when the row says failed or      *)
(* partial.  (A process that dies before leaves its values and no trace.)  *)
TraceExplains ==
  \A r \in Runs : phase[r] \in {"verified", "partial", "failed"} =>
    /\ (\E p \in Projections, k \in Keys : props[p][k] = r) => trace[r]["properties"] # "none"
    /\ r \in documents => trace[r]["document"] # "none"
=============================================================================
