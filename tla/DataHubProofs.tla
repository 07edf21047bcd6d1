---------------------------- MODULE DataHubProofs ----------------------------
(***************************************************************************)
(* Proofs about DataHub, for any projections and owners, any runs and      *)
(* servers, and any graph, seeds, resets and marks a scenario may have.    *)
(***************************************************************************)
EXTENDS DataHub, TLAPS

Aspects == {"definitions", "tags", "governance", "io", "properties", "upstream", "owner"}

(* A proposal on its way. *)
Wire == [aspect : Aspects, of : Projections \cup {Source}, batch : {1, 2}]

GraphTypeOK ==
  /\ catalogue \subseteq Proposal
  /\ props \in [Projections -> [Keys -> Runs \cup Others \cup {NoRun}]]
  /\ tagged \subseteq Projections /\ documents \subseteq Runs

SeedTypeOK ==
  /\ queue \subseteq Wire
  /\ batch \in {0, 1, 2} /\ whole \in BOOLEAN
  /\ verify \in {"idle", "complete", "incomplete", "ok", "failed"}
  /\ left \in Scenario

RunTypeOK ==
  /\ phase \in [Runs -> Phases]
  /\ named \in [Runs -> SUBSET Projections]
  /\ context \in [Runs -> [assets : SUBSET Projections, ruled : SUBSET Projections,
                           unowned : SUBSET Projections, authority : BOOLEAN]]
  /\ plan \in [Runs -> [targets : SUBSET Projections, values : SUBSET Keys,
                        assign : BOOLEAN]]
  /\ exposed \in [Runs -> SUBSET Mutations]
  /\ settled \in [Runs -> BOOLEAN]
  /\ carried \in [Runs -> SUBSET Projections]

OutcomeTypeOK ==
  /\ ops \in [Runs -> [Mutations -> {"none", "failed", "ok", "verified"}]]
  /\ trace \in [Runs -> [Mutations -> {"none", "ok", "error"}]]

TypeInv == GraphTypeOK /\ SeedTypeOK /\ RunTypeOK /\ OutcomeTypeOK

(* The parts are the type invariant.                                       *)
LEMMA TypeInvType == TypeInv => TypeOK
<1> SUFFICES ASSUME TypeInv PROVE TypeOK
  OBVIOUS
<1>1. \A x \in queue : [aspect |-> x.aspect, of |-> x.of] \in Proposal /\ x.batch \in {1, 2}
  BY DEF TypeInv, SeedTypeOK, Wire, Aspects, Proposal
<1>2. batch \in 0 .. 2
  BY DEF TypeInv, SeedTypeOK
<1> QED BY <1>1, <1>2 DEF TypeInv, GraphTypeOK, SeedTypeOK, RunTypeOK, OutcomeTypeOK, TypeOK

(* Nothing has been read or written at first.                              *)
LEMMA TypeInit == Init => TypeInv
<1> SUFFICES ASSUME Init PROVE TypeInv
  OBVIOUS
<1>1. left \in Scenario
  BY DataHubAssumption DEF Init
<1>2. GraphTypeOK
  BY <1>1 DEF Init, GraphTypeOK, Scenario
<1>3. SeedTypeOK
  BY <1>1 DEF Init, SeedTypeOK
<1>4. RunTypeOK
  BY DEF Init, RunTypeOK, Phases, Writing, Nothing, NoPlan
<1>5. OutcomeTypeOK
  BY DEF Init, OutcomeTypeOK, Untried, Mutations
<1> QED BY <1>2, <1>3, <1>4, <1>5 DEF TypeInv

(* A bound that is spent stays a bound.                                    *)
LEMMA SpendType ==
  ASSUME left \in Scenario, NEW what \in {"seeds", "resets", "looks", "marks"}, Spend(what)
  PROVE  left' \in Scenario
<1>1. left[what] \in Nat /\ left[what] > 0
  BY DEF Scenario, Spend
<1>2. left[what] - 1 \in Nat
  BY <1>1
<1> QED BY <1>2 DEF Spend, Scenario

(* What the seed sends.                                                    *)
LEMMA SentType ==
  /\ Definitions \subseteq Proposal /\ AssetsAndLineage \subseteq Proposal
  /\ \A set \in SUBSET Proposal, n \in {1, 2} : Sent(set, n) \subseteq Wire
<1>1. Definitions \subseteq Proposal /\ AssetsAndLineage \subseteq Proposal
  BY DataHubAssumption DEF Definitions, AssetsAndLineage, Proposal
<1>2. ASSUME NEW set \in SUBSET Proposal, NEW n \in {1, 2} PROVE Sent(set, n) \subseteq Wire
  BY DEF Sent, Proposal, Wire, Aspects
<1> QED BY <1>1, <1>2

(* The seed, seed.verify and the other runs' marks keep the types.         *)
LEMMA SeedType ==
  ASSUME TypeInv,
         \/ StartSeed \/ EmitBatch \/ EmitReset \/ Consume
         \/ VerifyLineage \/ VerifyGovernance \/ OtherMarks
  PROVE  TypeInv'
<1>0. GraphTypeOK /\ SeedTypeOK /\ RunTypeOK /\ OutcomeTypeOK
  BY DEF TypeInv
<1>1. UNCHANGED run
  BY DEF StartSeed, EmitBatch, EmitReset, Consume, VerifyLineage, VerifyGovernance, OtherMarks
<1>2. RunTypeOK' /\ OutcomeTypeOK'
  BY <1>0, <1>1 DEF run, RunTypeOK, OutcomeTypeOK
<1>3. GraphTypeOK'
  <2>1. CASE Consume
    <3>1. PICK x \in queue :
            \/ UNCHANGED graph
            \/ /\ catalogue' = catalogue \cup {[aspect |-> x.aspect, of |-> x.of]}
               /\ props' = [p \in Projections |->
                              IF x.aspect = "governance" /\ x.of = p
                              THEN [k \in Keys |-> NoRun] ELSE props[p]]
               /\ tagged' = IF x.aspect = "tags" THEN tagged \ {x.of} ELSE tagged
               /\ UNCHANGED documents
      BY <2>1 DEF Consume
    <3>2. [aspect |-> x.aspect, of |-> x.of] \in Proposal
      BY <1>0 DEF SeedTypeOK, Wire, Aspects, Proposal
    <3>3. CASE UNCHANGED graph
      BY <1>0, <3>3 DEF graph, GraphTypeOK
    <3> QED BY <1>0, <3>1, <3>2, <3>3 DEF GraphTypeOK
  <2>2. CASE OtherMarks
    <3>1. PICK o \in Others, p \in Projections, optional \in SUBSET (Keys \ {"last_run"}) :
            props' = [props EXCEPT ![p] =
              [k \in Keys |-> IF k \in {"last_run"} \cup optional THEN o ELSE @[k]]]
      BY <2>2 DEF OtherMarks
    <3>2. props' \in [Projections -> [Keys -> Runs \cup Others \cup {NoRun}]]
      BY <1>0, <3>1 DEF GraphTypeOK
    <3> QED BY <1>0, <2>2, <3>2 DEF OtherMarks, GraphTypeOK
  <2>3. CASE ~Consume /\ ~OtherMarks
    <3>1. UNCHANGED graph
      BY <2>3 DEF StartSeed, EmitBatch, EmitReset, VerifyLineage, VerifyGovernance
    <3> QED BY <1>0, <3>1 DEF graph, GraphTypeOK
  <2> QED BY <2>1, <2>2, <2>3
<1>4. left' \in Scenario
  BY <1>0, SpendType DEF SeedTypeOK, StartSeed, EmitBatch, EmitReset, Consume, VerifyLineage,
                         VerifyGovernance, OtherMarks
<1>5. queue' \subseteq Wire
  <2>1. CASE EmitBatch
    <3>1. batch \in {1, 2} /\ Batches[batch] \subseteq Proposal
      BY <1>0, <2>1, SentType DEF EmitBatch, Batches, SeedTypeOK
    <3>2. PICK part \in SUBSET Proposal :
            part \subseteq Batches[batch] /\ queue' = queue \cup Sent(part, batch)
      BY <2>1, <3>1 DEF EmitBatch
    <3>3. Sent(part, batch) \subseteq Wire
      BY <3>1, <3>2, SentType
    <3> QED BY <1>0, <3>2, <3>3 DEF SeedTypeOK
  <2>2. CASE EmitReset
    <3>1. [aspect : {"governance"}, of : Projections] \subseteq Proposal
      BY DEF Proposal
    <3> QED BY <2>2, <3>1, SentType DEF EmitReset
  <2>3. CASE ~EmitBatch /\ ~EmitReset
    BY <1>0, <2>3 DEF StartSeed, Consume, VerifyLineage, VerifyGovernance, OtherMarks, seed,
                      SeedTypeOK
  <2> QED BY <2>1, <2>2, <2>3
<1>6. batch' \in {0, 1, 2} /\ whole' \in BOOLEAN
  BY <1>0 DEF StartSeed, EmitBatch, EmitReset, Consume, VerifyLineage, VerifyGovernance,
              OtherMarks, seed, SeedTypeOK
<1>7. verify' \in {"idle", "complete", "incomplete", "ok", "failed"}
  BY <1>0 DEF StartSeed, EmitBatch, EmitReset, Consume, VerifyLineage, VerifyGovernance,
              OtherMarks, SeedTypeOK
<1> QED BY <1>2, <1>3, <1>4, <1>5, <1>6, <1>7 DEF TypeInv, SeedTypeOK

(* A call or a refusal, and the tool's outcome.                            *)
LEMMA CallType ==
  ASSUME OutcomeTypeOK, NEW r \in Runs, NEW tool \in Mutations,
         Refuse(r, tool) \/ \E ok \in BOOLEAN : Call(r, tool, ok)
  PROVE  OutcomeTypeOK'
<1>1. PICK o \in {"failed", "ok"} : ops' = [ops EXCEPT ![r][tool] = o]
  BY DEF Refuse, Call
<1>2. trace' = trace \/ \E t \in {"ok", "error"} : trace' = [trace EXCEPT ![r][tool] = t]
  BY DEF Refuse, Call
<1>3. ops' \in [Runs -> [Mutations -> {"none", "failed", "ok", "verified"}]]
  <2> DEFINE outcome == [ops[r] EXCEPT ![tool] = o]
  <2>1. ops[r] \in [Mutations -> {"none", "failed", "ok", "verified"}]
    BY DEF OutcomeTypeOK
  <2>2. outcome \in [Mutations -> {"none", "failed", "ok", "verified"}]
    BY <2>1
  <2>3. ops' = [ops EXCEPT ![r] = outcome]
    BY <1>1
  <2> HIDE DEF outcome
  <2> QED BY <2>2, <2>3 DEF OutcomeTypeOK
<1>4. trace' \in [Runs -> [Mutations -> {"none", "ok", "error"}]]
  <2>1. trace[r] \in [Mutations -> {"none", "ok", "error"}]
    BY DEF OutcomeTypeOK
  <2>2. CASE trace' = trace
    BY <2>2 DEF OutcomeTypeOK
  <2>3. ASSUME NEW t \in {"ok", "error"}, trace' = [trace EXCEPT ![r][tool] = t]
        PROVE  trace' \in [Runs -> [Mutations -> {"none", "ok", "error"}]]
    <3> DEFINE outcome == [trace[r] EXCEPT ![tool] = t]
    <3>1. outcome \in [Mutations -> {"none", "ok", "error"}]
      BY <2>1
    <3>2. trace' = [trace EXCEPT ![r] = outcome]
      BY <2>3
    <3> HIDE DEF outcome
    <3> QED BY <3>1, <3>2 DEF OutcomeTypeOK
  <2> QED BY <1>2, <2>2, <2>3
<1> QED BY <1>3, <1>4 DEF OutcomeTypeOK

(* The context a run reads.                                                *)
LEMMA ReadType ==
  ASSUME TypeInv, NEW r \in Runs, GetLineage(r) \/ GetEntities(r) \/ Resolve(r)
  PROVE  TypeInv'
<1>0. GraphTypeOK /\ SeedTypeOK /\ RunTypeOK /\ OutcomeTypeOK
  BY DEF TypeInv
<1>1. /\ UNCHANGED <<catalogue, props, tagged, documents, queue, batch, whole, verify, left>>
      /\ UNCHANGED <<exposed, ops, trace, carried>>
  BY DEF GetLineage, GetEntities, Resolve, graph, seed
<1>2. phase' \in [Runs -> Phases]
  BY <1>0 DEF GetLineage, GetEntities, Resolve, RunTypeOK, Phases
<1>3. named' \in [Runs -> SUBSET Projections] /\ settled' \in [Runs -> BOOLEAN]
  BY <1>0 DEF GetLineage, GetEntities, Resolve, RunTypeOK, Within
<1>4. context' \in [Runs -> [assets : SUBSET Projections, ruled : SUBSET Projections,
                             unowned : SUBSET Projections, authority : BOOLEAN]]
  <2>1. CASE UNCHANGED context
    BY <1>0, <2>1 DEF RunTypeOK
  <2>2. CASE ~UNCHANGED context
    <3>1. PICK answered \in SUBSET named[r], root \in BOOLEAN :
            context' = [context EXCEPT ![r] =
              [assets    |-> answered,
               ruled     |-> {p \in answered : Has("properties", p)},
               unowned   |-> {p \in answered : ~Has("owner", p)},
               authority |-> root /\ Has("governance", Source)]]
      BY <2>2 DEF GetLineage, GetEntities, Resolve
    <3>2. (root /\ Has("governance", Source)) \in BOOLEAN
      BY DEF Has
    <3>3. answered \in SUBSET Projections
      BY <1>0 DEF RunTypeOK
    <3> QED BY <1>0, <3>1, <3>2, <3>3 DEF RunTypeOK
  <2> QED BY <2>1, <2>2
<1>5. plan' \in [Runs -> [targets : SUBSET Projections, values : SUBSET Keys,
                          assign : BOOLEAN]]
  <2>1. CASE UNCHANGED plan
    BY <1>0, <2>1 DEF RunTypeOK
  <2>2. CASE ~UNCHANGED plan
    <3>1. PICK targets \in SUBSET context[r].ruled, optional \in SUBSET (Keys \ {"last_run"}),
               assign \in BOOLEAN :
            plan' = [plan EXCEPT ![r] =
              [targets |-> targets, values |-> {"last_run"} \cup optional, assign |-> assign]]
      BY <2>2 DEF GetLineage, GetEntities, Resolve
    <3>2. targets \in SUBSET Projections /\ {"last_run"} \cup optional \in SUBSET Keys
      BY <1>0 DEF RunTypeOK, Keys
    <3> QED BY <1>0, <3>1, <3>2 DEF RunTypeOK
  <2> QED BY <2>1, <2>2
<1>6. RunTypeOK'
  BY <1>0, <1>1, <1>2, <1>3, <1>4, <1>5 DEF RunTypeOK
<1>7. GraphTypeOK' /\ SeedTypeOK' /\ OutcomeTypeOK'
  BY <1>0, <1>1 DEF GraphTypeOK, SeedTypeOK, OutcomeTypeOK
<1> QED BY <1>6, <1>7 DEF TypeInv

(* The read-back leaves outcomes.                                          *)
LEMMA ConfirmedType ==
  ASSUME OutcomeTypeOK, NEW r \in Runs, NEW answered
  PROVE  Confirmed(r, answered) \in [Mutations -> {"none", "failed", "ok", "verified"}]
<1>1. ops[r] \in [Mutations -> {"none", "failed", "ok", "verified"}]
  BY DEF OutcomeTypeOK
<1> QED BY <1>1 DEF Confirmed

(* A write-back keeps the types.                                           *)
LEMMA WriteType == ASSUME TypeInv, NEW r \in Runs, WriteBack(r) PROVE TypeInv'
<1>0. GraphTypeOK /\ SeedTypeOK /\ RunTypeOK /\ OutcomeTypeOK
  BY DEF TypeInv
<1>1. UNCHANGED <<queue, batch, whole, verify, left, named, context, plan, settled>>
  BY DEF WriteBack, OpenSession, AddProperties, AddTag, AddOwner, SaveDocument, ReadBack, Crash,
         seed
<1>2. SeedTypeOK'
  BY <1>0, <1>1 DEF SeedTypeOK
<1>3. phase' \in [Runs -> Phases]
  BY <1>0 DEF WriteBack, OpenSession, AddProperties, AddTag, AddOwner, SaveDocument, ReadBack,
              Crash, Goto, Status, Phases, Writing, RunTypeOK
<1>4. exposed' \in [Runs -> SUBSET Mutations]
  BY <1>0, DataHubAssumption
  DEF WriteBack, OpenSession, AddProperties, AddTag, AddOwner, SaveDocument, ReadBack, Crash,
      RunTypeOK
<1>5. carried' \in [Runs -> SUBSET Projections]
  <2>1. carried' = carried \/
        carried' = [carried EXCEPT ![r] =
          {p \in Targets(r) : p \in tagged /\ props[p]["last_run"] # NoRun}]
    BY DEF WriteBack, OpenSession, AddProperties, AddTag, AddOwner, SaveDocument, ReadBack, Crash
  <2>2. Targets(r) \in SUBSET Projections
    BY <1>0 DEF Targets, RunTypeOK
  <2> QED BY <1>0, <2>1, <2>2 DEF RunTypeOK
<1>6. RunTypeOK'
  BY <1>0, <1>1, <1>3, <1>4, <1>5 DEF RunTypeOK
<1>7. Targets(r) \in SUBSET Projections
  BY <1>0 DEF Targets, RunTypeOK
<1>8. GraphTypeOK'
  <2>1. CASE AddProperties(r)
    BY <1>0, <2>1 DEF AddProperties, GraphTypeOK
  <2>2. CASE AddTag(r)
    BY <1>0, <1>7, <2>2 DEF AddTag, GraphTypeOK
  <2>3. CASE AddOwner(r)
    <3>1. context[r].unowned \in SUBSET Projections
      BY <1>0 DEF RunTypeOK
    <3>2. catalogue' \subseteq Proposal
      BY <1>0, <2>3, <3>1 DEF AddOwner, GraphTypeOK, Proposal
    <3> QED BY <1>0, <2>3, <3>2 DEF AddOwner, GraphTypeOK
  <2>4. CASE SaveDocument(r)
    BY <1>0, <2>4 DEF SaveDocument, GraphTypeOK
  <2>5. CASE OpenSession(r) \/ ReadBack(r) \/ Crash(r)
    BY <1>0, <2>5 DEF OpenSession, ReadBack, Crash, graph, GraphTypeOK
  <2> QED BY <2>1, <2>2, <2>3, <2>4, <2>5 DEF WriteBack
<1>9. OutcomeTypeOK'
  <2>1. CASE AddProperties(r) \/ AddTag(r) \/ SaveDocument(r)
    BY <1>0, <2>1, CallType DEF AddProperties, AddTag, SaveDocument, Mutations
  <2>2. CASE AddOwner(r)
    <3>1. CASE UNCHANGED <<ops, trace>>
      BY <1>0, <3>1 DEF OutcomeTypeOK
    <3>2. CASE Refuse(r, "owner") \/ \E ok \in BOOLEAN : Call(r, "owner", ok)
      BY <1>0, <3>2, CallType DEF Mutations
    <3> QED BY <2>2, <3>1, <3>2 DEF AddOwner
  <2>3. CASE ReadBack(r)
    <3>1. trace' = trace /\
          (ops' = ops \/ \E answered : ops' = [ops EXCEPT ![r] = Confirmed(r, answered)])
      BY <2>3 DEF ReadBack
    <3> QED BY <1>0, <3>1, ConfirmedType DEF OutcomeTypeOK
  <2>4. CASE OpenSession(r)
    BY <1>0, <2>4 DEF OpenSession, OutcomeTypeOK
  <2>5. CASE Crash(r)
    BY <1>0, <2>5 DEF Crash, OutcomeTypeOK, Untried
  <2> QED BY <2>1, <2>2, <2>3, <2>4, <2>5 DEF WriteBack
<1> QED BY <1>2, <1>6, <1>8, <1>9 DEF TypeInv

(* Every step keeps the types.                                             *)
LEMMA TypeStep == TypeInv /\ [Next]_vars => TypeInv'
<1> SUFFICES ASSUME TypeInv, [Next]_vars PROVE TypeInv'
  OBVIOUS
<1>1. CASE UNCHANGED vars
  <2>1. UNCHANGED graph /\ UNCHANGED seed /\ UNCHANGED run /\ UNCHANGED <<verify, left>>
    BY <1>1 DEF vars
  <2> QED BY <2>1 DEF graph, seed, run, TypeInv, GraphTypeOK, SeedTypeOK, RunTypeOK, OutcomeTypeOK
<1>2. CASE Next
  BY <1>2, SeedType, ReadType, WriteType DEF Next
<1> QED BY <1>1, <1>2

(* The graph, the proposals on their way and what each run has read and    *)
(* written always have their types.                                        *)
THEOREM TypeCorrect == Spec => []TypeOK
BY TypeInit, TypeStep, TypeInvType, PTL DEF Spec

-----------------------------------------------------------------------------
(* The seed.                                                               *)

Definition == [aspect |-> "definitions", of |-> Source]

FirstDefinition == [aspect |-> "definitions", of |-> Source, batch |-> 1]

(* What is there or on its way.                                            *)
Coming == catalogue \cup {x \in Proposal : \E y \in queue : y.aspect = x.aspect /\ y.of = x.of}

(* Once the second batch has begun the definition is there, or it comes    *)
(* first; a governance value of a first batch is the reset's, which goes   *)
(* alone; and after a whole seed everything is there or coming.            *)
SeedInv ==
  /\ batch = 1 => queue = {}
  /\ batch = 2 \/ (\E x \in queue : x.batch = 2) =>
       Definition \in catalogue \/ FirstDefinition \in queue
  /\ \A x \in queue : x.batch = 1 /\ x.aspect = "governance" =>
       batch = 0 /\ \A y \in queue : y.aspect = "governance"
  /\ \A x \in queue : x.aspect = "definitions" => x = FirstDefinition
  /\ whole => Seeded \subseteq Coming

(* Nothing is on its way at first.                                         *)
LEMMA SeedInit == Init => SeedInv
BY DEF Init, SeedInv

(* A whole seed with nothing on its way is there.                          *)
LEMMA SeedDone == SeedInv => SeedConverges
BY DEF SeedInv, SeedConverges, Coming

(* Nothing that was seeded disappears.                                     *)
LEMMA CatalogueGrows == [Next]_vars => catalogue \subseteq catalogue'
BY DEF Next, StartSeed, EmitBatch, EmitReset, Consume, VerifyLineage, VerifyGovernance, OtherMarks,
       GetLineage, GetEntities, Resolve, WriteBack, OpenSession, AddProperties, AddTag, AddOwner,
       SaveDocument, ReadBack, Crash, vars, graph

(* Sending a batch.                                                        *)
LEMMA EmitKept == ASSUME TypeInv, SeedInv, EmitBatch PROVE SeedInv'
<1>0. /\ queue \subseteq Wire /\ batch \in {1, 2} /\ catalogue \subseteq Proposal
      /\ catalogue' = catalogue
  BY DEF TypeInv, SeedTypeOK, GraphTypeOK, EmitBatch, graph
<1>1. ASSUME NEW part \in Parts, queue' = queue \cup Sent(part \cap Batches[batch], batch),
             batch' = 0, whole' = whole
      PROVE  SeedInv'
  <2> DEFINE new == Sent(part \cap Batches[batch], batch)
  <2>1. \A x \in new : x.batch = batch
    BY DEF Sent
  <2>2. \A x \in new : x.batch = 1 => x = FirstDefinition
    BY <1>0 DEF Sent, Batches, Definitions, FirstDefinition
  <2>3. \A x \in new : x.batch = 2 => x.aspect # "definitions"
    BY <1>0 DEF Sent, Batches, AssetsAndLineage
  <2>4. queue' = queue \cup new
    BY <1>1
  <2>5. FirstDefinition.aspect # "governance"
    BY DEF FirstDefinition
  <2> HIDE DEF new
  <2>6. \A x \in queue' : x.aspect = "definitions" => x = FirstDefinition
    BY <1>0, <2>1, <2>2, <2>3, <2>4 DEF SeedInv
  <2>7. \A x \in queue' : ~(x.batch = 1 /\ x.aspect = "governance")
    BY <1>0, <2>1, <2>2, <2>4, <2>5 DEF SeedInv
  <2>8. (\E x \in queue' : x.batch = 2) => Definition \in catalogue \/ FirstDefinition \in queue'
    BY <1>0, <2>1, <2>4 DEF SeedInv
  <2>9. Coming \subseteq Coming'
    BY <1>0, <2>4 DEF Coming
  <2>10. whole' => Seeded \subseteq Coming'
    BY <1>1, <2>9 DEF SeedInv
  <2>11. batch' # 1 /\ batch' # 2
    BY <1>1
  <2>12. (\E x \in queue' : x.batch = 2) => Definition \in catalogue' \/ FirstDefinition \in queue'
    BY <1>0, <2>8
  <2> QED BY <2>6, <2>7, <2>10, <2>11, <2>12, Zenon DEF SeedInv
<1>2. CASE batch = 1 /\ queue' = queue \cup Sent(Definitions, 1) /\ batch' = 2 /\ whole' = whole
  <2>1. queue = {} /\ queue' = {FirstDefinition}
    BY <1>2 DEF SeedInv, Sent, Definitions, FirstDefinition
  <2>2. \A x \in queue' : x.aspect = "definitions" /\ x.batch = 1 /\ x = FirstDefinition
    BY <2>1 DEF FirstDefinition
  <2>3. whole' => Seeded \subseteq Coming'
    BY <1>0, <1>2, <2>1 DEF SeedInv, Coming
  <2> QED BY <1>2, <2>1, <2>2, <2>3 DEF SeedInv
<1>3. CASE batch = 2 /\ queue' = queue \cup Sent(AssetsAndLineage, 2) /\ batch' = 0
  <2>1. \A x \in Sent(AssetsAndLineage, 2) : x.batch = 2 /\ x.aspect # "definitions"
    BY DEF Sent, AssetsAndLineage
  <2>2. Definition \in catalogue \/ FirstDefinition \in queue
    BY <1>3 DEF SeedInv
  <2>3. \A x \in queue : ~(x.batch = 1 /\ x.aspect = "governance")
    BY <1>3 DEF SeedInv
  <2>4. Definition \in Coming'
    BY <1>0, <1>3, <2>2, SentType DEF Coming, Definition, FirstDefinition, Definitions
  <2>5. AssetsAndLineage \subseteq Coming'
    <3> SUFFICES ASSUME NEW x \in AssetsAndLineage PROVE x \in Coming'
      OBVIOUS
    <3>1. x \in Proposal
      BY SentType
    <3>2. [aspect |-> x.aspect, of |-> x.of, batch |-> 2] \in queue'
      BY <1>3 DEF Sent
    <3> QED BY <3>1, <3>2 DEF Coming
  <2>6. Seeded \subseteq Coming'
    BY <2>4, <2>5 DEF Seeded, Definitions, Definition
  <2>7. \A x \in queue' : x.batch = 1 /\ x.aspect = "governance" => FALSE
    BY <1>3, <2>1, <2>3
  <2>8. \A x \in queue' : x.aspect = "definitions" => x = FirstDefinition
    BY <1>3, <2>1 DEF SeedInv
  <2> QED BY <1>0, <1>3, <2>2, <2>6, <2>7, <2>8 DEF SeedInv
<1>4. Batches[1] = Definitions /\ Batches[2] = AssetsAndLineage
  BY DEF Batches
<1>5. whole \in BOOLEAN
  BY DEF TypeInv, SeedTypeOK
<1>6. CASE /\ queue' = queue \cup Sent(Batches[batch], batch)
           /\ batch' = (IF batch = 2 THEN 0 ELSE 2) /\ whole' = (whole \/ batch = 2)
  <2>1. CASE batch = 1
    BY <1>2, <1>4, <1>5, <1>6, <2>1
  <2>2. CASE batch = 2
    BY <1>3, <1>4, <1>6, <2>2
  <2> QED BY <1>0, <2>1, <2>2
<1> QED BY <1>1, <1>6 DEF EmitBatch

(* Consuming: a value is never rejected once a seed was whole.             *)
LEMMA ConsumeKept == ASSUME TypeInv, SeedInv, Consume PROVE SeedInv'
<1>0. queue \subseteq Wire /\ batch' = batch /\ whole' = whole
  BY DEF TypeInv, SeedTypeOK, Consume
<1>1. PICK x \in queue :
        /\ \A y \in queue : ~Precedes(y, x)
        /\ queue' = queue \ {x}
        /\ \/ x.aspect = "governance" /\ ~(Definitions \subseteq catalogue) /\ catalogue' = catalogue
           \/ /\ ~(x.aspect = "governance" /\ ~(Definitions \subseteq catalogue))
              /\ catalogue' = catalogue \cup {[aspect |-> x.aspect, of |-> x.of]}
  BY DEF Consume, graph
<1>2. x \in Wire /\ x.batch \in {1, 2}
  BY <1>0 DEF Wire
<1>3. x.batch = 2 => Definition \in catalogue
  <2> SUFFICES ASSUME x.batch = 2, FirstDefinition \in queue PROVE FALSE
    BY DEF SeedInv
  <2>1. Precedes(FirstDefinition, x)
    BY DEF Precedes, FirstDefinition
  <2> QED BY <1>1, <2>1
<1>4. batch = 2 \/ (\E y \in queue' : y.batch = 2) =>
        Definition \in catalogue' \/ FirstDefinition \in queue'
  <2>1. catalogue \subseteq catalogue'
    BY <1>1
  <2>2. x = FirstDefinition => Definition \in catalogue'
    BY <1>1 DEF FirstDefinition, Definition
  <2> QED BY <1>1, <2>1, <2>2 DEF SeedInv
<1>5. ASSUME whole PROVE Seeded \subseteq Coming'
  <2>1. Seeded \subseteq Coming
    BY <1>5 DEF SeedInv
  <2>2. Definition \in Seeded /\ Definition \in Proposal
    BY SentType DEF Seeded, Definitions, Definition
  <2>3. x.aspect = "governance" => Definition \in catalogue
    <3> SUFFICES ASSUME x.aspect = "governance", x.batch = 1 PROVE Definition \in catalogue
      BY <1>2, <1>3
    <3>1. \A y \in queue : y.aspect = "governance"
      BY DEF SeedInv
    <3> QED BY <2>1, <2>2, <3>1 DEF Coming, Definition
  <2>4. catalogue' = catalogue \cup {[aspect |-> x.aspect, of |-> x.of]}
    BY <1>1, <2>3 DEF Definitions, Definition
  <2>5. ASSUME NEW z \in Seeded PROVE z \in Coming'
    <3>1. CASE z \in catalogue
      BY <2>4, <3>1 DEF Coming
    <3>2. CASE z \notin catalogue
      <4>1. z \in Proposal
        BY <2>1, <3>2 DEF Coming
      <4>2. PICK y \in queue : y.aspect = z.aspect /\ y.of = z.of
        BY <2>1, <3>2 DEF Coming
      <4>3. CASE y = x
        <5>1. z = [aspect |-> x.aspect, of |-> x.of]
          BY <4>1, <4>2, <4>3 DEF Proposal
        <5> QED BY <2>4, <5>1 DEF Coming
      <4>4. CASE y # x
        BY <1>1, <4>1, <4>2, <4>4 DEF Coming
      <4> QED BY <4>3, <4>4
    <3> QED BY <3>1, <3>2
  <2> QED BY <2>5
<1> QED BY <1>0, <1>1, <1>4, <1>5 DEF SeedInv

(* Every step keeps it.                                                    *)
LEMMA SeedStep == TypeInv /\ SeedInv /\ [Next]_vars => SeedInv'
<1> SUFFICES ASSUME TypeInv, SeedInv, [Next]_vars PROVE SeedInv'
  OBVIOUS
<1>1. CASE StartSeed
  BY <1>1 DEF StartSeed, SeedInv, Coming, graph
<1>2. CASE EmitReset
  <2>1. /\ batch = 0 /\ queue = {} /\ batch' = 0 /\ catalogue' = catalogue /\ whole' = whole
        /\ queue' = Sent([aspect : {"governance"}, of : Projections], 1)
    BY <1>2 DEF EmitReset, graph
  <2>2. \A x \in queue' : x.aspect = "governance" /\ x.batch = 1
    BY <2>1 DEF Sent
  <2>3. whole' => Seeded \subseteq Coming'
    BY <2>1 DEF SeedInv, Coming
  <2>4. batch' # 1 /\ batch' # 2
    BY <2>1
  <2>5. ~(\E x \in queue' : x.batch = 2)
    BY <2>2
  <2>6. \A x \in queue' : x.aspect = "definitions" => x = FirstDefinition
    BY <2>2
  <2>7. batch' = 0 /\ \A y \in queue' : y.aspect = "governance"
    BY <2>1, <2>2
  <2> QED BY <2>3, <2>4, <2>5, <2>6, <2>7, Zenon DEF SeedInv
<1>3. ASSUME UNCHANGED seed, catalogue \subseteq catalogue' PROVE SeedInv'
  BY <1>3 DEF seed, SeedInv, Coming
<1>4. CASE VerifyLineage \/ VerifyGovernance \/ OtherMarks \/ UNCHANGED vars
  BY <1>3, <1>4, CatalogueGrows DEF VerifyLineage, VerifyGovernance, OtherMarks, vars
<1>5. ASSUME NEW r \in Runs, GetLineage(r) \/ GetEntities(r) \/ Resolve(r) \/ WriteBack(r)
      PROVE  SeedInv'
  <2>1. UNCHANGED seed
    BY <1>5 DEF GetLineage, GetEntities, Resolve, WriteBack, OpenSession, AddProperties, AddTag,
                AddOwner, SaveDocument, ReadBack, Crash
  <2> QED BY <1>3, <2>1, CatalogueGrows
<1> QED BY <1>1, <1>2, <1>4, <1>5, EmitKept, ConsumeKept DEF Next

(* commerce_lab.py, build: "Order matters": a seed whose batches were sent *)
(* and consumed leaves the whole graph, whatever was there before, however *)
(* its aspects were interleaved, and after any failed seeds and resets.    *)
THEOREM SeedConvergesHolds == Spec => []SeedConverges
BY TypeInit, TypeStep, SeedInit, SeedStep, SeedDone, PTL DEF Spec

-----------------------------------------------------------------------------
(* Lineage.                                                                *)

VerifyInv == verify \in {"complete", "ok"} => Within(MaxHops) = Projections

(* With more of the graph nothing leaves the radius.                       *)
LEMMA WithinGrows ==
  ASSUME catalogue \subseteq catalogue', NEW n PROVE Within(n) \subseteq Within(n)'
BY DEF Within, Has

(* Every step keeps a complete lineage.                                    *)
LEMMA VerifyStep == VerifyInv /\ [Next]_vars => VerifyInv'
<1> SUFFICES ASSUME VerifyInv, [Next]_vars, verify' \in {"complete", "ok"}
             PROVE  Within(MaxHops)' = Projections
  BY DEF VerifyInv
<1>1. Within(2) \subseteq Within(MaxHops)
  BY DEF Within, MaxHops
<1>2. Within(MaxHops) \subseteq Within(MaxHops)' /\ Within(MaxHops)' \subseteq Projections
  BY CatalogueGrows, WithinGrows DEF Within
<1>3. CASE VerifyLineage
  <2>1. Within(2) = Projections
    BY <1>3 DEF VerifyLineage
  <2> QED BY <1>1, <1>2, <2>1
<1>4. CASE VerifyGovernance
  <2>1. verify = "complete"
    BY <1>4 DEF VerifyGovernance
  <2> QED BY <1>2, <2>1 DEF VerifyInv
<1>5. CASE verify' = verify
  BY <1>2, <1>5 DEF VerifyInv
<1> QED BY <1>3, <1>4, <1>5
    DEF Next, StartSeed, EmitBatch, EmitReset, Consume, OtherMarks, GetLineage, GetEntities,
        Resolve, WriteBack, OpenSession, AddProperties, AddTag, AddOwner, SaveDocument, ReadBack,
        Crash, vars

(* seed.verify: COMMERCE_LAB_OK means that a blast radius is possible,     *)
(* even when the seed was still being consumed while it looked.            *)
THEOREM VerifiedHolds == Spec => []VerifiedGraphIsTraversable
<1>1. Init => VerifyInv
  BY DEF Init, VerifyInv
<1>2. VerifyInv => VerifiedGraphIsTraversable
  BY DEF VerifyInv, VerifiedGraphIsTraversable
<1> QED BY <1>1, <1>2, VerifyStep, PTL DEF Spec

-----------------------------------------------------------------------------
(* What a run reads.                                                       *)

Unread == {"pending", "context_failed"}

ContextOf(r) ==
  /\ settled[r] => Seeded \subseteq catalogue
  /\ phase[r] \notin Unread =>
       /\ named[r] # {} /\ named[r] \subseteq Within(3)
       /\ settled[r] => named[r] = Projections
  /\ phase[r] \notin Unread \cup {"named"} =>
       /\ context[r].assets \subseteq named[r]
       /\ settled[r] /\ context[r].assets = named[r] => context[r].ruled = Projections
       /\ context[r].authority => Has("governance", Source)
  /\ phase[r] \notin Unread \cup {"named", "resolved"} => Has("governance", Source)

ContextInv == \A r \in Runs : ContextOf(r)

(* A run that does not move keeps what it has read, and one that goes on   *)
(* from its context too.                                                   *)
LEMMA ContextKept ==
  ASSUME NEW r \in Runs, ContextOf(r), catalogue \subseteq catalogue',
         named'[r] = named[r], context'[r] = context[r], settled'[r] = settled[r],
         \/ phase'[r] = phase[r] \/ phase'[r] = "context_failed"
         \/ phase[r] \notin Unread \cup {"named", "resolved"}
         \/ phase[r] = "resolved" /\ context[r].authority
  PROVE  ContextOf(r)'
<1>1. Within(3) \subseteq Within(3)'
  BY WithinGrows
<1>2. Has("governance", Source) => Has("governance", Source)'
  BY DEF Has
<1> QED BY <1>1, <1>2 DEF ContextOf, Unread

(* A whole graph names every projection, its rule and the authority.       *)
LEMMA WholeGraph ==
  ASSUME Seeded \subseteq catalogue
  PROVE  /\ Within(3) = Projections /\ Has("governance", Source)
         /\ \A p \in Projections : Has("properties", p)
<1>1. \A p \in Projections : [aspect |-> "upstream", of |-> p] \in Seeded
                             /\ [aspect |-> "properties", of |-> p] \in Seeded
  BY DEF Seeded, AssetsAndLineage
<1>2. [aspect |-> "governance", of |-> Source] \in Seeded
  BY DEF Seeded, AssetsAndLineage
<1> QED BY <1>1, <1>2 DEF Within, Has

(* Every step keeps it.                                                    *)
LEMMA ContextStep == TypeInv /\ ContextInv /\ [Next]_vars => ContextInv'
<1> SUFFICES ASSUME TypeInv, ContextInv, [Next]_vars, NEW r \in Runs PROVE ContextOf(r)'
  BY DEF ContextInv
<1>0. /\ RunTypeOK /\ ContextOf(r) /\ catalogue \subseteq catalogue'
      /\ Within(3) \subseteq Within(3)'
  BY CatalogueGrows, WithinGrows DEF TypeInv, ContextInv
<1>1. ASSUME UNCHANGED <<phase, named, context, settled>> PROVE ContextOf(r)'
  BY <1>0, <1>1, ContextKept
<1>2. ASSUME NEW q \in Runs, GetLineage(q) PROVE ContextOf(r)'
  <2>1. CASE q = r /\ phase' = [phase EXCEPT ![r] = "context_failed"] /\ UNCHANGED <<named, settled>>
    <3>1. phase'[r] = "context_failed" /\ context' = context
      BY <1>0, <1>2, <2>1 DEF GetLineage, RunTypeOK
    <3> QED BY <1>0, <2>1, <3>1, ContextKept
  <2>2. CASE q = r /\ ~(phase' = [phase EXCEPT ![r] = "context_failed"] /\ UNCHANGED <<named, settled>>)
    <3>1. /\ Within(MaxHops) # {} /\ catalogue' = catalogue
          /\ phase'[r] = "named" /\ named'[r] = Within(MaxHops)
          /\ settled'[r] = (Seeded \subseteq catalogue)
      BY <1>0, <1>2, <2>2 DEF GetLineage, RunTypeOK, graph
    <3>2. settled'[r] => Seeded \subseteq catalogue /\ Within(3) = Projections
      BY <3>1, WholeGraph
    <3>3. Within(3)' = Within(3)
      BY <3>1 DEF Within, Has
    <3> QED BY <3>1, <3>2, <3>3 DEF ContextOf, MaxHops, Unread
  <2>3. CASE q # r
    <3>1. phase'[r] = phase[r] /\ named'[r] = named[r] /\ settled'[r] = settled[r]
          /\ context' = context
      BY <1>0, <1>2, <2>3 DEF GetLineage, RunTypeOK
    <3> QED BY <1>0, <3>1, ContextKept
  <2> QED BY <2>1, <2>2, <2>3
<1>3. ASSUME NEW q \in Runs, GetEntities(q) PROVE ContextOf(r)'
  <2>1. CASE q = r /\ phase'[r] = "resolved"
    <3>0. PICK answered \in SUBSET named[r], root \in BOOLEAN :
            context' = [context EXCEPT ![r] =
              [assets    |-> answered,
               ruled     |-> {p \in answered : Has("properties", p)},
               unowned   |-> {p \in answered : ~Has("owner", p)},
               authority |-> root /\ Has("governance", Source)]]
      BY <1>0, <1>3, <2>1 DEF GetEntities, RunTypeOK
    <3>1. /\ phase[r] = "named" /\ catalogue' = catalogue
          /\ UNCHANGED <<named, settled>>
          /\ context'[r].assets = answered
          /\ context'[r].ruled = {p \in answered : Has("properties", p)}
          /\ context'[r].authority => Has("governance", Source)
      BY <1>0, <1>3, <2>1, <3>0 DEF GetEntities, RunTypeOK, graph
    <3>2. /\ named[r] # {} /\ named[r] \subseteq Within(3)
          /\ settled[r] => named[r] = Projections /\ Seeded \subseteq catalogue
      BY <1>0, <3>1 DEF ContextOf, Unread
    <3>3. settled[r] /\ answered = named[r] => context'[r].ruled = Projections
      BY <3>1, <3>2, WholeGraph
    <3>4. Within(3)' = Within(3) /\ Has("governance", Source)' = Has("governance", Source)
      BY <3>1 DEF Within, Has
    <3> QED BY <1>0, <2>1, <3>1, <3>2, <3>3, <3>4 DEF ContextOf, Unread
  <2>2. CASE q # r \/ phase'[r] # "resolved"
    <3>1. /\ UNCHANGED <<named, settled>>
          /\ phase'[r] = phase[r] \/ phase'[r] = "context_failed"
          /\ context'[r] = context[r]
      BY <1>0, <1>3, <2>2 DEF GetEntities, RunTypeOK
    <3> QED BY <1>0, <3>1, ContextKept
  <2> QED BY <2>1, <2>2
<1>4. ASSUME NEW q \in Runs, Resolve(q) \/ WriteBack(q) PROVE ContextOf(r)'
  <2>1. UNCHANGED <<named, context, settled>>
    BY <1>4 DEF Resolve, WriteBack, OpenSession, AddProperties, AddTag, AddOwner, SaveDocument,
                ReadBack, Crash
  <2>2. \E next : phase' = [phase EXCEPT ![q] = next]
    BY <1>4 DEF Resolve, WriteBack, OpenSession, AddProperties, AddTag, AddOwner, SaveDocument,
                ReadBack, Crash, Goto
  <2>3. \/ phase[q] \notin Unread \cup {"named", "resolved"}
        \/ phase[q] = "resolved" /\ context[q].authority
        \/ phase' = [phase EXCEPT ![q] = "context_failed"]
    <3>1. CASE Resolve(q)
      BY <3>1 DEF Resolve
    <3>2. CASE WriteBack(q)
      BY <3>2 DEF WriteBack, OpenSession, AddProperties, AddTag, AddOwner, SaveDocument, ReadBack,
                  Crash, Writing, Unread
    <3> QED BY <1>4, <3>1, <3>2
  <2>4. \/ phase'[r] = phase[r] \/ phase'[r] = "context_failed"
        \/ phase[r] \notin Unread \cup {"named", "resolved"}
        \/ phase[r] = "resolved" /\ context[r].authority
    BY <1>0, <2>2, <2>3 DEF RunTypeOK
  <2> QED BY <1>0, <2>1, <2>4, ContextKept
<1>5. CASE ~(\E q \in Runs : GetLineage(q) \/ GetEntities(q) \/ Resolve(q) \/ WriteBack(q))
  <2>1. UNCHANGED run
    BY <1>5 DEF Next, StartSeed, EmitBatch, EmitReset, Consume, VerifyLineage, VerifyGovernance,
                OtherMarks, vars
  <2> QED BY <1>1, <2>1 DEF run
<1> QED BY <1>2, <1>3, <1>4, <1>5

(* context_builder.py: no topology is assumed: the blast radius of a run   *)
(* is part of the lineage it was given, which is DataHub's own, and a run  *)
(* goes on from it only under an authority that DataHub names; it is all,  *)
(* with every rule, if the graph was complete and the answer too.          *)
THEOREM BlastRadiusHolds == Spec => []BlastRadiusIsLineage
<1>1. Init => ContextInv
  BY DEF Init, ContextInv, ContextOf, Unread
<1>2. ContextInv => BlastRadiusIsLineage
  BY DEF ContextInv, ContextOf, Unread, BlastRadiusIsLineage
<1> QED BY TypeInit, TypeStep, <1>1, <1>2, ContextStep, PTL DEF Spec

-----------------------------------------------------------------------------
(* What a run writes.                                                      *)

Early == {"pending", "context_failed", "named", "resolved"}

(* The trace has the outcome of every call, and of no other.               *)
Recorded(r, o) ==
  \/ ops[r][o] = "none" /\ trace[r][o] = "none"
  \/ ops[r][o] = "failed" /\ trace[r][o] \in {"none", "error"}
  \/ ops[r][o] \in {"ok", "verified"} /\ trace[r][o] = "ok"

(* The operations in their order, each tried once.                         *)
Ordered(r) ==
  /\ phase[r] \in Early \cup {"approved", "properties"} => ops[r]["properties"] = "none"
  /\ phase[r] \in Early \cup {"approved", "properties", "tag"} => ops[r]["tag"] = "none"
  /\ phase[r] \in Early \cup {"approved", "properties", "tag", "owner"} =>
       ops[r]["owner"] = "none"
  /\ phase[r] \in Early \cup {"approved", "properties", "tag", "owner", "document"} =>
       ops[r]["document"] = "none"
  /\ phase[r] \in {"tag", "owner", "document", "readback"} => ops[r]["properties"] # "none"
  /\ phase[r] \in {"owner", "document", "readback"} => ops[r]["tag"] # "none"
  /\ phase[r] = "readback" => ops[r]["document"] # "none"
  /\ phase[r] \in Writing => \A o \in Mutations : ops[r][o] # "verified"

(* The targets are assets of the run's own context.                        *)
Grounded(r) ==
  /\ plan[r].targets \subseteq context[r].ruled
  /\ phase[r] \in Early => plan[r].targets = {}
  /\ phase[r] \in Writing => plan[r].targets # {}

Carried(r) ==
  phase[r] = "verified" =>
    /\ Targets(r) # {} /\ carried[r] = Targets(r)
    /\ \A o \in Mutations : trace[r][o] # "error"
    /\ \A o \in {"properties", "tag", "document"} : trace[r][o] = "ok"

WriteOf(r) ==
  Ordered(r) /\ (\A o \in Mutations : Recorded(r, o)) /\ Grounded(r) /\ Carried(r)

WriteInv == \A r \in Runs : WriteOf(r)

(* A run that does nothing keeps it.                                       *)
LEMMA WriteKept ==
  ASSUME NEW r \in Runs, WriteOf(r), phase'[r] = phase[r], plan'[r] = plan[r],
         context'[r] = context[r], ops'[r] = ops[r], trace'[r] = trace[r],
         carried'[r] = carried[r]
  PROVE  WriteOf(r)'
<1>1. Ordered(r)'
  BY DEF WriteOf, Ordered
<1>2. \A o \in Mutations : Recorded(r, o)'
  BY DEF WriteOf, Recorded
<1>3. Grounded(r)' /\ Carried(r)'
  BY DEF WriteOf, Grounded, Carried, Targets
<1> QED BY <1>1, <1>2, <1>3 DEF WriteOf

(* One tool is called or refused, and its outcome is recorded.             *)
LEMMA ToolUsed ==
  ASSUME OutcomeTypeOK, NEW r \in Runs, NEW tool \in Mutations,
         ops[r][tool] = "none", Recorded(r, tool),
         Refuse(r, tool) \/ \E ok \in BOOLEAN : Call(r, tool, ok)
  PROVE  /\ ops'[r][tool] \in {"ok", "failed"} /\ Recorded(r, tool)'
         /\ Refuse(r, tool) \/ trace'[r][tool] # "none"
         /\ \A o \in Mutations \ {tool} : ops'[r][o] = ops[r][o] /\ trace'[r][o] = trace[r][o]
         /\ \A q \in Runs \ {r} : ops'[q] = ops[q] /\ trace'[q] = trace[q]
<1>1. trace[r][tool] = "none"
  BY DEF Recorded
<1>2. CASE Refuse(r, tool)
  <2>1. ops' = [ops EXCEPT ![r][tool] = "failed"] /\ trace' = trace
    BY <1>2 DEF Refuse
  <2>2. ops'[r][tool] = "failed"
    BY <2>1 DEF OutcomeTypeOK
  <2>3. /\ \A o \in Mutations \ {tool} : ops'[r][o] = ops[r][o]
        /\ \A q \in Runs \ {r} : ops'[q] = ops[q]
    BY <2>1 DEF OutcomeTypeOK
  <2> QED BY <1>1, <1>2, <2>1, <2>2, <2>3 DEF Recorded
<1>3. ASSUME NEW ok \in BOOLEAN, Call(r, tool, ok)
      PROVE  /\ ops'[r][tool] \in {"ok", "failed"} /\ Recorded(r, tool)'
             /\ trace'[r][tool] # "none"
             /\ \A o \in Mutations \ {tool} : ops'[r][o] = ops[r][o] /\ trace'[r][o] = trace[r][o]
             /\ \A q \in Runs \ {r} : ops'[q] = ops[q] /\ trace'[q] = trace[q]
  <2>1. PICK o \in {"ok", "failed"}, t \in {"ok", "error"} :
          /\ o = "ok" <=> t = "ok"
          /\ ops' = [ops EXCEPT ![r][tool] = o] /\ trace' = [trace EXCEPT ![r][tool] = t]
    <3>1. CASE ok
      BY <1>3, <3>1 DEF Call
    <3>2. CASE ~ok
      BY <1>3, <3>2 DEF Call
    <3> QED BY <3>1, <3>2
  <2>2. ops'[r][tool] = o
    BY <2>1 DEF OutcomeTypeOK
  <2>3. trace'[r][tool] = t
    BY <2>1 DEF OutcomeTypeOK
  <2>4. /\ \A m \in Mutations \ {tool} : ops'[r][m] = ops[r][m]
        /\ \A q \in Runs \ {r} : ops'[q] = ops[q]
    BY <2>1 DEF OutcomeTypeOK
  <2>5. /\ \A m \in Mutations \ {tool} : trace'[r][m] = trace[r][m]
        /\ \A q \in Runs \ {r} : trace'[q] = trace[q]
    BY <2>1 DEF OutcomeTypeOK
  <2> QED BY <2>1, <2>2, <2>3, <2>4, <2>5 DEF Recorded
<1> QED BY <1>2, <1>3

(* One operation of the write-back.                                        *)
LEMMA OperationKept ==
  ASSUME TypeInv, WriteInv, NEW r \in Runs,
         AddProperties(r) \/ AddTag(r) \/ AddOwner(r) \/ SaveDocument(r)
  PROVE  WriteOf(r)'
<1>0. RunTypeOK /\ OutcomeTypeOK /\ WriteOf(r)
  BY DEF TypeInv, WriteInv
<1>1. /\ UNCHANGED <<plan, context, carried>>
      /\ \E next \in Writing : phase' = [phase EXCEPT ![r] = next]
      /\ phase[r] \in Writing
  BY DEF AddProperties, AddTag, AddOwner, SaveDocument, Goto, Writing
<1>2. phase'[r] \in Writing
  BY <1>0, <1>1 DEF RunTypeOK
<1>3. Grounded(r)' /\ Carried(r)'
  BY <1>0, <1>1, <1>2 DEF WriteOf, Grounded, Carried, Writing, Early
<1>4. CASE AddProperties(r)
  <2>1. /\ phase[r] = "properties" /\ phase'[r] = "tag"
        /\ Refuse(r, "properties") \/ \E ok \in BOOLEAN : Call(r, "properties", ok)
    BY <1>0, <1>4 DEF AddProperties, Goto, RunTypeOK
  <2>2. "properties" \in Mutations /\ ops[r]["properties"] = "none" /\ Recorded(r, "properties")
    BY <1>0, <2>1 DEF WriteOf, Ordered, Mutations
  <2>3. /\ ops'[r]["properties"] \in {"ok", "failed"} /\ Recorded(r, "properties")'
        /\ \A o \in Mutations \ {"properties"} : ops'[r][o] = ops[r][o] /\ trace'[r][o] = trace[r][o]
    BY <1>0, <2>1, <2>2, ToolUsed
  <2>4. Ordered(r)'
    BY <1>0, <2>1, <2>3 DEF WriteOf, Ordered, Mutations, Writing, Early
  <2>5. \A o \in Mutations : Recorded(r, o)'
    BY <1>0, <2>3 DEF WriteOf, Recorded
  <2> QED BY <1>3, <2>4, <2>5 DEF WriteOf
<1>5. CASE AddTag(r)
  <2>1. /\ phase[r] = "tag" /\ phase'[r] = "owner"
        /\ Refuse(r, "tag") \/ \E ok \in BOOLEAN : Call(r, "tag", ok)
    BY <1>0, <1>5 DEF AddTag, Goto, RunTypeOK
  <2>2. "tag" \in Mutations /\ ops[r]["tag"] = "none" /\ Recorded(r, "tag")
    BY <1>0, <2>1 DEF WriteOf, Ordered, Mutations
  <2>3. /\ ops'[r]["tag"] \in {"ok", "failed"} /\ Recorded(r, "tag")'
        /\ \A o \in Mutations \ {"tag"} : ops'[r][o] = ops[r][o] /\ trace'[r][o] = trace[r][o]
    BY <1>0, <2>1, <2>2, ToolUsed
  <2>4. Ordered(r)'
    BY <1>0, <2>1, <2>3 DEF WriteOf, Ordered, Mutations, Writing, Early
  <2>5. \A o \in Mutations : Recorded(r, o)'
    BY <1>0, <2>3 DEF WriteOf, Recorded
  <2> QED BY <1>3, <2>4, <2>5 DEF WriteOf
<1>6. CASE AddOwner(r)
  <2>1. /\ phase[r] = "owner" /\ phase'[r] = "document"
        /\ \/ UNCHANGED <<ops, trace>>
           \/ Refuse(r, "owner") \/ \E ok \in BOOLEAN : Call(r, "owner", ok)
    BY <1>0, <1>6 DEF AddOwner, Goto, RunTypeOK
  <2>2. "owner" \in Mutations /\ ops[r]["owner"] = "none" /\ Recorded(r, "owner")
    BY <1>0, <2>1 DEF WriteOf, Ordered, Mutations
  <2>3. /\ ops'[r]["owner"] # "verified" /\ Recorded(r, "owner")'
        /\ \A o \in Mutations \ {"owner"} : ops'[r][o] = ops[r][o] /\ trace'[r][o] = trace[r][o]
    <3>1. CASE UNCHANGED <<ops, trace>>
      BY <2>2, <3>1 DEF Recorded
    <3>2. CASE Refuse(r, "owner") \/ \E ok \in BOOLEAN : Call(r, "owner", ok)
      BY <1>0, <2>2, <3>2, ToolUsed
    <3> QED BY <2>1, <3>1, <3>2
  <2>4. Ordered(r)'
    BY <1>0, <2>1, <2>3 DEF WriteOf, Ordered, Mutations, Writing, Early
  <2>5. \A o \in Mutations : Recorded(r, o)'
    BY <1>0, <2>3 DEF WriteOf, Recorded
  <2> QED BY <1>3, <2>4, <2>5 DEF WriteOf
<1>7. CASE SaveDocument(r)
  <2>1. /\ phase[r] = "document" /\ phase'[r] = "readback"
        /\ Refuse(r, "document") \/ \E ok \in BOOLEAN : Call(r, "document", ok)
    BY <1>0, <1>7 DEF SaveDocument, Goto, RunTypeOK
  <2>2. "document" \in Mutations /\ ops[r]["document"] = "none" /\ Recorded(r, "document")
    BY <1>0, <2>1 DEF WriteOf, Ordered, Mutations
  <2>3. /\ ops'[r]["document"] \in {"ok", "failed"} /\ Recorded(r, "document")'
        /\ \A o \in Mutations \ {"document"} : ops'[r][o] = ops[r][o] /\ trace'[r][o] = trace[r][o]
    BY <1>0, <2>1, <2>2, ToolUsed
  <2>4. Ordered(r)'
    BY <1>0, <2>1, <2>3 DEF WriteOf, Ordered, Mutations, Writing, Early
  <2>5. \A o \in Mutations : Recorded(r, o)'
    BY <1>0, <2>3 DEF WriteOf, Recorded
  <2> QED BY <1>3, <2>4, <2>5 DEF WriteOf
<1> QED BY <1>4, <1>5, <1>6, <1>7

(* A read-back that found what it calls verified.                          *)
Checked(r, outcome) ==
  /\ \A o \in Mutations : outcome[o] # ops[r][o] => ops[r][o] = "ok" /\ outcome[o] = "verified"
  /\ outcome["properties"] = "verified" => \A p \in Targets(r) : props[p]["last_run"] # NoRun
  /\ outcome["tag"] = "verified" => Targets(r) \subseteq tagged

(* The read-back: verified only with property and tag on every target.     *)
LEMMA ReadBackKept ==
  ASSUME TypeInv, WriteInv, NEW r \in Runs, ReadBack(r) PROVE WriteOf(r)'
<1>0. RunTypeOK /\ OutcomeTypeOK /\ WriteOf(r)
  BY DEF TypeInv, WriteInv
<1>1. /\ phase[r] = "readback" /\ UNCHANGED <<plan, context, trace, props, tagged>>
      /\ carried'[r] = {p \in Targets(r) : p \in tagged /\ props[p]["last_run"] # NoRun}
  BY <1>0 DEF ReadBack, RunTypeOK, graph
<1>2. Targets(r) # {} /\ Targets(r)' = Targets(r)
  BY <1>0, <1>1 DEF WriteOf, Grounded, Targets, Writing
<1>3. PICK outcome \in [Mutations -> {"none", "failed", "ok", "verified"}] :
        Checked(r, outcome) /\ ops'[r] = outcome /\ phase'[r] = Status(outcome, Attempted(r))
  <2>1. CASE Goto(r, Status(ops[r], Attempted(r))) /\ UNCHANGED ops
    <3>1. ops[r] \in [Mutations -> {"none", "failed", "ok", "verified"}]
      BY <1>0 DEF OutcomeTypeOK
    <3>2. phase'[r] = Status(ops[r], Attempted(r)) /\ ops'[r] = ops[r]
      BY <1>0, <2>1 DEF Goto, RunTypeOK
    <3>3. \A o \in Mutations : ops[r][o] # "verified"
      BY <1>0, <1>1 DEF WriteOf, Ordered, Writing
    <3>4. Checked(r, ops[r])
      BY <3>3 DEF Checked, Mutations
    <3> QED BY <3>1, <3>2, <3>4
  <2>2. ASSUME NEW answered \in SUBSET Targets(r),
               ops' = [ops EXCEPT ![r] = Confirmed(r, answered)],
               Goto(r, Status(Confirmed(r, answered), Attempted(r)))
        PROVE  \E outcome \in [Mutations -> {"none", "failed", "ok", "verified"}] :
                 /\ Checked(r, outcome) /\ ops'[r] = outcome
                 /\ phase'[r] = Status(outcome, Attempted(r))
    <3>1. ops'[r] = Confirmed(r, answered)
          /\ phase'[r] = Status(Confirmed(r, answered), Attempted(r))
      BY <1>0, <2>2 DEF Goto, RunTypeOK, OutcomeTypeOK
    <3>2. Confirmed(r, answered) \in [Mutations -> {"none", "failed", "ok", "verified"}]
      BY <1>0, ConfirmedType
    <3>3. \A o \in Mutations : ops[r][o] # "verified"
      BY <1>0, <1>1 DEF WriteOf, Ordered, Writing
    <3>4. Checked(r, Confirmed(r, answered))
      BY <3>3 DEF Confirmed, Checked, Mutations
    <3> QED BY <3>1, <3>2, <3>4
  <2> QED BY <2>1, <2>2 DEF ReadBack
<1>4. phase'[r] \notin Early \cup {"approved"} \cup Writing
  BY <1>3 DEF Early, Writing, Status
<1>5. Ordered(r)' /\ Grounded(r)'
  BY <1>0, <1>1, <1>4 DEF Ordered, Grounded, WriteOf, Writing
<1>6. \A o \in Mutations : Recorded(r, o)'
  BY <1>0, <1>1, <1>3 DEF WriteOf, Recorded, Checked
<1>7. Carried(r)'
  <2> SUFFICES ASSUME phase'[r] = "verified"
               PROVE  /\ carried'[r] = Targets(r)
                      /\ \A o \in Mutations : trace[r][o] # "error"
                      /\ \A o \in {"properties", "tag", "document"} : trace[r][o] = "ok"
    BY <1>1, <1>2 DEF Carried
  <2>0. \A o \in Attempted(r) : outcome[o] = "verified"
    BY <1>3 DEF Status
  <2>1. \A o \in Mutations : ops[r][o] # "none" => outcome[o] = "verified" /\ ops[r][o] # "verified"
    BY <1>0, <1>1, <2>0 DEF Attempted, WriteOf, Ordered, Writing
  <2>2. \A o \in Mutations : ops[r][o] # "none" => ops[r][o] = "ok" /\ trace[r][o] = "ok"
    BY <1>0, <1>3, <2>1 DEF WriteOf, Recorded, Checked
  <2>3. \A o \in Mutations : ops[r][o] = "none" => trace[r][o] = "none"
    BY <1>0 DEF WriteOf, Recorded
  <2>4. ops[r]["properties"] # "none" /\ ops[r]["tag"] # "none" /\ ops[r]["document"] # "none"
    BY <1>0, <1>1 DEF WriteOf, Ordered
  <2>5. \A o \in {"properties", "tag", "document"} : trace[r][o] = "ok"
    BY <2>2, <2>4 DEF Mutations
  <2>6. outcome["properties"] = "verified" /\ outcome["tag"] = "verified"
    BY <2>1, <2>4 DEF Mutations
  <2>7. \A p \in Targets(r) : p \in tagged /\ props[p]["last_run"] # NoRun
    BY <1>3, <2>6 DEF Checked
  <2> QED BY <1>1, <2>2, <2>3, <2>5, <2>7
<1> QED BY <1>5, <1>6, <1>7 DEF WriteOf

(* Every step keeps it.                                                    *)
LEMMA WriteStep == TypeInv /\ WriteInv /\ [Next]_vars => WriteInv'
<1> SUFFICES ASSUME TypeInv, WriteInv, [Next]_vars, NEW r \in Runs PROVE WriteOf(r)'
  BY DEF WriteInv
<1>0. RunTypeOK /\ OutcomeTypeOK /\ WriteOf(r)
  BY DEF TypeInv, WriteInv
<1>1. ASSUME NEW q \in Runs, q # r,
             GetLineage(q) \/ GetEntities(q) \/ Resolve(q) \/ WriteBack(q)
      PROVE  WriteOf(r)'
  <2>1. plan'[r] = plan[r] /\ context'[r] = context[r] /\ carried'[r] = carried[r]
    BY <1>0, <1>1 DEF GetLineage, GetEntities, Resolve, WriteBack, OpenSession, AddProperties,
                      AddTag, AddOwner, SaveDocument, ReadBack, Crash, RunTypeOK
  <2>2. phase'[r] = phase[r]
    BY <1>0, <1>1 DEF GetLineage, GetEntities, Resolve, WriteBack, OpenSession, AddProperties,
                      AddTag, AddOwner, SaveDocument, ReadBack, Crash, Goto, RunTypeOK
  <2>3. ops'[r] = ops[r] /\ trace'[r] = trace[r]
    BY <1>0, <1>1 DEF GetLineage, GetEntities, Resolve, WriteBack, OpenSession, AddProperties,
                      AddTag, AddOwner, SaveDocument, ReadBack, Crash, Refuse, Call, OutcomeTypeOK
  <2> QED BY <1>0, <2>1, <2>2, <2>3, WriteKept
<1>2. CASE GetLineage(r) \/ GetEntities(r)
  <2>1. /\ UNCHANGED <<plan, ops, trace, carried>> /\ plan[r].targets = {}
        /\ phase'[r] \in {"named", "resolved", "context_failed"} /\ phase[r] \in Early
    BY <1>0, <1>2 DEF GetLineage, GetEntities, RunTypeOK, WriteOf, Grounded, Early
  <2>2. Ordered(r)'
    BY <1>0, <2>1 DEF WriteOf, Ordered, Early, Writing
  <2>3. Grounded(r)' /\ Carried(r)' /\ \A o \in Mutations : Recorded(r, o)'
    BY <1>0, <2>1 DEF WriteOf, Grounded, Carried, Recorded, Early, Writing
  <2> QED BY <2>2, <2>3 DEF WriteOf
<1>3. CASE Resolve(r)
  <2>1. /\ UNCHANGED <<context, ops, trace, carried>>
        /\ phase'[r] \in {"approved", "context_failed"} /\ phase[r] = "resolved"
    BY <1>0, <1>3 DEF Resolve, RunTypeOK
  <2>2. plan'[r].targets \subseteq context[r].ruled
    <3>1. CASE context[r].authority
      <4>1. PICK targets \in SUBSET context[r].ruled, optional \in SUBSET (Keys \ {"last_run"}),
                 assign \in BOOLEAN :
              plan' = [plan EXCEPT ![r] =
                [targets |-> targets, values |-> {"last_run"} \cup optional, assign |-> assign]]
        BY <1>3, <3>1 DEF Resolve
      <4>2. plan'[r] = [targets |-> targets, values |-> {"last_run"} \cup optional, assign |-> assign]
        BY <1>0, <4>1 DEF RunTypeOK
      <4> QED BY <4>2
    <3>2. CASE ~context[r].authority
      BY <1>0, <1>3, <3>2 DEF Resolve, WriteOf, Grounded
    <3> QED BY <3>1, <3>2
  <2>3. phase'[r] = "context_failed" => plan' = plan
    <3>1. CASE context[r].authority
      BY <1>0, <1>3, <3>1 DEF Resolve, RunTypeOK
    <3>2. CASE ~context[r].authority
      BY <1>3, <3>2 DEF Resolve
    <3> QED BY <3>1, <3>2
  <2>4. Ordered(r)'
    BY <1>0, <2>1 DEF WriteOf, Ordered, Early, Writing
  <2>5. Grounded(r)'
    BY <1>0, <2>1, <2>2, <2>3 DEF WriteOf, Grounded, Early, Writing
  <2>6. Carried(r)' /\ \A o \in Mutations : Recorded(r, o)'
    BY <1>0, <2>1 DEF WriteOf, Carried, Recorded
  <2> QED BY <2>4, <2>5, <2>6 DEF WriteOf
<1>4. CASE OpenSession(r)
  <2>1. UNCHANGED <<plan, context, ops, trace, carried>>
    BY <1>4 DEF OpenSession
  <2>2. \/ phase'[r] \in {"stuck", "failed"}
        \/ phase'[r] = "properties" /\ phase[r] = "approved" /\ plan[r].targets # {}
    BY <1>0, <1>4 DEF OpenSession, RunTypeOK, Targets
  <2>3. Ordered(r)'
    <3>1. CASE phase'[r] \in {"stuck", "failed"}
      BY <3>1 DEF Ordered, Early, Writing
    <3>2. CASE phase'[r] = "properties" /\ phase[r] = "approved"
      BY <1>0, <2>1, <3>2 DEF WriteOf, Ordered, Early, Writing, Mutations
    <3> QED BY <2>2, <3>1, <3>2
  <2>4. Grounded(r)' /\ Carried(r)' /\ \A o \in Mutations : Recorded(r, o)'
    BY <1>0, <2>1, <2>2 DEF WriteOf, Grounded, Carried, Recorded, Early, Writing
  <2> QED BY <2>3, <2>4 DEF WriteOf
<1>5. CASE Crash(r)
  <2>1. /\ UNCHANGED <<plan, context, carried>> /\ phase'[r] = "stuck"
        /\ \A o \in Mutations : ops'[r][o] = "none" /\ trace'[r][o] = "none"
    BY <1>0, <1>5 DEF Crash, Goto, RunTypeOK, OutcomeTypeOK, Untried
  <2>2. Ordered(r)'
    BY <2>1 DEF Ordered, Early, Writing
  <2>3. Grounded(r)' /\ Carried(r)' /\ \A o \in Mutations : Recorded(r, o)'
    BY <1>0, <2>1 DEF WriteOf, Grounded, Carried, Recorded, Early, Writing
  <2> QED BY <2>2, <2>3 DEF WriteOf
<1>6. CASE WriteBack(r)
  BY <1>4, <1>5, <1>6, OperationKept, ReadBackKept DEF WriteBack
<1>7. CASE ~(\E q \in Runs : GetLineage(q) \/ GetEntities(q) \/ Resolve(q) \/ WriteBack(q))
  <2>1. UNCHANGED run
    BY <1>7 DEF Next, StartSeed, EmitBatch, EmitReset, Consume, VerifyLineage, VerifyGovernance,
                OtherMarks, vars
  <2> QED BY <1>0, <2>1, WriteKept DEF run
<1> QED BY <1>1, <1>2, <1>3, <1>6, <1>7

(* Nothing is tried or planned at first.                                   *)
LEMMA WriteInit == Init => WriteInv
<1> SUFFICES ASSUME Init, NEW r \in Runs PROVE WriteOf(r)
  BY DEF WriteInv
<1>1. /\ phase[r] = "pending" /\ plan[r].targets = {}
      /\ \A o \in Mutations : ops[r][o] = "none" /\ trace[r][o] = "none"
  BY DEF Init, Untried, NoPlan
<1>2. Ordered(r)
  BY <1>1 DEF Ordered, Writing, Mutations
<1> QED BY <1>1, <1>2 DEF WriteOf, Recorded, Grounded, Carried, Writing

(* writeback.py: "Every operation is verified by reading the value back":  *)
(* a verified write-back found property and tag on each of its targets,    *)
(* and none of its calls failed.                                           *)
THEOREM VerifiedWasCarriedHolds == Spec => []VerifiedWasCarried
<1>1. WriteInv => VerifiedWasCarried
  BY DEF WriteInv, WriteOf, Carried, VerifiedWasCarried
<1> QED BY TypeInit, TypeStep, WriteInit, WriteStep, <1>1, PTL DEF Spec

-----------------------------------------------------------------------------
(* The marks a run leaves.                                                 *)

(* A run that has begun to write keeps its plan and its trace.             *)
LEMMA LateKept ==
  ASSUME TypeInv, [Next]_vars, NEW r \in Runs, phase[r] \notin Early \cup {"approved"}
  PROVE  /\ phase'[r] \notin Early \cup {"approved"}
         /\ plan'[r] = plan[r] /\ context'[r] = context[r]
<1>0. RunTypeOK
  BY DEF TypeInv
<1>1. ASSUME NEW q \in Runs, GetLineage(q) \/ GetEntities(q) \/ Resolve(q)
      PROVE  q # r /\ phase'[r] = phase[r] /\ plan'[r] = plan[r] /\ context'[r] = context[r]
  BY <1>0, <1>1 DEF GetLineage, GetEntities, Resolve, RunTypeOK, Early
<1>2. ASSUME NEW q \in Runs, WriteBack(q)
      PROVE  /\ phase'[r] \notin Early \cup {"approved"}
             /\ plan' = plan /\ context' = context
  <2>1. plan' = plan /\ context' = context
    BY <1>2 DEF WriteBack, OpenSession, AddProperties, AddTag, AddOwner, SaveDocument, ReadBack,
                Crash
  <2>2. \E next : next \notin Early \cup {"approved"} /\ phase' = [phase EXCEPT ![q] = next]
    BY <1>2 DEF WriteBack, OpenSession, AddProperties, AddTag, AddOwner, SaveDocument, ReadBack,
                Crash, Goto, Status, Early
  <2> QED BY <1>0, <2>1, <2>2 DEF RunTypeOK
<1>3. CASE ~(\E q \in Runs : GetLineage(q) \/ GetEntities(q) \/ Resolve(q) \/ WriteBack(q))
  BY <1>3 DEF Next, StartSeed, EmitBatch, EmitReset, Consume, VerifyLineage, VerifyGovernance,
              OtherMarks, vars, run
<1> QED BY <1>1, <1>2, <1>3

(* A recorded call stays recorded unless its process ends.                 *)
LEMMA TraceKept ==
  ASSUME TypeInv, [Next]_vars, NEW r \in Runs, NEW o \in Mutations, trace[r][o] # "none",
         ~Crash(r)
  PROVE  trace'[r][o] # "none"
<1>0. OutcomeTypeOK
  BY DEF TypeInv
<1>1. \/ trace' = trace
      \/ \E q \in Runs, m \in Mutations, t \in {"ok", "error"} : trace' = [trace EXCEPT ![q][m] = t]
      \/ \E q \in Runs \ {r} : trace' = [trace EXCEPT ![q] = Untried]
  BY DEF Next, StartSeed, EmitBatch, EmitReset, Consume, VerifyLineage, VerifyGovernance, OtherMarks,
         GetLineage, GetEntities, Resolve, WriteBack, OpenSession, AddProperties, AddTag, AddOwner,
         SaveDocument, ReadBack, Crash, Refuse, Call, vars, run, Mutations
<1> QED BY <1>0, <1>1 DEF OutcomeTypeOK

(* A run whose write-back was broken off is not driven again.              *)
LEMMA StuckForGood ==
  ASSUME TypeInv, [Next]_vars, NEW r \in Runs, phase'[r] # "stuck"
  PROVE  phase[r] # "stuck" /\ ~Crash(r)
<1>0. RunTypeOK
  BY DEF TypeInv
<1>1. ~Crash(r)
  BY <1>0 DEF Crash, Goto, RunTypeOK
<1>2. \/ phase' = phase
      \/ \E q \in Runs, next \in Phases : phase[q] # "stuck" /\ phase' = [phase EXCEPT ![q] = next]
  BY DEF Next, StartSeed, EmitBatch, EmitReset, Consume, VerifyLineage, VerifyGovernance, OtherMarks,
         GetLineage, GetEntities, Resolve, WriteBack, OpenSession, AddProperties, AddTag, AddOwner,
         SaveDocument, ReadBack, Crash, Goto, Status, Phases, Writing, vars, run
<1>3. phase[r] # "stuck"
  BY <1>0, <1>2 DEF RunTypeOK
<1> QED BY <1>1, <1>3

(* Only its own write-back leaves a run's mark, and never unrecorded.      *)
LEMMA MarkMade ==
  ASSUME TypeInv, WriteInv, [Next]_vars, NEW r \in Runs, NEW p \in Projections, NEW k \in Keys,
         props'[p][k] = r, props[p][k] # r
  PROVE  /\ phase[r] = "properties" /\ phase'[r] = "tag" /\ trace'[r]["properties"] # "none"
         /\ p \in plan[r].targets /\ k \in plan[r].values
<1>0. RunTypeOK /\ GraphTypeOK /\ OutcomeTypeOK /\ r # NoRun /\ r \notin Others
  BY DataHubAssumption DEF TypeInv
<1>1. ~Consume
  <2> SUFFICES ASSUME Consume PROVE props'[p][k] \in {props[p][k], NoRun}
    BY <1>0
  <2>1. PICK x \in queue : \/ UNCHANGED graph
                           \/ props' = [q \in Projections |->
                                IF x.aspect = "governance" /\ x.of = q
                                THEN [j \in Keys |-> NoRun] ELSE props[q]]
    BY DEF Consume
  <2> QED BY <2>1 DEF graph
<1>2. ~OtherMarks
  <2> SUFFICES ASSUME OtherMarks PROVE props'[p][k] \in {props[p][k]} \cup Others
    BY <1>0
  <2>1. PICK o \in Others, q \in Projections, optional \in SUBSET (Keys \ {"last_run"}) :
          props' = [props EXCEPT ![q] =
            [j \in Keys |-> IF j \in {"last_run"} \cup optional THEN o ELSE @[j]]]
    BY DEF OtherMarks
  <2> QED BY <1>0, <2>1 DEF GraphTypeOK
<1>3. PICK q \in Runs : AddProperties(q)
  BY <1>1, <1>2
  DEF Next, StartSeed, EmitBatch, EmitReset, VerifyLineage, VerifyGovernance, GetLineage,
      GetEntities, Resolve, WriteBack, OpenSession, AddTag, AddOwner, SaveDocument, ReadBack, Crash,
      vars, graph
<1>4. PICK applied \in SUBSET Targets(q), ok \in BOOLEAN :
        /\ Call(q, "properties", ok)
        /\ props' = [s \in Projections |-> [j \in Keys |->
             IF s \in applied /\ j \in plan[q].values THEN q ELSE props[s][j]]]
  BY <1>3 DEF AddProperties
<1>5. q = r /\ p \in Targets(r) /\ k \in plan[r].values
  BY <1>4
<1>6. phase[r] = "properties" /\ phase'[r] = "tag"
  BY <1>0, <1>3, <1>5 DEF AddProperties, Goto, RunTypeOK
<1>7. "properties" \in Mutations /\ ops[r]["properties"] = "none" /\ Recorded(r, "properties")
  BY <1>6 DEF WriteInv, WriteOf, Ordered, Mutations
<1>8. trace'[r]["properties"] # "none"
  BY <1>0, <1>4, <1>5, <1>7, ToolUsed DEF Call, Refuse
<1> QED BY <1>5, <1>6, <1>8 DEF Targets

(* The same for its decision document.                                     *)
LEMMA DocumentMade ==
  ASSUME TypeInv, WriteInv, [Next]_vars, NEW r \in Runs, r \in documents', r \notin documents
  PROVE  trace'[r]["document"] # "none"
<1>0. RunTypeOK /\ OutcomeTypeOK
  BY DEF TypeInv
<1>1. PICK q \in Runs : SaveDocument(q)
  BY DEF Next, StartSeed, EmitBatch, EmitReset, Consume, VerifyLineage, VerifyGovernance, OtherMarks,
         GetLineage, GetEntities, Resolve, WriteBack, OpenSession, AddProperties, AddTag, AddOwner,
         ReadBack, Crash, vars, graph
<1>2. PICK ok \in BOOLEAN : Call(r, "document", ok)
  BY <1>1 DEF SaveDocument
<1>3. q = r
  BY <1>1 DEF SaveDocument
<1>4. "document" \in Mutations /\ ops[r]["document"] = "none" /\ Recorded(r, "document")
  BY <1>1, <1>3 DEF SaveDocument, WriteInv, WriteOf, Ordered, Mutations
<1> QED BY <1>0, <1>2, <1>4, ToolUsed DEF Call, Refuse

(* A run whose write-back was not broken off has a call for what it left.  *)
Traced ==
  \A r \in Runs : phase[r] # "stuck" =>
    /\ (\E p \in Projections, k \in Keys : props[p][k] = r) => trace[r]["properties"] # "none"
    /\ r \in documents => trace[r]["document"] # "none"

MarkInv == OnlyAffectedAnnotated /\ Traced

(* Every step keeps the marks explained.                                   *)
LEMMA MarkStep == TypeInv /\ WriteInv /\ MarkInv /\ [Next]_vars => MarkInv'
<1> SUFFICES ASSUME TypeInv, WriteInv, MarkInv, [Next]_vars PROVE MarkInv'
  OBVIOUS
<1>1. ASSUME NEW p \in Projections, NEW k \in Keys, NEW r \in Runs, props'[p][k] = r
      PROVE  /\ phase'[r] \notin Early \cup {"approved"}
             /\ p \in plan'[r].targets /\ plan'[r].targets \subseteq context'[r].ruled
             /\ k \in plan'[r].values
             /\ phase'[r] # "stuck" => trace'[r]["properties"] # "none"
  <2>1. CASE props[p][k] = r
    <3>1. /\ phase[r] \notin Early \cup {"approved"}
          /\ p \in plan[r].targets /\ plan[r].targets \subseteq context[r].ruled
          /\ k \in plan[r].values
      BY <2>1 DEF MarkInv, OnlyAffectedAnnotated, Early
    <3>2. ASSUME phase'[r] # "stuck" PROVE trace'[r]["properties"] # "none"
      <4>1. phase[r] # "stuck" /\ ~Crash(r)
        BY <3>2, StuckForGood
      <4>2. trace[r]["properties"] # "none" /\ "properties" \in Mutations
        BY <2>1, <4>1 DEF MarkInv, Traced, Mutations
      <4> QED BY <4>1, <4>2, TraceKept
    <3> QED BY <3>1, <3>2, LateKept
  <2>2. CASE props[p][k] # r
    <3>1. /\ phase[r] = "properties" /\ phase'[r] = "tag" /\ trace'[r]["properties"] # "none"
          /\ p \in plan[r].targets /\ k \in plan[r].values
      BY <1>1, <2>2, MarkMade
    <3>2. plan[r].targets \subseteq context[r].ruled
      BY DEF WriteInv, WriteOf, Grounded
    <3>3. phase[r] \notin Early \cup {"approved"}
      BY <3>1 DEF Early
    <3> QED BY <3>1, <3>2, <3>3, LateKept
  <2> QED BY <2>1, <2>2
<1>2. ASSUME NEW r \in Runs, r \in documents', phase'[r] # "stuck"
      PROVE  trace'[r]["document"] # "none"
  <2>1. CASE r \in documents
    <3>1. phase[r] # "stuck" /\ ~Crash(r)
      BY <1>2, StuckForGood
    <3>2. trace[r]["document"] # "none" /\ "document" \in Mutations
      BY <2>1, <3>1 DEF MarkInv, Traced, Mutations
    <3> QED BY <3>1, <3>2, TraceKept
  <2> QED BY <1>2, <2>1, DocumentMade
<1>3. OnlyAffectedAnnotated'
  BY <1>1 DEF OnlyAffectedAnnotated, Early
<1>4. Traced'
  BY <1>1, <1>2 DEF Traced
<1> QED BY <1>3, <1>4 DEF MarkInv

(* Nobody has left a mark at first.                                        *)
LEMMA MarkInit == Init => MarkInv
<1> SUFFICES ASSUME Init PROVE MarkInv
  OBVIOUS
<1>1. documents = {} /\ \A p \in Projections, k \in Keys : props[p][k] \notin Runs
  BY DataHubAssumption DEF Init
<1> QED BY <1>1 DEF MarkInv, OnlyAffectedAnnotated, Traced

(* writeback.py: a property takes a run's value only after its approval,   *)
(* only on assets that its own findings named, and for what it had to say. *)
THEOREM OnlyAffectedHolds == Spec => []OnlyAffectedAnnotated
<1>1. MarkInv => OnlyAffectedAnnotated
  BY DEF MarkInv
<1> QED BY TypeInit, TypeStep, WriteInit, WriteStep, MarkInit, MarkStep, <1>1, PTL DEF Spec

(* mcp_client.py: once a write-back's row is stored, with whatever status, *)
(* all that the run left in DataHub is explained by a call in its trace.   *)
THEOREM TraceExplainsHolds == Spec => []TraceExplains
<1>1. MarkInv => TraceExplains
  BY DEF MarkInv, Traced, TraceExplains
<1> QED BY TypeInit, TypeStep, WriteInit, WriteStep, MarkInit, MarkStep, <1>1, PTL DEF Spec
=============================================================================
