------------------------ MODULE WebhookIntakeProofs ------------------------
(***************************************************************************)
(* Proofs about WebhookIntake, for any number of processes, webhooks,      *)
(* crashes and resets.                                                     *)
(***************************************************************************)
EXTENDS WebhookIntake, TLAPS

(* Every variable keeps its type.                                          *)
LEMMA IntakeTypeInit == IntakeInit => IntakeTypeOK
BY IntakeBounds DEF IntakeInit, IntakeTypeOK, NoEvent, NoHandler, Success

HandlerType == [webhook : Webhooks \union {None}, intact : BOOLEAN, gone : BOOLEAN,
                answer : Success \union {"none", "refused", "error"}]
EventType == [status : {"none", "received", "rejected", "processed"}, valid : BOOLEAN]

(* An answer changes the answer only, and that to a well-typed one.        *)
LEMMA AnswerType ==
  ASSUME IntakeTypeOK, NEW p \in Processes,
         NEW answer \in Success \union {"none", "refused", "error"}, Answer(p, answer)
  PROVE  /\ pc' \in [Processes -> {"idle", "store", "stored", "reply"}]
         /\ local' \in [Processes -> HandlerType]
<1>1. local[p] \in HandlerType
  BY DEF IntakeTypeOK, HandlerType
<1>2. [local[p] EXCEPT !.answer = answer] \in HandlerType
  BY <1>1 DEF HandlerType
<1>3. local' = [local EXCEPT ![p] = [local[p] EXCEPT !.answer = answer]]
  BY DEF Answer
<1> QED BY <1>2, <1>3 DEF Answer, IntakeTypeOK, HandlerType

(* Every step keeps the types, action by action.                           *)
LEMMA IntakeTypeStep == IntakeTypeOK /\ [IntakeNext]_intakeVars => IntakeTypeOK'
<1> SUFFICES ASSUME IntakeTypeOK, [IntakeNext]_intakeVars PROVE IntakeTypeOK'
  OBVIOUS
<1>0. /\ \A p \in Processes : local[p] \in HandlerType
      /\ \A w \in Webhooks : events[w] \in EventType
      /\ NoHandler \in HandlerType /\ NoEvent \in EventType
  BY DEF IntakeTypeOK, HandlerType, EventType, NoHandler, NoEvent
<1>1. ASSUME NEW p \in Processes, NEW w \in Webhooks, NEW intact \in BOOLEAN,
             Receive(p, w, intact)
      PROVE  IntakeTypeOK'
  <2> DEFINE known == IF events[w] = NoEvent THEN "none" ELSE "duplicate"
             l == [NoHandler EXCEPT !.webhook = w, !.intact = intact, !.answer = known]
  <2>1. l \in HandlerType
    BY <1>0 DEF HandlerType, Success
  <2>2. local' = [local EXCEPT ![p] = l]
    BY <1>1 DEF Receive
  <2>3. local' \in [Processes -> HandlerType]
    BY <2>1, <2>2 DEF IntakeTypeOK, HandlerType
  <2> QED BY <1>1, <2>3 DEF Receive, IntakeTypeOK, HandlerType
<1>2. ASSUME NEW p \in Processes, Store(p) PROVE IntakeTypeOK'
  <2>1. EventRow(Verified(p)) \in EventType
    BY <1>0 DEF EventRow, Verified, EventType, HandlerType
  <2>2. events' \in [Webhooks -> EventType]
    BY <1>2, <2>1 DEF Store, IntakeTypeOK, EventType
  <2>3. /\ pc' \in [Processes -> {"idle", "store", "stored", "reply"}]
        /\ local' \in [Processes -> HandlerType]
    BY <1>2, AnswerType DEF Store, IntakeTypeOK, HandlerType
  <2> QED BY <1>2, <2>2, <2>3 DEF Store, IntakeTypeOK, HandlerType, EventType
<1>3. ASSUME NEW p \in Processes, RefuseTopic(p) \/ Process(p) PROVE IntakeTypeOK'
  <2>1. /\ pc' \in [Processes -> {"idle", "store", "stored", "reply"}]
        /\ local' \in [Processes -> HandlerType]
    BY <1>3, AnswerType DEF RefuseTopic, Process, RowLost, Success
  <2>2. \A w \in Webhooks, s \in {"rejected", "processed"} :
          [events[w] EXCEPT !.status = s] \in EventType
    BY <1>0 DEF EventType
  <2>3. ASSUME NEW w \in Webhooks, NEW s \in {"rejected", "processed"},
               events' = [events EXCEPT ![w].status = s]
        PROVE  events' \in [Webhooks -> EventType]
    BY <2>2, <2>3 DEF IntakeTypeOK, EventType
  <2>4. events' \in [Webhooks -> EventType]
    BY <1>3, <2>3, WebhooksAssumption
    DEF RefuseTopic, Process, RowLost, IntakeTypeOK, EventType
  <2>5. runs' \in [Webhooks -> Nat]
    BY <1>3, WebhooksAssumption DEF RefuseTopic, Process, RowLost, IntakeTypeOK
  <2>6. UNCHANGED <<secret, told, spent>>
    BY <1>3 DEF RefuseTopic, Process
  <2> QED BY <2>1, <2>4, <2>5, <2>6 DEF IntakeTypeOK, HandlerType, EventType
<1>4. ASSUME NEW p \in Processes, Reply(p) \/ ProcessCrash(p) \/ Configure(p)
      PROVE  IntakeTypeOK'
  <2> DEFINE answers == Success \union {"none", "refused", "error"}
  <2>1. local[p].answer \in answers
    BY <1>0 DEF HandlerType
  <2>2. told' \in [Webhooks -> answers]
    BY <1>4, <2>1 DEF Reply, ProcessCrash, Configure, IntakeTypeOK
  <2>3. local' \in [Processes -> HandlerType]
    BY <1>0, <1>4 DEF Reply, ProcessCrash, Configure, IntakeTypeOK, HandlerType
  <2>4. spent' \in [crashes : 0 .. MaxCrashes, resets : 0 .. MaxResets]
    BY <1>4, IntakeBounds DEF Reply, ProcessCrash, Configure, IntakeTypeOK
  <2>5. pc' \in [Processes -> {"idle", "store", "stored", "reply"}] /\ secret' \subseteq Processes
    BY <1>4 DEF Reply, ProcessCrash, Configure, IntakeTypeOK
  <2>6. UNCHANGED <<events, runs>>
    BY <1>4 DEF Reply, ProcessCrash, Configure
  <2> QED BY <2>2, <2>3, <2>4, <2>5, <2>6 DEF IntakeTypeOK, HandlerType
<1>5. CASE DemoReset
  <2>1. \A p \in Processes :
          [local[p] EXCEPT !.gone = (pc[p] = "stored")] \in HandlerType
    BY <1>0 DEF HandlerType
  <2>2. local' \in [Processes -> HandlerType]
    BY <1>5, <2>1 DEF DemoReset
  <2>3. events' \in [Webhooks -> EventType] /\ runs' \in [Webhooks -> Nat]
    BY <1>0, <1>5 DEF DemoReset
  <2>4. spent' \in [crashes : 0 .. MaxCrashes, resets : 0 .. MaxResets]
    BY <1>5, IntakeBounds DEF DemoReset, IntakeTypeOK
  <2>5. UNCHANGED <<secret, pc, told>>
    BY <1>5 DEF DemoReset
  <2> QED BY <2>2, <2>3, <2>4, <2>5 DEF IntakeTypeOK, HandlerType, EventType
<1>6. CASE UNCHANGED intakeVars
  BY <1>6 DEF intakeVars, IntakeTypeOK
<1> QED BY <1>1, <1>2, <1>3, <1>4, <1>5, <1>6 DEF IntakeNext, HandlerStep

-----------------------------------------------------------------------------
(* The inductive invariant.  A handler past its first commit whose row is  *)
(* still there is the only one for its webhook, and the webhook has no     *)
(* run yet; a webhook that has one has an event that says so.              *)

Holds(p, w) == pc[p] = "stored" /\ ~local[p].gone /\ local[p].webhook = w

HolderInv ==
  \A p \in Processes, w \in Webhooks :
    Holds(p, w)
    => /\ runs[w] = 0 /\ events[w].status = "received" /\ events[w].valid
       /\ \A q \in Processes : Holds(q, w) => q = p

RunInv ==
  \A w \in Webhooks :
    \/ runs[w] = 0
    \/ runs[w] = 1 /\ w \in AllowedTopic /\ events[w].status = "processed" /\ events[w].valid

Promises(p, w) ==
  pc[p] = "reply" /\ local[p].webhook = w /\ local[p].answer = "accepted"

AnswerInv ==
  spent.resets = 0 =>
    \A w \in Webhooks :
      told[w] = "accepted" \/ (\E p \in Processes : Promises(p, w)) => runs[w] = 1

IntakeInv == IntakeTypeOK /\ HolderInv /\ RunInv /\ AnswerInv

(* At first there is no event, no run and no handler.                      *)
LEMMA IntakeInvInit == IntakeInit => IntakeInv
BY IntakeTypeInit DEF IntakeInit, IntakeInv, HolderInv, Holds, RunInv, AnswerInv, Promises

(* A step of one process keeps the handlers of the others as they are.     *)
LEMMA OtherHandlersRest ==
  ASSUME IntakeTypeOK, NEW p \in Processes, HandlerStep(p)
  PROVE  \A q \in Processes \ {p} : pc'[q] = pc[q] /\ local'[q] = local[q]
BY DEF IntakeTypeOK, HandlerStep, Receive, Store, RefuseTopic, Process, RowLost, Answer,
       Reply, ProcessCrash, Configure

(* What p holds and promises after its step decides; the others' claims    *)
(* are what they were.                                                     *)
LEMMA OthersClaim ==
  ASSUME IntakeTypeOK, NEW p \in Processes, HandlerStep(p)
  PROVE  \A q \in Processes \ {p} : \A w :
           (Holds(q, w)' <=> Holds(q, w)) /\ (Promises(q, w)' <=> Promises(q, w))
BY OtherHandlersRest DEF Holds, Promises

(* An answer: nobody holds through p any more.                             *)
LEMMA AnswerClaims ==
  ASSUME IntakeTypeOK, NEW p \in Processes, NEW answer, Answer(p, answer)
  PROVE  \A w : ~Holds(p, w)' /\ (Promises(p, w)' <=> answer = "accepted" /\ local[p].webhook = w)
<1>1. local[p] \in HandlerType
  BY DEF IntakeTypeOK, HandlerType
<1>2. local'[p] = [local[p] EXCEPT !.answer = answer] /\ pc'[p] = "reply"
  BY DEF Answer, IntakeTypeOK
<1>3. local'[p].answer = answer /\ local'[p].webhook = local[p].webhook
  BY <1>1, <1>2 DEF HandlerType
<1> QED BY <1>2, <1>3 DEF Holds, Promises

(* A step that changes neither events nor runs, after which p holds        *)
(* nothing and promises nothing, keeps the invariant.                      *)
LEMMA IdleClaims ==
  ASSUME IntakeInv, NEW p \in Processes, HandlerStep(p), UNCHANGED <<events, runs>>,
         spent'.resets = spent.resets, UNCHANGED told,
         \A w : ~Holds(p, w)' /\ ~Promises(p, w)'
  PROVE  HolderInv' /\ RunInv' /\ AnswerInv'
<1>1. HolderInv'
  BY OthersClaim DEF IntakeInv, HolderInv
<1>2. RunInv'
  BY DEF IntakeInv, RunInv
<1>3. AnswerInv'
  BY OthersClaim DEF IntakeInv, AnswerInv
<1> QED BY <1>1, <1>2, <1>3

(* The first commit: its row is new, so nobody else holds the webhook.     *)
LEMMA StoreKeeps ==
  ASSUME IntakeInv, NEW p \in Processes, Store(p)
  PROVE  HolderInv' /\ RunInv' /\ AnswerInv'
<1> DEFINE w == local[p].webhook
<1>0. IntakeTypeOK /\ HandlerStep(p) /\ UNCHANGED <<runs, told, spent>>
  BY DEF IntakeInv, HandlerStep, Store
<1>1. CASE UNCHANGED events /\ Answer(p, "error")
  BY <1>0, <1>1, AnswerClaims, IdleClaims
<1>2. CASE /\ events[w] = NoEvent
           /\ events' = [events EXCEPT ![w] = EventRow(Verified(p))]
           /\ IF Verified(p) THEN pc' = [pc EXCEPT ![p] = "stored"] /\ UNCHANGED local
                             ELSE Answer(p, "refused")
  <2>1. \A v \in Webhooks : v # w => events'[v] = events[v]
    BY <1>0, <1>2 DEF IntakeTypeOK
  <2>2. w \in Webhooks => runs[w] = 0 /\ \A q \in Processes : ~Holds(q, w)
    BY <1>2 DEF NoEvent, IntakeInv, RunInv, HolderInv
  <2>3. \A v : ~Promises(p, v)'
    <3>1. CASE Verified(p)
      BY <1>0, <1>2, <3>1 DEF IntakeTypeOK, Promises
    <3>2. CASE ~Verified(p)
      BY <1>0, <1>2, <3>2, AnswerClaims
    <3> QED BY <3>1, <3>2
  <2>4. \A v \in Webhooks : Holds(p, v)' => v = w /\ events'[v] = EventRow(TRUE)
    <3>1. CASE Verified(p)
      <4>1. \A v : Holds(p, v)' => v = w
        BY <1>2, <3>1 DEF Holds
      <4>2. w \in Webhooks => events'[w] = EventRow(Verified(p))
        BY <1>0, <1>2 DEF IntakeTypeOK
      <4>3. EventRow(Verified(p)) = EventRow(TRUE)
        BY <3>1 DEF EventRow
      <4> QED BY <4>1, <4>2, <4>3
    <3>2. CASE ~Verified(p)
      BY <1>0, <1>2, <3>2, AnswerClaims
    <3> QED BY <3>1, <3>2
  <2>5. EventRow(TRUE).status = "received" /\ EventRow(TRUE).valid
    BY DEF EventRow
  <2>6. ASSUME NEW q \in Processes, NEW v \in Webhooks, Holds(q, v)'
        PROVE  /\ runs'[v] = 0 /\ events'[v].status = "received" /\ events'[v].valid
               /\ \A x \in Processes : Holds(x, v)' => x = q
    <3>1. CASE q = p
      BY <1>0, <2>2, <2>4, <2>5, <2>6, <3>1, OthersClaim
    <3>2. CASE q # p
      <4>1. Holds(q, v)
        BY <1>0, <2>6, <3>2, OthersClaim
      <4>2. v # w
        BY <2>2, <4>1
      <4>3. \A x \in Processes : Holds(x, v)' => Holds(x, v)
        BY <1>0, <2>4, <4>2, OthersClaim
      <4> QED BY <1>0, <2>1, <4>1, <4>2, <4>3 DEF IntakeInv, HolderInv
    <3> QED BY <3>1, <3>2
  <2>7. RunInv'
    BY <1>0, <2>1, <2>2 DEF IntakeInv, RunInv
  <2>8. AnswerInv'
    BY <1>0, <2>3, OthersClaim DEF IntakeInv, AnswerInv
  <2> QED BY <2>6, <2>7, <2>8 DEF HolderInv
<1> QED BY <1>1, <1>2 DEF Store

(* The second commit: the handler that holds the webhook is the only one,  *)
(* so the run is its first.                                                *)
LEMMA ProcessKeeps ==
  ASSUME IntakeInv, NEW p \in Processes, RefuseTopic(p) \/ Process(p)
  PROVE  HolderInv' /\ RunInv' /\ AnswerInv'
<1>0. IntakeTypeOK /\ HandlerStep(p) /\ UNCHANGED <<told, spent>>
  BY DEF IntakeInv, HandlerStep, RefuseTopic, Process
<1>1. CASE UNCHANGED <<events, runs>> /\ Answer(p, "error")
  BY <1>0, <1>1, AnswerClaims, IdleClaims
<1>2. ASSUME NEW w \in Webhooks, Stored(p, w), ~local[p].gone,
             \/ /\ events' = [events EXCEPT ![w].status = "rejected"]
                /\ Answer(p, "refused") /\ UNCHANGED runs
             \/ /\ w \in AllowedTopic /\ runs' = [runs EXCEPT ![w] = @ + 1]
                /\ events' = [events EXCEPT ![w].status = "processed"]
                /\ Answer(p, "accepted")
      PROVE  HolderInv' /\ RunInv' /\ AnswerInv'
  <2>1. Holds(p, w)
    BY <1>2 DEF Stored, Holds
  <2>2. runs[w] = 0 /\ events[w].valid /\ \A q \in Processes : Holds(q, w) => q = p
    BY <2>1 DEF IntakeInv, HolderInv
  <2>3. \A v \in Webhooks : v # w => events'[v] = events[v] /\ runs'[v] = runs[v]
    BY <1>0, <1>2 DEF IntakeTypeOK
  <2>4. \A v : ~Holds(p, v)'
    BY <1>0, <1>2, AnswerClaims
  <2>5. ASSUME NEW q \in Processes, NEW v \in Webhooks, Holds(q, v)'
        PROVE  q # p /\ v # w /\ Holds(q, v)
    BY <1>0, <2>2, <2>4, <2>5, OthersClaim
  <2>6. HolderInv'
    BY <2>3, <2>5 DEF IntakeInv, HolderInv
  <2>7. CASE UNCHANGED runs /\ Answer(p, "refused")
    <3>1. RunInv'
      BY <2>2, <2>3, <2>7 DEF IntakeInv, RunInv
    <3>2. \A v : ~Promises(p, v)'
      BY <1>0, <2>7, AnswerClaims
    <3>3. AnswerInv'
      BY <1>0, <2>7, <3>2, OthersClaim DEF IntakeInv, AnswerInv
    <3> QED BY <2>6, <3>1, <3>3
  <2>8. CASE /\ w \in AllowedTopic /\ runs' = [runs EXCEPT ![w] = @ + 1]
             /\ events' = [events EXCEPT ![w].status = "processed"]
             /\ Answer(p, "accepted")
    <3>1. runs'[w] = 1
      BY <1>0, <2>2, <2>8 DEF IntakeTypeOK
    <3>2. events'[w].status = "processed" /\ events'[w].valid
      <4>1. events[w] \in EventType
        BY <1>0 DEF IntakeTypeOK, EventType
      <4>2. events'[w] = [events[w] EXCEPT !.status = "processed"]
        BY <1>0, <2>8 DEF IntakeTypeOK
      <4> QED BY <2>2, <4>1, <4>2 DEF EventType
    <3>3. RunInv'
      BY <2>3, <2>8, <3>1, <3>2 DEF IntakeInv, RunInv
    <3>4. \A v : Promises(p, v)' => v = w
      BY <1>0, <1>2, <2>8, AnswerClaims DEF Stored
    <3>5. AnswerInv'
      BY <1>0, <2>3, <3>1, <3>4, OthersClaim DEF IntakeInv, AnswerInv
    <3> QED BY <2>6, <3>3, <3>5
  <2> QED BY <1>2, <2>7, <2>8
<1> QED BY <1>1, <1>2, WebhooksAssumption DEF RefuseTopic, Process, RowLost

(* Where the handler begins and ends; a restart; a reset.                  *)
LEMMA RestKeeps ==
  ASSUME IntakeInv, NEW p \in Processes,
         \/ \E w \in Webhooks, intact \in BOOLEAN : Receive(p, w, intact)
         \/ Reply(p) \/ ProcessCrash(p) \/ Configure(p)
  PROVE  HolderInv' /\ RunInv' /\ AnswerInv'
<1>0. /\ IntakeTypeOK /\ HandlerStep(p) /\ UNCHANGED <<events, runs>>
      /\ spent'.resets = spent.resets
  BY DEF IntakeInv, HandlerStep, Receive, Reply, ProcessCrash, Configure, IntakeTypeOK
<1>1. ASSUME NEW w \in Webhooks, NEW intact \in BOOLEAN, Receive(p, w, intact)
      PROVE  HolderInv' /\ RunInv' /\ AnswerInv'
  <2> DEFINE known == IF events[w] = NoEvent THEN "none" ELSE "duplicate"
             l == [NoHandler EXCEPT !.webhook = w, !.intact = intact, !.answer = known]
  <2>1. local'[p] = l /\ pc'[p] \in {"store", "reply"} /\ UNCHANGED told
    BY <1>0, <1>1 DEF Receive, IntakeTypeOK
  <2>2. l.answer # "accepted"
    BY DEF NoHandler
  <2>3. \A v : ~Holds(p, v)' /\ ~Promises(p, v)'
    BY <2>1, <2>2 DEF Holds, Promises
  <2> QED BY <1>0, <2>1, <2>3, IdleClaims
<1>2. CASE ProcessCrash(p) \/ Configure(p)
  <2>1. pc'[p] = "idle" /\ UNCHANGED told
    BY <1>0, <1>2 DEF ProcessCrash, Configure, IntakeTypeOK
  <2> QED BY <1>0, <2>1, IdleClaims DEF Holds, Promises
<1>3. CASE Reply(p)
  <2>1. pc'[p] = "idle"
    BY <1>0, <1>3 DEF Reply, IntakeTypeOK
  <2>2. \A v : ~Holds(p, v)' /\ ~Promises(p, v)'
    BY <2>1 DEF Holds, Promises
  <2>3. HolderInv' /\ RunInv'
    BY <1>0, <2>2, OthersClaim DEF IntakeInv, HolderInv, RunInv
  <2>4. \A v \in Webhooks :
          told'[v] = "accepted" => told[v] = "accepted" \/ Promises(p, v)
    BY <1>0, <1>3 DEF Reply, IntakeTypeOK, Promises
  <2>5. AnswerInv'
    BY <1>0, <2>2, <2>4, OthersClaim DEF IntakeInv, AnswerInv
  <2> QED BY <2>3, <2>5
<1> QED BY <1>1, <1>2, <1>3

(* A reset leaves no run, and no handler whose row is still there.         *)
LEMMA ResetKeeps ==
  ASSUME IntakeInv, DemoReset PROVE HolderInv' /\ RunInv' /\ AnswerInv'
<1>0. IntakeTypeOK
  BY DEF IntakeInv
<1>1. \A p \in Processes : \A w : ~Holds(p, w)'
  <2> TAKE p \in Processes
  <2>1. local[p] \in HandlerType
    BY <1>0 DEF IntakeTypeOK, HandlerType
  <2>2. local'[p].gone = (pc[p] = "stored") /\ pc'[p] = pc[p]
    BY <2>1 DEF DemoReset, HandlerType
  <2> QED BY <2>2 DEF Holds
<1>2. \A w \in Webhooks : runs'[w] = 0
  BY DEF DemoReset
<1>3. spent'.resets # 0
  BY <1>0 DEF DemoReset, IntakeTypeOK
<1> QED BY <1>1, <1>2, <1>3 DEF HolderInv, RunInv, AnswerInv

(* Every step keeps the invariant.                                         *)
LEMMA IntakeInvStep == IntakeInv /\ [IntakeNext]_intakeVars => IntakeInv'
<1> SUFFICES ASSUME IntakeInv, [IntakeNext]_intakeVars PROVE IntakeInv'
  OBVIOUS
<1>1. IntakeTypeOK'
  BY IntakeTypeStep DEF IntakeInv
<1>2. HolderInv' /\ RunInv' /\ AnswerInv'
  <2>1. ASSUME NEW p \in Processes, HandlerStep(p)
        PROVE  HolderInv' /\ RunInv' /\ AnswerInv'
    BY <2>1, StoreKeeps, ProcessKeeps, RestKeeps DEF HandlerStep
  <2>2. CASE UNCHANGED intakeVars
    BY <2>2
    DEF intakeVars, IntakeInv, HolderInv, RunInv, AnswerInv, Holds, Promises
  <2> QED BY <2>1, <2>2, ResetKeeps DEF IntakeNext
<1> QED BY <1>1, <1>2 DEF IntakeInv

(* A delivery that is repeated, by any number of processes at the same     *)
(* time, becomes at most one run (shopify_webhook, the unique key).        *)
THEOREM OneRun == IntakeSpec => []OneRunPerWebhook
<1>1. IntakeInv => OneRunPerWebhook
  BY DEF IntakeInv, RunInv, OneRunPerWebhook
<1> QED BY <1>1, IntakeInvInit, IntakeInvStep, PTL DEF IntakeSpec

(* Only a delivery whose signature was verified, of an accepted topic,     *)
(* becomes a run (shopify_webhook).                                        *)
THEOREM RunsAreGenuine == IntakeSpec => []OnlyVerifiedRuns
<1>1. IntakeInv => OnlyVerifiedRuns
  BY DEF IntakeInv, RunInv, OnlyVerifiedRuns
<1> QED BY <1>1, IntakeInvInit, IntakeInvStep, PTL DEF IntakeSpec

(* The sender is told "accepted" only of a run that is committed.          *)
THEOREM AcceptedIsCommitted == IntakeSpec => []AcceptedHasRun
<1>1. IntakeInv => AcceptedHasRun
  <2> SUFFICES ASSUME IntakeInv PROVE AcceptedHasRun
    OBVIOUS
  <2>1. spent.resets \in Nat
    BY IntakeBounds DEF IntakeInv, IntakeTypeOK
  <2> QED BY <2>1 DEF IntakeInv, AnswerInv, AcceptedHasRun
<1> QED BY <1>1, IntakeInvInit, IntakeInvStep, PTL DEF IntakeSpec

(* Every variable of the intake keeps its type.                            *)
THEOREM IntakeTypeCorrect == IntakeSpec => []IntakeTypeOK
BY IntakeTypeInit, IntakeTypeStep, PTL DEF IntakeSpec

-----------------------------------------------------------------------------
(* An event that was received has a handler that still holds its row,      *)
(* unless a process died; and who has not stored a row cannot lose it.     *)

PeaceInv ==
  /\ \A p \in Processes : pc[p] = "store" => ~local[p].gone
  /\ \A w \in Webhooks :
       events[w].status = "received"
       => w \notin WellFormed \/ spent.crashes > 0 \/ \E p \in Processes : Holds(p, w)

(* A handler that holds a well-formed webhook settles its event, or dies.  *)
LEMMA HolderSettles ==
  ASSUME IntakeTypeOK, NEW p \in Processes, NEW w \in WellFormed, Holds(p, w), HandlerStep(p)
  PROVE  spent'.crashes > 0 \/ events'[w].status # "received"
<1>0. w \in Webhooks /\ pc[p] = "stored" /\ ~local[p].gone /\ local[p].webhook = w
  BY WebhooksAssumption DEF Holds
<1>1. CASE ProcessCrash(p)
  <2>1. spent.crashes \in Nat /\ spent'.crashes = spent.crashes + 1
    BY <1>1, IntakeBounds DEF ProcessCrash, IntakeTypeOK
  <2> QED BY <2>1
<1>2. CASE RefuseTopic(p) \/ Process(p)
  <2>1. events' = [events EXCEPT ![w].status = "rejected"]
        \/ events' = [events EXCEPT ![w].status = "processed"]
    BY <1>0, <1>2 DEF RefuseTopic, Process, Stored, RowLost
  <2> QED BY <1>0, <2>1 DEF IntakeTypeOK
<1> QED BY <1>0, <1>1, <1>2 DEF HandlerStep, Receive, Store, Reply, Configure

(* An event becomes received in the first commit only, and its handler     *)
(* holds it.                                                               *)
LEMMA ReceivedIsHeld ==
  ASSUME IntakeTypeOK, PeaceInv, NEW p \in Processes, HandlerStep(p), NEW w \in Webhooks,
         events'[w] # events[w], events'[w].status = "received"
  PROVE  Holds(p, w)'
<1>1. CASE Store(p)
  <2>1. events' = [events EXCEPT ![local[p].webhook] = EventRow(Verified(p))]
    BY <1>1 DEF Store
  <2>2. w = local[p].webhook /\ events'[w] = EventRow(Verified(p))
    BY <2>1 DEF IntakeTypeOK
  <2>3. events[w] = NoEvent /\ Verified(p)
    BY <1>1, <2>2 DEF Store, EventRow
  <2>4. pc' = [pc EXCEPT ![p] = "stored"] /\ local' = local
    BY <1>1, <2>2, <2>3 DEF Store
  <2> QED BY <1>1, <2>2, <2>4 DEF Store, PeaceInv, Holds, IntakeTypeOK
<1>2. CASE RefuseTopic(p) \/ Process(p)
  <2>1. PICK v \in Webhooks : \/ events' = [events EXCEPT ![v].status = "rejected"]
                             \/ events' = [events EXCEPT ![v].status = "processed"]
                             \/ events' = events
    BY <1>2, WebhooksAssumption DEF RefuseTopic, Process, RowLost
  <2> QED BY <2>1 DEF IntakeTypeOK
<1>3. CASE UNCHANGED events
  BY <1>3
<1> QED BY <1>1, <1>2, <1>3 DEF HandlerStep, Receive, Reply, ProcessCrash, Configure

(* Every step leaves a received event with its handler.                    *)
LEMMA PeaceStep == IntakeTypeOK /\ PeaceInv /\ [IntakeNext]_intakeVars => PeaceInv'
<1> SUFFICES ASSUME IntakeTypeOK, PeaceInv, [IntakeNext]_intakeVars PROVE PeaceInv'
  OBVIOUS
<1>0. spent.crashes \in Nat
  BY IntakeBounds DEF IntakeTypeOK
<1>1. ASSUME NEW p \in Processes, HandlerStep(p) PROVE PeaceInv'
  <2>1. \A q \in Processes : pc'[q] = "store" => ~local'[q].gone
    <3>1. \A q \in Processes \ {p} : pc'[q] = "store" => ~local'[q].gone
      BY <1>1, OtherHandlersRest DEF PeaceInv
    <3>2. pc'[p] = "store" => ~local'[p].gone
      <4>1. CASE \E w \in Webhooks, intact \in BOOLEAN : Receive(p, w, intact)
        BY <4>1 DEF Receive, NoHandler, IntakeTypeOK
      <4>2. CASE ~\E w \in Webhooks, intact \in BOOLEAN : Receive(p, w, intact)
        <5>1. pc'[p] # "store" \/ (pc'[p] = pc[p] /\ local' = local)
          BY <1>1, <4>2
          DEF HandlerStep, Store, RefuseTopic, Process, RowLost, Answer, Reply, ProcessCrash,
              Configure, IntakeTypeOK
        <5> QED BY <5>1 DEF PeaceInv
      <4> QED BY <4>1, <4>2
    <3> QED BY <3>1, <3>2
  <2>2. ASSUME NEW w \in WellFormed, events'[w].status = "received", ~(spent'.crashes > 0)
        PROVE  \E q \in Processes : Holds(q, w)'
    <3>0. w \in Webhooks
      BY WebhooksAssumption
    <3>1. CASE events'[w] # events[w]
      BY <1>1, <2>2, <3>0, <3>1, ReceivedIsHeld
    <3>2. CASE events'[w] = events[w]
      <4>1. ~(spent.crashes > 0)
        <5>1. CASE ProcessCrash(p)
          <6>1. spent'.crashes = spent.crashes + 1
            BY <5>1 DEF ProcessCrash, IntakeTypeOK
          <6> QED BY <1>0, <2>2, <6>1
        <5>2. CASE ~ProcessCrash(p)
          <6>1. spent' = spent
            BY <1>1, <5>2
            DEF HandlerStep, Receive, Store, RefuseTopic, Process, Reply, Configure
          <6> QED BY <2>2, <6>1
        <5> QED BY <5>1, <5>2
      <4>2. PICK q \in Processes : Holds(q, w)
        BY <2>2, <3>0, <3>2, <4>1 DEF PeaceInv
      <4>3. q # p
        BY <1>1, <2>2, <4>2, HolderSettles
      <4> QED BY <1>1, <4>2, <4>3, OthersClaim
    <3> QED BY <3>1, <3>2
  <2> QED BY <2>1, <2>2 DEF PeaceInv
<1>2. CASE DemoReset
  <2>1. \A w \in Webhooks : events'[w].status = "none"
    BY <1>2 DEF DemoReset, NoEvent
  <2>2. \A p \in Processes : pc'[p] = "store" => ~local'[p].gone
    BY <1>2 DEF DemoReset, IntakeTypeOK
  <2> QED BY <2>1, <2>2 DEF PeaceInv
<1>3. CASE UNCHANGED intakeVars
  BY <1>3 DEF intakeVars, PeaceInv, Holds
<1> QED BY <1>1, <1>2, <1>3 DEF IntakeNext

(* While no process dies, a received event that can be normalized is on    *)
(* its way to a run: no interleaving of handlers and resets strands it.    *)
THEOREM NothingLost == IntakeSpec => []NothingLostInPeace
<1>1. IntakeInit => PeaceInv
  BY DEF IntakeInit, PeaceInv, NoEvent
<1>2. PeaceInv => NothingLostInPeace
  BY DEF PeaceInv, NothingLostInPeace, Holds
<1> QED BY <1>1, <1>2, IntakeTypeCorrect, PeaceStep, PTL DEF IntakeSpec

-----------------------------------------------------------------------------
(* The handler implements Inbox.                                           *)

(* Nothing has been decided before the first delivery.                     *)
LEMMA InitInbox == IntakeInit => Box!InboxInit
BY DEF IntakeInit, NoEvent, Fate, Box!InboxInit, Box!Undecided

(* The fate of a webhook that has at most one run, before and after a step.*)
LEMMA FateIs ==
  /\ \A w \in Webhooks :
       /\ runs[w] = 1 => Fate[w] = "taken"
       /\ runs[w] = 0 => Fate[w] = IF events[w].status = "rejected" THEN "refused" ELSE "open"
  /\ \A w \in Webhooks :
       /\ runs'[w] = 1 => Fate'[w] = "taken"
       /\ runs'[w] = 0 => Fate'[w] = IF events'[w].status = "rejected" THEN "refused" ELSE "open"
<1> SUFFICES ASSUME NEW w \in Webhooks
             PROVE  /\ runs[w] = 1 => Fate[w] = "taken"
                    /\ runs[w] = 0
                       => Fate[w] = IF events[w].status = "rejected" THEN "refused" ELSE "open"
                    /\ runs'[w] = 1 => Fate'[w] = "taken"
                    /\ runs'[w] = 0
                       => Fate'[w] = IF events'[w].status = "rejected" THEN "refused" ELSE "open"
  OBVIOUS
<1>1. runs[w] = 1 => Fate[w] = "taken"
  BY DEF Fate
<1>2. runs[w] = 0 => Fate[w] = IF events[w].status = "rejected" THEN "refused" ELSE "open"
  BY DEF Fate
<1>3. runs'[w] = 1 => Fate'[w] = "taken"
  BY DEF Fate
<1>4. runs'[w] = 0 => Fate'[w] = IF events'[w].status = "rejected" THEN "refused" ELSE "open"
  BY DEF Fate
<1> QED BY <1>1, <1>2, <1>3, <1>4

(* A commit that touches one webhook's event and runs.                     *)
LEMMA FatesRest ==
  ASSUME IntakeTypeOK, NEW w \in Webhooks,
         \A v \in Webhooks \ {w} : events'[v] = events[v] /\ runs'[v] = runs[v]
  PROVE  Fate' = [Fate EXCEPT ![w] = Fate'[w]]
<1>1. ASSUME NEW v \in Webhooks, v # w PROVE Fate'[v] = Fate[v]
  <2>1. events'[v] = events[v] /\ runs'[v] = runs[v]
    BY <1>1
  <2> QED BY <2>1 DEF Fate
<1>2. /\ Fate = [v \in Webhooks |-> Fate[v]]
      /\ Fate' = [v \in Webhooks |-> Fate'[v]]
  BY DEF Fate
<1> QED BY <1>1, <1>2

(* The first commit refuses, or leaves the webhook open: its run is still  *)
(* ahead.                                                                  *)
LEMMA StoreSettles ==
  ASSUME IntakeInv, NEW p \in Processes, Store(p)
  PROVE  [Box!InboxNext]_(Box!inboxVars)
<1> DEFINE w == local[p].webhook
<1>0. IntakeTypeOK /\ UNCHANGED <<runs, told, spent>>
  BY DEF IntakeInv, Store
<1>1. CASE UNCHANGED events
  BY <1>0, <1>1 DEF Box!inboxVars, Fate
<1>2. CASE w \in Webhooks /\ events[w] = NoEvent
           /\ events' = [events EXCEPT ![w] = EventRow(Verified(p))]
  <2>1. runs[w] = 0 /\ Fate[w] = "open"
    <3>1. events[w].status = "none"
      BY <1>2 DEF NoEvent
    <3>2. runs[w] = 0
      BY <1>2, <3>1 DEF IntakeInv, RunInv
    <3> QED BY <1>2, <3>1, <3>2, FateIs
  <2>2. events'[w].status \in {"received", "rejected"}
    BY <1>0, <1>2 DEF EventRow, IntakeTypeOK
  <2>3. Fate'[w] \in {"open", "refused"}
    BY <1>0, <1>2, <2>1, FateIs
  <2>4. Fate' = [Fate EXCEPT ![w] = Fate'[w]]
    BY <1>0, <1>2, FatesRest DEF IntakeTypeOK
  <2>5. CASE Fate'[w] = "open"
    <3>1. Fate' = Fate
      <4>1. Fate = [v \in Webhooks |-> Fate[v]]
        BY DEF Fate
      <4> QED BY <1>2, <2>1, <2>4, <2>5, <4>1
    <3> QED BY <1>0, <3>1 DEF Box!inboxVars
  <2>6. CASE Fate'[w] = "refused"
    <3>1. Box!Refuse(w)
      BY <1>0, <1>2, <2>1, <2>4, <2>6 DEF Box!Refuse, Box!Settle
    <3> QED BY <1>2, <3>1 DEF Box!InboxNext
  <2> QED BY <2>3, <2>5, <2>6
<1>3. w \notin Webhooks => UNCHANGED events
  BY <1>0 DEF Store, IntakeTypeOK
<1> QED BY <1>1, <1>2, <1>3 DEF Store

(* The second commit refuses the topic or takes the webhook in, if its row *)
(* is still there.                                                         *)
LEMMA ProcessSettles ==
  ASSUME IntakeInv, NEW p \in Processes, RefuseTopic(p) \/ Process(p)
  PROVE  [Box!InboxNext]_(Box!inboxVars)
<1>0. IntakeTypeOK /\ UNCHANGED <<told, spent>>
  BY DEF IntakeInv, RefuseTopic, Process
<1>1. CASE UNCHANGED <<events, runs>>
  BY <1>0, <1>1 DEF Box!inboxVars, Fate
<1>2. ASSUME NEW w \in Webhooks \ AllowedTopic, Stored(p, w), ~local[p].gone,
             events' = [events EXCEPT ![w].status = "rejected"], UNCHANGED runs
      PROVE  Box!Refuse(w)
  <2>1. runs[w] = 0 /\ events[w].status = "received"
    BY <1>2 DEF IntakeInv, HolderInv, Holds, Stored
  <2>2. events'[w].status = "rejected" /\ Fate[w] = "open" /\ Fate'[w] = "refused"
    BY <1>0, <1>2, <2>1 DEF IntakeTypeOK, Fate
  <2>3. Fate' = [Fate EXCEPT ![w] = Fate'[w]]
    BY <1>0, <1>2, FatesRest DEF IntakeTypeOK
  <2> QED BY <1>0, <2>2, <2>3 DEF Box!Refuse, Box!Settle
<1>3. ASSUME NEW w \in AllowedTopic, Stored(p, w), w \in WellFormed, ~local[p].gone,
             runs' = [runs EXCEPT ![w] = @ + 1],
             events' = [events EXCEPT ![w].status = "processed"]
      PROVE  w \in Webhooks /\ Box!TakeIn(w)
  <2>0. w \in Webhooks
    BY WebhooksAssumption
  <2>1. runs[w] = 0 /\ events[w].status = "received"
    BY <1>3, <2>0 DEF IntakeInv, HolderInv, Holds, Stored
  <2>2. runs'[w] = 1 /\ Fate[w] = "open" /\ Fate'[w] = "taken"
    BY <1>0, <1>3, <2>0, <2>1 DEF IntakeTypeOK, Fate
  <2>3. Fate' = [Fate EXCEPT ![w] = Fate'[w]]
    BY <1>0, <1>3, <2>0, FatesRest DEF IntakeTypeOK
  <2> QED BY <1>0, <1>3, <2>0, <2>2, <2>3 DEF Box!TakeIn, Box!Settle
<1>4. CASE RefuseTopic(p)
  BY <1>1, <1>2, <1>4 DEF RefuseTopic, RowLost, Box!InboxNext
<1>5. CASE Process(p)
  BY <1>1, <1>3, <1>5 DEF Process, RowLost, Box!InboxNext
<1> QED BY <1>4, <1>5

(* Whoever replies has an answer.                                          *)
AnswerReady == \A p \in Processes : pc[p] = "reply" => local[p].answer # "none"

(* Every way to the reply gives one.                                       *)
LEMMA StepReady == IntakeTypeOK /\ AnswerReady /\ [IntakeNext]_intakeVars => AnswerReady'
<1> SUFFICES ASSUME IntakeTypeOK, AnswerReady, [IntakeNext]_intakeVars PROVE AnswerReady'
  OBVIOUS
<1>1. ASSUME NEW p \in Processes, HandlerStep(p) PROVE AnswerReady'
  <2>1. local[p] \in HandlerType
    BY <1>1 DEF IntakeTypeOK, HandlerType
  <2>2. \A answer : Answer(p, answer) => local'[p].answer = answer
    BY <2>1 DEF Answer, IntakeTypeOK, HandlerType
  <2>3. CASE \E w \in Webhooks, intact \in BOOLEAN : Receive(p, w, intact)
    <3>1. pc'[p] = "reply" => local'[p].answer = "duplicate"
      BY <2>3 DEF Receive, IntakeTypeOK, NoHandler
    <3> QED BY <1>1, <3>1, OtherHandlersRest DEF AnswerReady
  <2>4. CASE Store(p) \/ RefuseTopic(p) \/ Process(p)
    <3>1. pc'[p] = "reply" => local'[p].answer # "none"
      BY <2>2, <2>4 DEF Store, RefuseTopic, Process, RowLost, IntakeTypeOK
    <3> QED BY <1>1, <3>1, OtherHandlersRest DEF AnswerReady
  <2>5. CASE Reply(p) \/ ProcessCrash(p) \/ Configure(p)
    <3>1. pc'[p] # "reply"
      BY <2>5 DEF Reply, ProcessCrash, Configure, IntakeTypeOK
    <3> QED BY <1>1, <3>1, OtherHandlersRest DEF AnswerReady
  <2> QED BY <1>1, <2>3, <2>4, <2>5 DEF HandlerStep
<1>2. CASE DemoReset
  BY <1>2 DEF DemoReset, AnswerReady, IntakeTypeOK
<1>3. CASE UNCHANGED intakeVars
  BY <1>3 DEF intakeVars, AnswerReady
<1> QED BY <1>1, <1>2, <1>3 DEF IntakeNext

(* An answer that arrives is one the inbox may give.                       *)
LEMMA ReplyTells ==
  ASSUME IntakeInv, AnswerReady, NEW p \in Processes, Reply(p)
  PROVE  [Box!InboxNext]_(Box!inboxVars)
<1> DEFINE w == local[p].webhook
           answer == local[p].answer
<1>0. IntakeTypeOK /\ UNCHANGED <<events, runs, spent>> /\ pc[p] = "reply"
  BY DEF IntakeInv, Reply
<1>1. CASE UNCHANGED told
  BY <1>0, <1>1 DEF Box!inboxVars, Fate
<1>2. CASE ~UNCHANGED told
  <2>1. told' = [told EXCEPT ![w] = answer] /\ w \in Webhooks
    BY <1>0, <1>2 DEF Reply, IntakeTypeOK
  <2>2. spent.resets \in Nat
    BY <1>0, IntakeBounds DEF IntakeTypeOK
  <2>3. answer = "accepted" => Fate[w] = "taken" \/ spent.resets > 0
    <3>1. answer = "accepted" /\ spent.resets = 0 => runs[w] = 1
      BY <1>0, <2>1 DEF IntakeInv, AnswerInv, Promises
    <3> QED BY <2>1, <2>2, <3>1, FateIs
  <2>4. answer \in Success \union {"refused", "error"}
    BY <1>0 DEF AnswerReady, IntakeTypeOK
  <2>5. Fate' = Fate
    BY <1>0 DEF Fate
  <2>6. Box!Tell(w, answer)
    BY <1>0, <2>1, <2>3, <2>5 DEF Box!Tell
  <2> QED BY <2>1, <2>4, <2>6 DEF Box!InboxNext
<1> QED BY <1>1, <1>2

(* Every step of the handlers, the processes and the reset is a step of    *)
(* the inbox, or none.                                                     *)
LEMMA StepInbox ==
  IntakeInv /\ AnswerReady /\ [IntakeNext]_intakeVars => [Box!InboxNext]_(Box!inboxVars)
<1> SUFFICES ASSUME IntakeInv, AnswerReady, [IntakeNext]_intakeVars PROVE [Box!InboxNext]_(Box!inboxVars)
  OBVIOUS
<1>1. ASSUME NEW p \in Processes, HandlerStep(p) PROVE [Box!InboxNext]_(Box!inboxVars)
  <2>1. CASE UNCHANGED <<events, runs, told, spent.resets>>
    BY <2>1 DEF Box!inboxVars, Fate
  <2>2. CASE Store(p) \/ RefuseTopic(p) \/ Process(p) \/ Reply(p)
    BY <2>2, StoreSettles, ProcessSettles, ReplyTells
  <2>3. ASSUME ~Store(p), ~RefuseTopic(p), ~Process(p), ~Reply(p)
        PROVE  UNCHANGED <<events, runs, told, spent.resets>>
    BY <1>1, <2>3 DEF HandlerStep, Receive, ProcessCrash, Configure, IntakeInv, IntakeTypeOK
  <2> QED BY <2>1, <2>2, <2>3
<1>2. CASE DemoReset
  <2>1. Fate' = [v \in Webhooks |-> "open"]
    BY <1>2 DEF DemoReset, NoEvent, Fate
  <2>2. spent'.resets = spent.resets + 1 /\ UNCHANGED told
    BY <1>2 DEF DemoReset, IntakeInv, IntakeTypeOK
  <2> QED BY <2>1, <2>2 DEF Box!InboxNext, Box!Forget, Box!Undecided
<1>3. CASE UNCHANGED intakeVars
  BY <1>3 DEF intakeVars, Box!inboxVars, Fate
<1> QED BY <1>1, <1>2, <1>3 DEF IntakeNext

(* The handler keeps the promise of Inbox in any number of processes: its  *)
(* two commits, the unique key between them and the answers that get lost  *)
(* look like one decision to whoever sends the webhook.                    *)
THEOREM InboxKept == IntakeSpec => KeepsInbox
<1>1. IntakeInit => AnswerReady
  BY DEF IntakeInit, AnswerReady
<1>2. IntakeInv => IntakeTypeOK
  BY DEF IntakeInv
<1> QED
  BY <1>1, <1>2, IntakeInvInit, IntakeInvStep, StepReady, InitInbox, StepInbox, PTL
  DEF IntakeSpec, KeepsInbox, Box!InboxSpec
=============================================================================
