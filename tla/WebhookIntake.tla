--------------------------- MODULE WebhookIntake ---------------------------
(***************************************************************************)
(* How a Shopify webhook becomes a run: shopify_webhook, in any number of  *)
(* API processes over one database, and a sender that repeats a delivery   *)
(* until it is answered with success.                                      *)
(*                                                                         *)
(* A webhook stands for its idempotency key: the delivery id or, without   *)
(* one, the hash of the body.  In one process a handler runs from the body *)
(* it has awaited to its end; another process, or the death of its own,    *)
(* comes between two of its commits.                                       *)
(***************************************************************************)
EXTENDS Naturals

CONSTANTS
  Processes,
  Webhooks,
  None,
  AllowedTopic,   \* the webhooks whose topic Comgu accepts
  WellFormed,     \* the webhooks whose payload normalize understands
  MaxCrashes,     \* bound: process crashes
  MaxResets       \* bound: demo resets

ASSUME WebhooksAssumption ==
  /\ None \notin Webhooks
  /\ AllowedTopic \subseteq Webhooks /\ WellFormed \subseteq Webhooks
ASSUME IntakeBounds == MaxCrashes \in Nat /\ MaxResets \in Nat

VARIABLES
  events,   \* webhook_events: the row of each webhook's key
  runs,     \* how many runs a webhook has
  secret,   \* the processes that have SHOPIFY_WEBHOOK_SECRET set
  pc,       \* where a process's handler is
  local,    \* what it handles
  told,     \* the last answer the sender got for a webhook
  spent     \* crashes and resets so far

intakeVars == <<events, runs, secret, pc, local, told, spent>>

NoEvent == [status |-> "none", valid |-> FALSE]

(* webhook: what is handled; intact: the signature fits the bytes; gone: a *)
(* reset has deleted the row that the handler stored; answer: see Reply.   *)
NoHandler == [webhook |-> None, intact |-> FALSE, gone |-> FALSE, answer |-> "none"]

IntakeInit ==
  /\ events = [w \in Webhooks |-> NoEvent]
  /\ runs = [w \in Webhooks |-> 0]
  /\ secret \in SUBSET Processes
  /\ pc = [p \in Processes |-> "idle"]
  /\ local = [p \in Processes |-> NoHandler]
  /\ told = [w \in Webhooks |-> "none"]
  /\ spent = [crashes |-> 0, resets |-> 0]

Success == {"accepted", "duplicate"}

Answer(p, answer) ==
  /\ pc' = [pc EXCEPT ![p] = "reply"]
  /\ local' = [local EXCEPT ![p].answer = answer]

(* A delivery arrives, perhaps not as it was signed, and the handler looks *)
(* for the key.  The sender repeats what was not answered with success, be *)
(* it that the first delivery is still being handled.                      *)
Receive(p, w, intact) ==
  /\ pc[p] = "idle" /\ told[w] \notin Success
  /\ local' = [local EXCEPT ![p] =
                 [NoHandler EXCEPT !.webhook = w, !.intact = intact,
                                   !.answer = IF events[w] = NoEvent THEN "none" ELSE "duplicate"]]
  /\ pc' = [pc EXCEPT ![p] = IF events[w] = NoEvent THEN "store" ELSE "reply"]
  /\ UNCHANGED <<events, runs, secret, told, spent>>

(* verify_hmac fails without a secret.                                     *)
Verified(p) == p \in secret /\ local[p].intact

EventRow(valid) == [status |-> IF valid THEN "received" ELSE "rejected", valid |-> valid]

(* A mutant of Store: idempotency_key is not unique.                       *)
StoresAnyway(p) ==
  /\ pc[p] = "store"
  /\ events' = [events EXCEPT ![local[p].webhook] = EventRow(Verified(p))]
  /\ IF Verified(p)
     THEN pc' = [pc EXCEPT ![p] = "stored"] /\ UNCHANGED local
     ELSE Answer(p, "refused")
  /\ UNCHANGED <<runs, secret, told, spent>>

(* A mutant of Store: a rejected delivery is recorded, and processed.      *)
ProcessesRejected(p) ==
  /\ pc[p] = "store"
  /\ LET w == local[p].webhook
     IN \/ events[w] # NoEvent /\ Answer(p, "error") /\ UNCHANGED events
        \/ /\ events[w] = NoEvent
           /\ events' = [events EXCEPT ![w] = EventRow(Verified(p))]
           /\ pc' = [pc EXCEPT ![p] = "stored"] /\ UNCHANGED local
  /\ UNCHANGED <<runs, secret, told, spent>>

(* The first commit: the event's row, whether the signature fits or not.   *)
(* A row that another process has committed meanwhile breaks the unique    *)
(* constraint on the key.                                                  *)
Store(p) ==
  /\ pc[p] = "store"
  /\ LET w == local[p].webhook
     IN \/ events[w] # NoEvent /\ Answer(p, "error") /\ UNCHANGED events
        \/ /\ events[w] = NoEvent
           /\ events' = [events EXCEPT ![w] = EventRow(Verified(p))]
           /\ IF Verified(p)
              THEN pc' = [pc EXCEPT ![p] = "stored"] /\ UNCHANGED local
              ELSE Answer(p, "refused")
  /\ UNCHANGED <<runs, secret, told, spent>>

(* What a handler does once it has stored the event: it raises when the    *)
(* row it goes on to update, or to refer to, has been deleted.             *)
Stored(p, w) == pc[p] = "stored" /\ local[p].webhook = w
RowLost(p) == local[p].gone /\ Answer(p, "error") /\ UNCHANGED <<events, runs>>

(* Mutants of RefuseTopic: the refusal is not committed; it has a status   *)
(* of its own.                                                             *)
RefusalUncommitted(p) ==
  /\ \E w \in Webhooks \ AllowedTopic :
       Stored(p, w) /\ Answer(p, "refused") /\ UNCHANGED <<events, runs>>
  /\ UNCHANGED <<secret, told, spent>>
RefusedStatus(p) ==
  /\ \E w \in Webhooks \ AllowedTopic :
       /\ Stored(p, w) /\ Answer(p, "refused")
       /\ events' = [events EXCEPT ![w].status = "refused"] /\ UNCHANGED runs
  /\ UNCHANGED <<secret, told, spent>>

RefuseTopic(p) ==
  /\ \E w \in Webhooks \ AllowedTopic :
       /\ Stored(p, w)
       /\ \/ RowLost(p)
          \/ /\ ~local[p].gone
             /\ events' = [events EXCEPT ![w].status = "rejected"]
             /\ Answer(p, "refused") /\ UNCHANGED runs
  /\ UNCHANGED <<secret, told, spent>>

(* The second commit: the normalized change, the run and the event's       *)
(* status.  A payload that normalize cannot read raises before it.         *)
Process(p) ==
  /\ \E w \in AllowedTopic :
       /\ Stored(p, w)
       /\ \/ RowLost(p)
          \/ w \notin WellFormed /\ Answer(p, "error") /\ UNCHANGED <<events, runs>>
          \/ /\ w \in WellFormed /\ ~local[p].gone
             /\ runs' = [runs EXCEPT ![w] = @ + 1]
             /\ events' = [events EXCEPT ![w].status = "processed"]
             /\ Answer(p, "accepted")
  /\ UNCHANGED <<secret, told, spent>>

(* The answer may be lost on its way.                                      *)
Reply(p) ==
  /\ pc[p] = "reply"
  /\ told' \in {told, [told EXCEPT ![local[p].webhook] = local[p].answer]}
  /\ pc' = [pc EXCEPT ![p] = "idle"]
  /\ local' = [local EXCEPT ![p] = NoHandler]
  /\ UNCHANGED <<events, runs, secret, spent>>

(* The process dies and comes back.                                        *)
ProcessCrash(p) ==
  /\ pc[p] # "idle" /\ spent.crashes < MaxCrashes
  /\ spent' = [spent EXCEPT !.crashes = @ + 1]
  /\ pc' = [pc EXCEPT ![p] = "idle"]
  /\ local' = [local EXCEPT ![p] = NoHandler]
  /\ UNCHANGED <<events, runs, secret, told>>

(* The process is restarted, at rest, with the secret set.                 *)
Configure(p) ==
  /\ pc[p] = "idle" /\ p \notin secret
  /\ secret' = secret \union {p}
  /\ UNCHANGED <<events, runs, pc, local, told, spent>>

(* demo_reset deletes every run and every event in one commit.             *)
DemoReset ==
  /\ spent.resets < MaxResets
  /\ spent' = [spent EXCEPT !.resets = @ + 1]
  /\ events' = [w \in Webhooks |-> NoEvent]
  /\ runs' = [w \in Webhooks |-> 0]
  /\ local' = [p \in Processes |-> [local[p] EXCEPT !.gone = (pc[p] = "stored")]]
  /\ UNCHANGED <<secret, pc, told>>

HandlerStep(p) ==
  \/ \E w \in Webhooks, intact \in BOOLEAN : Receive(p, w, intact)
  \/ Store(p) \/ RefuseTopic(p) \/ Process(p) \/ Reply(p)
  \/ ProcessCrash(p) \/ Configure(p)

IntakeNext == (\E p \in Processes : HandlerStep(p)) \/ DemoReset

IntakeSpec == IntakeInit /\ [][IntakeNext]_intakeVars

-----------------------------------------------------------------------------
IntakeTypeOK ==
  /\ events \in [Webhooks -> [status : {"none", "received", "rejected", "processed"},
                              valid : BOOLEAN]]
  /\ runs \in [Webhooks -> Nat]
  /\ secret \subseteq Processes
  /\ pc \in [Processes -> {"idle", "store", "stored", "reply"}]
  /\ local \in [Processes -> [webhook : Webhooks \union {None}, intact : BOOLEAN,
                              gone : BOOLEAN,
                              answer : Success \union {"none", "refused", "error"}]]
  /\ told \in [Webhooks -> Success \union {"none", "refused", "error"}]
  /\ spent \in [crashes : 0 .. MaxCrashes, resets : 0 .. MaxResets]

(* However often and wherever a delivery is repeated, it becomes at most   *)
(* one run.                                                                *)
OneRunPerWebhook == \A w \in Webhooks : runs[w] <= 1

(* A rejected signature is recorded and never reaches a run; nor does a    *)
(* topic that is not accepted.                                             *)
OnlyVerifiedRuns ==
  \A w \in Webhooks : runs[w] > 0 => events[w].valid /\ w \in AllowedTopic

(* What has become of a webhook, to who looks at its event and its runs.   *)
Fate ==
  [w \in Webhooks |->
    IF runs[w] = 0 THEN IF events[w].status = "rejected" THEN "refused" ELSE "open"
    ELSE IF runs[w] = 1 THEN "taken" ELSE "taken twice"]

Box == INSTANCE Inbox
  WITH Acceptable <- AllowedTopic \intersect WellFormed,
       Answers <- Success \union {"refused", "error"},
       fate <- Fate,
       forgotten <- spent.resets

(* In whatever processes a webhook's deliveries are handled and where one  *)
(* dies, it is taken in or refused once, by the second commit or by a      *)
(* first one that rejects the signature: the handler implements Inbox.     *)
KeepsInbox == Box!InboxSpec

(* The sender is told "accepted" only of a run that is committed: nothing  *)
(* but a reset takes it back.                                              *)
AcceptedHasRun ==
  \A w \in Webhooks : told[w] = "accepted" => runs[w] = 1 \/ spent.resets > 0

(* An event that was received is on its way to a run: only a payload that  *)
(* cannot be normalized, or a process that died between the two commits,   *)
(* leaves it there, where every repetition is answered as a duplicate.     *)
NothingLostInPeace ==
  \A w \in Webhooks :
    events[w].status = "received"
    => \/ w \notin WellFormed \/ spent.crashes > 0
       \/ \E p \in Processes : pc[p] = "stored" /\ local[p].webhook = w
=============================================================================
