------------------------------- MODULE Inbox -------------------------------
(***************************************************************************)
(* What the intake promises the sender of webhooks: each is taken in or    *)
(* refused at one moment and for good, only acceptable ones are taken in,  *)
(* and "accepted" is said only of one that was.  Only a reset, which is    *)
(* counted, forgets.                                                       *)
(***************************************************************************)
EXTENDS Naturals

CONSTANTS Webhooks, Acceptable, Answers

VARIABLES
  fate,       \* what has become of each webhook: open, taken or refused
  told,       \* what its sender was told last
  forgotten   \* how many resets there were

inboxVars == <<fate, told, forgotten>>

Undecided == [w \in Webhooks |-> "open"]

InboxInit == fate = Undecided /\ told = [w \in Webhooks |-> "none"] /\ forgotten = 0

Settle(w, outcome) ==
  /\ fate[w] = "open"
  /\ fate' = [fate EXCEPT ![w] = outcome]
  /\ UNCHANGED <<told, forgotten>>

TakeIn(w) == w \in Acceptable /\ Settle(w, "taken")

Refuse(w) == Settle(w, "refused")

Tell(w, answer) ==
  /\ answer = "accepted" => fate[w] = "taken" \/ forgotten > 0
  /\ told' = [told EXCEPT ![w] = answer]
  /\ UNCHANGED <<fate, forgotten>>

Forget == fate' = Undecided /\ forgotten' = forgotten + 1 /\ UNCHANGED told

InboxNext ==
  \/ \E w \in Webhooks : TakeIn(w) \/ Refuse(w) \/ \E answer \in Answers : Tell(w, answer)
  \/ Forget

InboxSpec == InboxInit /\ [][InboxNext]_inboxVars
=============================================================================
