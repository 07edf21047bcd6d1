---------------------------- MODULE WorkerSweep ----------------------------
(***************************************************************************)
(* The recovery workers over all runs: sweeps that take a limited number   *)
(* of runs, the oldest first, and resume them one after the other from     *)
(* what the sweep loaded when it began.                                    *)
(*                                                                         *)
(* RunLifecycle has one run step by step.  Here a run is ready (owed to a  *)
(* worker, in a status with an entry in the runner), stuck (owed, without  *)
(* one) or resting (over, or waiting for a person), and what a driver does *)
(* to it is one step.  Runs are numbered by created_at; they are where a   *)
(* deployment or the death of the API left them.                           *)
(***************************************************************************)
EXTENDS Naturals, FiniteSets

CONSTANTS
  Workers, None,
  Limit,      \* runs in a sweep: 20 in the code
  MaxRuns,    \* bound: how many runs there are
  MaxEvents   \* bound: decisions, exceptions and crashes of a worker

Runs == 1 .. MaxRuns

States == {"ready", "stuck", "resting"}

ASSUME SweepAssumption ==
  /\ None \notin Workers \cup [run : Runs, seen : States]
  /\ Limit \in Nat \ {0} /\ MaxRuns \in Nat /\ MaxEvents \in Nat

VARIABLES
  state,    \* per run: ready, stuck or resting
  lease,    \* ... none, fresh or stale: runs.locked_by and locked_at
  batch,    \* per worker: the candidates its sweep has not come to, as loaded
  current,  \* ... the candidate it has claimed
  driven,   \* ... whether it is done with it
  events    \* so far

worker == <<batch, current, driven>>
vars   == <<state, lease, worker, events>>

Init ==
  /\ state \in [Runs -> States]
  /\ lease = [r \in Runs |-> "none"]
  /\ batch = [w \in Workers |-> {}]
  /\ current = [w \in Workers |-> None]
  /\ driven = [w \in Workers |-> FALSE]
  /\ events = 0

Event == events < MaxEvents /\ events' = events + 1

-----------------------------------------------------------------------------
(* The API and its operators.                                              *)

(* A decision about a run, or a step of the task that still drives it.     *)
Decide(r) ==
  /\ Event
  /\ \E s \in States \ {state[r]} : state' = [state EXCEPT ![r] = s]
  /\ UNCHANGED <<lease, worker>>

-----------------------------------------------------------------------------
(* sweep_once                                                              *)

(* A mutant of Eligible: a lease that nobody gave back is for ever.        *)
Unleased(r) == state[r] \in {"ready", "stuck"} /\ lease[r] = "none"

(* RESUMABLE, with no lease or a stale one. *)
Eligible(r) == state[r] \in {"ready", "stuck"} /\ lease[r] # "fresh"

Older(r) == {q \in 1 .. r - 1 : Eligible(q)}

(* A mutant of Candidates: one run fewer. *)
OneFewer == {r \in Runs : Eligible(r) /\ Cardinality(Older(r)) + 1 < Limit}

(* The oldest of the eligible runs, at most Limit. *)
Candidates == {r \in Runs : Eligible(r) /\ Cardinality(Older(r)) < Limit}

Idle(w) == batch[w] = {} /\ current[w] = None

(* The session keeps the state in which it loads each candidate. *)
Select(w) ==
  /\ Idle(w) /\ Candidates # {}
  /\ batch' = [batch EXCEPT ![w] = {[run |-> r, seen |-> state[r]] : r \in Candidates}]
  /\ UNCHANGED <<state, lease, current, driven, events>>

(* The oldest comes first.  claim looks at the lease the sweep loaded,     *)
(* which was none or stale, and so never refuses.                          *)
Claim(w) ==
  /\ current[w] = None
  /\ \E c \in batch[w] :
       /\ \A d \in batch[w] : c.run <= d.run
       /\ current' = [current EXCEPT ![w] = c]
       /\ batch' = [batch EXCEPT ![w] = @ \ {c}]
       /\ lease' = [lease EXCEPT ![c.run] = "fresh"]
  /\ UNCHANGED <<state, driven, events>>

Leaves(w, s) == state' = [state EXCEPT ![current[w].run] = s]

(* The worker is done with the run. *)
Drops(w) ==
  /\ current' = [current EXCEPT ![w] = None]
  /\ driven' = [driven EXCEPT ![w] = FALSE]

(* The run is driven from the status the sweep loaded, whatever its row    *)
(* says by now.  Without an entry the driver returns at once.  With one it *)
(* gets the run to rest, or leaves it where there is no entry; to leave it *)
(* ready takes an exception.                                               *)
Resume(w) ==
  /\ current[w] # None /\ ~driven[w]
  /\ driven' = [driven EXCEPT ![w] = TRUE]
  /\ \/ current[w].seen = "stuck" /\ UNCHANGED <<state, events>>
     \/ /\ current[w].seen = "ready"
        /\ \/ \E s \in {"stuck", "resting"} : Leaves(w, s) /\ UNCHANGED events
           \/ Leaves(w, "ready") /\ Event
           \/ UNCHANGED state /\ Event
  /\ UNCHANGED <<lease, batch, current>>

(* A terminal transition clears the lease with its own commit. *)
Finish(w) ==
  /\ current[w] # None /\ ~driven[w] /\ current[w].seen = "ready"
  /\ Leaves(w, "resting")
  /\ lease' = [lease EXCEPT ![current[w].run] = "none"]
  /\ Drops(w)
  /\ UNCHANGED <<batch, events>>

(* The finally clause: whatever lease the row has by now. *)
Release(w) ==
  /\ driven[w]
  /\ lease' = [lease EXCEPT ![current[w].run] = "none"]
  /\ Drops(w)
  /\ UNCHANGED <<state, batch, events>>

(* A second plan of the run breaks the session: neither the handler of the *)
(* exception nor the finally clause can commit, so the lease stays and the *)
(* sweep is over.                                                          *)
BreakSession(w) ==
  /\ current[w] # None /\ ~driven[w] /\ current[w].seen = "ready"
  /\ Leaves(w, "stuck")
  /\ batch' = [batch EXCEPT ![w] = {}]
  /\ Drops(w)
  /\ UNCHANGED <<lease, events>>

-----------------------------------------------------------------------------
(* A lease that nobody renews grows stale; a worker dies and is started    *)
(* again.                                                                  *)

LeaseExpires(r) ==
  /\ lease[r] = "fresh"
  /\ lease' = [lease EXCEPT ![r] = "stale"]
  /\ UNCHANGED <<state, worker, events>>

Crash(w) ==
  /\ ~Idle(w) /\ Event
  /\ batch' = [batch EXCEPT ![w] = {}]
  /\ Drops(w)
  /\ UNCHANGED <<state, lease>>

Work(w) ==
  Select(w) \/ Claim(w) \/ Resume(w) \/ Finish(w) \/ BreakSession(w) \/ Release(w)

Next ==
  \/ \E r \in Runs : Decide(r) \/ LeaseExpires(r)
  \/ \E w \in Workers : Work(w) \/ Crash(w)

(* A worker polls for ever, and time passes. *)
Spec ==
  /\ Init /\ [][Next]_vars
  /\ \A w \in Workers : WF_vars(Work(w))
  /\ \A r \in Runs : WF_vars(LeaseExpires(r))

-----------------------------------------------------------------------------
(* Properties.                                                             *)

Stuck == {r \in Runs : state[r] = "stuck"}

(* worker.py: "finds runs left mid-flight by a crash or a deploy and       *)
(* resumes them".  A sweep sees only so many runs, and those that can      *)
(* never move come first again and again.  As long as they are fewer than  *)
(* a sweep takes, every run that can move is moved, through workers that   *)
(* overlap, die or lose their session.                                     *)
Served ==
  [](Cardinality(Stuck) < Limit) =>
    \A r \in Runs : (state[r] = "ready") ~> (state[r] # "ready")
=============================================================================
