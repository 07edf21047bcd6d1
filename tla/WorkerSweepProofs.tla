-------------------------- MODULE WorkerSweepProofs --------------------------
(***************************************************************************)
(* Proofs about WorkerSweep, for any number of workers and runs, any limit *)
(* of a sweep and any number of crashes, exceptions and decisions: what a  *)
(* sweep takes, in which order, and who holds a lease.                     *)
(***************************************************************************)
EXTENDS WorkerSweep, FiniteSetTheorems, TLAPS

-----------------------------------------------------------------------------
(* What a sweep takes.                                                     *)

(* The runs are finitely many, and so are any of them.                     *)
LEMMA FewRuns ==
  ASSUME NEW S \in SUBSET Runs PROVE IsFiniteSet(S) /\ Cardinality(S) \in Nat
<1>1. IsFiniteSet(Runs)
  BY FS_Interval, SweepAssumption DEF Runs
<1> QED BY <1>1, FS_Subset, FS_CardinalityType

(* The older a run, the fewer come before it.                              *)
LEMMA OlderGrows ==
  ASSUME NEW q \in Runs, NEW r \in Runs, q < r, Eligible(q)
  PROVE  /\ Older(q) \in SUBSET Runs /\ Older(r) \in SUBSET Runs
         /\ Cardinality(Older(q)) < Cardinality(Older(r))
<1>1. Older(q) \in SUBSET Runs /\ Older(r) \in SUBSET Runs
  BY SweepAssumption DEF Older, Runs
<1>2. Older(q) \cup {q} \in SUBSET Older(r) /\ q \notin Older(q)
  BY SweepAssumption DEF Older, Runs
<1>3. /\ IsFiniteSet(Older(q)) /\ IsFiniteSet(Older(r))
      /\ Cardinality(Older(q)) \in Nat /\ Cardinality(Older(r)) \in Nat
  BY <1>1, FewRuns
<1>4. Cardinality(Older(q) \cup {q}) = Cardinality(Older(q)) + 1
  BY <1>2, <1>3, FS_AddElement
<1>5. Cardinality(Older(q) \cup {q}) <= Cardinality(Older(r))
  BY <1>2, <1>3, FS_Subset
<1> QED BY <1>1, <1>3, <1>4, <1>5

(* ORDER BY created_at: with a run, the sweep takes every older one.       *)
LEMMA TakesOlder ==
  ASSUME NEW r \in Candidates, NEW q \in Runs, q < r, Eligible(q) PROVE q \in Candidates
<1>1. r \in Runs /\ Cardinality(Older(r)) < Limit
  BY DEF Candidates
<1>2. Cardinality(Older(q)) < Cardinality(Older(r)) /\ Older(q) \in SUBSET Runs
      /\ Older(r) \in SUBSET Runs
  BY <1>1, OlderGrows
<1>3. Cardinality(Older(q)) \in Nat /\ Cardinality(Older(r)) \in Nat /\ Limit \in Nat
  BY <1>2, FewRuns, SweepAssumption
<1> QED BY <1>1, <1>2, <1>3 DEF Candidates

(* LIMIT: no more than so many, since each has another number of runs      *)
(* before it.                                                              *)
LEMMA TakesFew == Cardinality(Candidates) <= Limit
<1> DEFINE before == [r \in Candidates |-> Cardinality(Older(r))]
<1>1. Limit \in Nat /\ Candidates \in SUBSET Runs
  BY SweepAssumption DEF Candidates
<1>2. \A r \in Candidates : Cardinality(Older(r)) \in 0 .. Limit - 1
  <2>1. \A r \in Runs : Older(r) \in SUBSET Runs
    BY SweepAssumption DEF Older, Runs
  <2> QED BY <1>1, <2>1, FewRuns DEF Candidates
<1>3. \A q, r \in Candidates : q # r => Cardinality(Older(q)) # Cardinality(Older(r))
  <2> SUFFICES ASSUME NEW q \in Candidates, NEW r \in Candidates, q < r
               PROVE  Cardinality(Older(q)) # Cardinality(Older(r))
    BY SweepAssumption DEF Candidates, Runs
  <2>1. Cardinality(Older(q)) < Cardinality(Older(r))
    BY OlderGrows DEF Candidates
  <2> QED BY <1>2, <2>1
<1>4. before \in Injection(Candidates, 0 .. Limit - 1)
  BY <1>2, <1>3 DEF Injection, IsInjective
<1>5. IsFiniteSet(0 .. Limit - 1) /\ Cardinality(0 .. Limit - 1) = Limit
  BY <1>1, FS_Interval, SweepAssumption
<1> QED BY <1>4, <1>5, FS_Injection

(* While the stuck runs are fewer than a sweep takes, it takes the oldest  *)
(* run that can move.                                                      *)
LEMMA TakesOldestReady ==
  ASSUME state \in [Runs -> States], Cardinality(Stuck) < Limit,
         NEW r \in Runs, state[r] = "ready", Eligible(r), \A q \in Older(r) : state[q] # "ready"
  PROVE  r \in Candidates /\ \A q \in Older(r) : state[q] = "stuck"
<1>1. Older(r) \in SUBSET Stuck /\ Stuck \in SUBSET Runs
  BY SweepAssumption DEF Older, Runs, Eligible, Stuck
<1>2. Cardinality(Older(r)) <= Cardinality(Stuck)
  BY <1>1, FewRuns, FS_Subset
<1>3. Cardinality(Older(r)) \in Nat /\ Cardinality(Stuck) \in Nat /\ Limit \in Nat
  BY <1>1, FewRuns, SweepAssumption
<1>4. Cardinality(Older(r)) < Limit
  BY <1>2, <1>3
<1> QED BY <1>1, <1>4 DEF Candidates, Stuck

-----------------------------------------------------------------------------
(* Types, and the order of a sweep.                                        *)

(* A candidate as the session loaded it.                                   *)
Loaded == [run : Runs, seen : {"ready", "stuck"}]

SweepTypeOK ==
  /\ state \in [Runs -> States]
  /\ lease \in [Runs -> {"none", "fresh", "stale"}]
  /\ batch \in [Workers -> SUBSET Loaded]
  /\ current \in [Workers -> Loaded \cup {None}]
  /\ driven \in [Workers -> BOOLEAN]
  /\ events \in 0 .. MaxEvents

(* A loaded candidate is one.                                              *)
LEMMA NoneIsNone == ASSUME NEW c \in Loaded PROVE c # None /\ c.run \in Runs
<1>1. c \in [run : Runs, seen : States]
  BY DEF Loaded, States
<1> QED BY <1>1, SweepAssumption

(* What a sweep loads.                                                     *)
LEMMA LoadedType ==
  ASSUME SweepTypeOK
  PROVE  {[run |-> r, seen |-> state[r]] : r \in Candidates} \in SUBSET Loaded
BY DEF Candidates, Eligible, Loaded

(* An event is counted.                                                    *)
LEMMA EventType == SweepTypeOK /\ Event => events' \in 0 .. MaxEvents
BY SweepAssumption DEF SweepTypeOK, Event

(* At first there are no leases and no sweeps.                             *)
LEMMA TypeInit == Init => SweepTypeOK
BY SweepAssumption DEF Init, SweepTypeOK

(* Every step keeps the types.                                             *)
LEMMA TypeStep == SweepTypeOK /\ [Next]_vars => SweepTypeOK'
<1> SUFFICES ASSUME SweepTypeOK, [Next]_vars PROVE SweepTypeOK'
  OBVIOUS
<1>1. ASSUME NEW r \in Runs, Decide(r) PROVE SweepTypeOK'
  BY <1>1, EventType DEF Decide, worker, SweepTypeOK
<1>2. ASSUME NEW r \in Runs, LeaseExpires(r) PROVE SweepTypeOK'
  BY <1>2 DEF LeaseExpires, worker, SweepTypeOK
<1>3. ASSUME NEW w \in Workers, Select(w) PROVE SweepTypeOK'
  BY <1>3, LoadedType DEF Select, SweepTypeOK
<1>4. ASSUME NEW w \in Workers, Claim(w) PROVE SweepTypeOK'
  BY <1>4 DEF Claim, SweepTypeOK, Loaded
<1>5. ASSUME NEW w \in Workers, Resume(w) PROVE SweepTypeOK'
  <2>1. current[w].run \in Runs
    BY <1>5 DEF Resume, SweepTypeOK, Loaded
  <2>2. state' \in [Runs -> States]
    BY <1>5, <2>1 DEF Resume, Leaves, SweepTypeOK, States
  <2>3. events' \in 0 .. MaxEvents
    BY <1>5, EventType DEF Resume, SweepTypeOK
  <2> QED BY <1>5, <2>2, <2>3 DEF Resume, SweepTypeOK
<1>6. ASSUME NEW w \in Workers, Finish(w) \/ Release(w) \/ BreakSession(w) PROVE SweepTypeOK'
  <2>1. state' \in [Runs -> States] /\ lease' \in [Runs -> {"none", "fresh", "stale"}]
    BY <1>6 DEF Finish, Release, BreakSession, Leaves, SweepTypeOK, States
  <2>2. batch' \in [Workers -> SUBSET Loaded] /\ current' \in [Workers -> Loaded \cup {None}]
        /\ driven' \in [Workers -> BOOLEAN] /\ events' = events
    BY <1>6 DEF Finish, Release, BreakSession, Drops, SweepTypeOK
  <2> QED BY <2>1, <2>2 DEF SweepTypeOK
<1>7. ASSUME NEW w \in Workers, Crash(w) PROVE SweepTypeOK'
  BY <1>7, EventType DEF Crash, Drops, SweepTypeOK
<1>8. CASE UNCHANGED vars
  BY <1>8 DEF vars, worker, SweepTypeOK
<1> QED BY <1>1, <1>2, <1>3, <1>4, <1>5, <1>6, <1>7, <1>8 DEF Next, Work

(* Every run keeps a state and a lease, every worker a sweep that it has   *)
(* loaded, whatever decisions, exceptions and crashes come in between.     *)
THEOREM SweepTypeCorrect == Spec => []SweepTypeOK
BY TypeInit, TypeStep, PTL DEF Spec

(* No run twice in a sweep, and the one that is resumed came first.        *)
OldestFirst ==
  \A w \in Workers :
    /\ \A c, d \in batch[w] : c.run = d.run => c = d
    /\ current[w] # None => \A d \in batch[w] : current[w].run < d.run

(* A sweep is loaded once and only gets smaller.                           *)
LEMMA BatchStep ==
  ASSUME SweepTypeOK, [Next]_vars, NEW w \in Workers
  PROVE  \/ Select(w)
         \/ Claim(w)
         \/ batch'[w] \subseteq batch[w] /\ current'[w] \in {current[w], None}
<1> DEFINE Smaller == batch'[w] \subseteq batch[w] /\ current'[w] \in {current[w], None}
<1>1. ASSUME NEW u \in Workers, Work(u) \/ Crash(u), u # w PROVE Smaller
  BY <1>1 DEF Work, Select, Claim, Resume, Finish, Release, BreakSession, Crash, Drops, SweepTypeOK
<1>2. ASSUME Resume(w) \/ Finish(w) \/ Release(w) \/ BreakSession(w) \/ Crash(w) PROVE Smaller
  BY <1>2 DEF Resume, Finish, Release, BreakSession, Crash, Drops, SweepTypeOK
<1>3. ASSUME NEW r \in Runs, Decide(r) \/ LeaseExpires(r) PROVE Smaller
  BY <1>3 DEF Decide, LeaseExpires, worker
<1>4. CASE UNCHANGED vars
  BY <1>4 DEF vars, worker
<1> QED BY <1>1, <1>2, <1>3, <1>4 DEF Next, Work

(* Every step keeps the order.                                             *)
LEMMA OrderStep == SweepTypeOK /\ OldestFirst /\ [Next]_vars => OldestFirst'
<1> SUFFICES ASSUME SweepTypeOK, OldestFirst, [Next]_vars, NEW w \in Workers
             PROVE  /\ \A c, d \in batch'[w] : c.run = d.run => c = d
                    /\ current'[w] # None => \A d \in batch'[w] : current'[w].run < d.run
  BY DEF OldestFirst
<1>1. CASE Select(w)
  <2>1. batch'[w] = {[run |-> r, seen |-> state[r]] : r \in Candidates} /\ current'[w] = None
    BY <1>1 DEF Select, Idle, SweepTypeOK
  <2> QED BY <2>1
<1>2. CASE Claim(w)
  <2>1. PICK c \in batch[w] :
          /\ \A d \in batch[w] : c.run <= d.run
          /\ current'[w] = c /\ batch'[w] = batch[w] \ {c}
    BY <1>2 DEF Claim, SweepTypeOK
  <2>2. \A d \in batch[w] : d.run \in Nat
    BY SweepAssumption DEF SweepTypeOK, Loaded, Runs
  <2>3. \A d \in batch[w] \ {c} : c.run # d.run
    BY DEF OldestFirst
  <2> QED BY <2>1, <2>2, <2>3 DEF OldestFirst
<1>3. CASE batch'[w] \subseteq batch[w] /\ current'[w] \in {current[w], None}
  BY <1>3 DEF OldestFirst
<1> QED BY <1>1, <1>2, <1>3, BatchStep

(* worker.py: the runs of a sweep are resumed one after the other, oldest  *)
(* first and none twice, however many workers there are and wherever they  *)
(* die.                                                                    *)
THEOREM OldestFirstHolds == Spec => []OldestFirst
<1>1. Init => OldestFirst
  BY DEF Init, OldestFirst
<1> QED BY <1>1, TypeInit, TypeStep, OrderStep, PTL DEF Spec

(* No sweep is longer than its limit.                                      *)
SweepBounded == \A w \in Workers : IsFiniteSet(batch[w]) /\ Cardinality(batch[w]) <= Limit

(* As many as its candidates are loaded.                                   *)
LEMMA LoadsFew ==
  LET loaded == {[run |-> r, seen |-> state[r]] : r \in Candidates}
  IN IsFiniteSet(loaded) /\ Cardinality(loaded) <= Limit
<1> DEFINE loaded == {[run |-> r, seen |-> state[r]] : r \in Candidates}
           load == [r \in Candidates |-> [run |-> r, seen |-> state[r]]]
<1>1. IsFiniteSet(Candidates) /\ Cardinality(Candidates) \in Nat /\ Limit \in Nat
  BY FewRuns, SweepAssumption DEF Candidates
<1>2. load \in Surjection(Candidates, loaded)
  BY DEF Surjection
<1>3. IsFiniteSet(loaded) /\ Cardinality(loaded) <= Cardinality(Candidates)
  BY <1>1, <1>2, FS_Surjection
<1>4. Cardinality(loaded) \in Nat
  BY <1>3, FS_CardinalityType
<1> QED BY <1>1, <1>3, <1>4, TakesFew

(* Every step keeps the bound.                                             *)
LEMMA BoundStep == SweepTypeOK /\ SweepBounded /\ [Next]_vars => SweepBounded'
<1> SUFFICES ASSUME SweepTypeOK, SweepBounded, [Next]_vars, NEW w \in Workers
             PROVE  IsFiniteSet(batch'[w]) /\ Cardinality(batch'[w]) <= Limit
  BY DEF SweepBounded
<1>1. CASE Select(w)
  BY <1>1, LoadsFew DEF Select, SweepTypeOK
<1>2. CASE ~Select(w)
  <2>1. batch'[w] \in SUBSET batch[w]
    BY <1>2, BatchStep DEF Claim, SweepTypeOK
  <2>2. IsFiniteSet(batch[w]) /\ Cardinality(batch[w]) <= Limit
    BY DEF SweepBounded
  <2>3. IsFiniteSet(batch'[w]) /\ Cardinality(batch'[w]) <= Cardinality(batch[w])
    BY <2>1, <2>2, FS_Subset
  <2>4. Cardinality(batch[w]) \in Nat /\ Cardinality(batch'[w]) \in Nat /\ Limit \in Nat
    BY <2>2, <2>3, FS_CardinalityType, SweepAssumption
  <2> QED BY <2>2, <2>3, <2>4
<1> QED BY <1>1, <1>2

(* worker.py: a session never holds more runs than .limit(20) names.       *)
THEOREM SweepBoundedHolds == Spec => []SweepBounded
<1>1. Init => SweepBounded
  BY FS_EmptySet, SweepAssumption DEF Init, SweepBounded
<1> QED BY <1>1, TypeInit, TypeStep, BoundStep, PTL DEF Spec

-----------------------------------------------------------------------------
(* The safety core of Served.                                              *)

(* A sweep that begins while the stuck runs are fewer than it takes.       *)
OldestIsTaken ==
  \A w \in Workers, r \in Runs :
    /\ Select(w) /\ Cardinality(Stuck) < Limit
    /\ state[r] = "ready" /\ Eligible(r) /\ \A q \in Older(r) : state[q] # "ready"
    => /\ [run |-> r, seen |-> "ready"] \in batch'[w]
       /\ \A d \in batch'[w] : d.run < r => d.seen = "stuck"

(* The premise of Served is what it takes, for any limit: as long as the   *)
(* runs that cannot move are fewer than a sweep takes, every sweep has the *)
(* oldest run that can, and only runs that need no time come before it.    *)
THEOREM OldestIsTakenHolds == Spec => [][OldestIsTaken]_vars
<1>1. SweepTypeOK => OldestIsTaken
  <2> SUFFICES ASSUME SweepTypeOK, NEW w \in Workers, NEW r \in Runs,
                      Select(w), Cardinality(Stuck) < Limit, state[r] = "ready",
                      Eligible(r), \A q \in Older(r) : state[q] # "ready"
               PROVE  /\ [run |-> r, seen |-> "ready"] \in batch'[w]
                      /\ \A d \in batch'[w] : d.run < r => d.seen = "stuck"
    BY DEF OldestIsTaken
  <2>1. batch'[w] = {[run |-> q, seen |-> state[q]] : q \in Candidates}
    BY DEF Select, SweepTypeOK
  <2>2. r \in Candidates /\ \A q \in Older(r) : state[q] = "stuck"
    BY TakesOldestReady DEF SweepTypeOK
  <2>3. \A q \in Candidates : q < r => q \in Older(r)
    BY SweepAssumption DEF Candidates, Older, Runs
  <2> QED BY <2>1, <2>2, <2>3
<1> QED BY <1>1, SweepTypeCorrect, PTL

-----------------------------------------------------------------------------
(* Leases.                                                                 *)

(* A fresh lease belongs to a worker that works on the run.                *)
LeaseHeld ==
  \A r \in Runs :
    lease[r] = "fresh" => \E w \in Workers : current[w] # None /\ current[w].run = r

(* No worker dies inside a run, and no session breaks.                     *)
NoLoss == \A w \in Workers : ~Crash(w) /\ ~BreakSession(w)

(* Who gives a lease back drops the run with it.                           *)
LEMMA LeaseStep == SweepTypeOK /\ LeaseHeld /\ [Next /\ NoLoss]_vars => LeaseHeld'
<1> SUFFICES ASSUME SweepTypeOK, LeaseHeld, [Next /\ NoLoss]_vars,
                    NEW r \in Runs, lease'[r] = "fresh"
             PROVE  \E w \in Workers : current'[w] # None /\ current'[w].run = r
  BY DEF LeaseHeld
<1>1. ASSUME NEW w \in Workers, Claim(w) PROVE \E u \in Workers : current'[u] # None /\ current'[u].run = r
  <2>1. PICK c \in batch[w] :
          current' = [current EXCEPT ![w] = c] /\ lease' = [lease EXCEPT ![c.run] = "fresh"]
    BY <1>1 DEF Claim
  <2>2. c \in Loaded /\ c # None
    BY NoneIsNone DEF SweepTypeOK
  <2>3. CASE c.run = r
    BY <2>1, <2>2, <2>3 DEF SweepTypeOK
  <2>4. CASE c.run # r
    <3>1. lease[r] = "fresh"
      BY <2>1, <2>4 DEF SweepTypeOK
    <3>2. PICK u \in Workers : current[u] # None /\ current[u].run = r
      BY <3>1 DEF LeaseHeld
    <3>3. u # w
      BY <1>1, <3>2 DEF Claim
    <3> QED BY <2>1, <3>2, <3>3 DEF SweepTypeOK
  <2> QED BY <2>3, <2>4
<1>2. ASSUME NEW w \in Workers, Finish(w) \/ Release(w)
      PROVE  \E u \in Workers : current'[u] # None /\ current'[u].run = r
  <2>1. /\ lease' = [lease EXCEPT ![current[w].run] = "none"]
        /\ current' = [current EXCEPT ![w] = None]
    BY <1>2 DEF Finish, Release, Drops
  <2>2. lease[r] = "fresh" /\ current[w].run # r
    BY <2>1 DEF SweepTypeOK
  <2>3. PICK u \in Workers : current[u] # None /\ current[u].run = r
    BY <2>2 DEF LeaseHeld
  <2> QED BY <2>1, <2>2, <2>3 DEF SweepTypeOK
<1>3. CASE /\ current' = current
           /\ lease' = lease \/ \E q \in Runs : lease' = [lease EXCEPT ![q] = "stale"]
  <2>1. lease[r] = "fresh"
    BY <1>3 DEF SweepTypeOK
  <2> QED BY <1>3, <2>1 DEF LeaseHeld
<1>4. ASSUME NEW w \in Workers, Select(w) \/ Resume(w)
      PROVE  current' = current /\ lease' = lease
  BY <1>4 DEF Select, Resume
<1>5. ASSUME NEW q \in Runs, Decide(q) \/ LeaseExpires(q)
      PROVE  current' = current /\ (lease' = lease \/ lease' = [lease EXCEPT ![q] = "stale"])
  BY <1>5 DEF Decide, LeaseExpires, worker
<1>6. CASE UNCHANGED vars
  BY <1>3, <1>6 DEF vars, worker
<1> QED BY <1>1, <1>2, <1>3, <1>4, <1>5, <1>6 DEF Next, Work, NoLoss

(* worker.py: a lease is freed.  Overlapping sweeps claim the same run and *)
(* give its lease back under each other; a worker's death and a broken     *)
(* session are still the only ways in which a fresh lease is left to a run *)
(* that nobody works on.                                                   *)
THEOREM LeaseHeldHolds == Spec /\ [][NoLoss]_vars => []LeaseHeld
<1>1. Init => LeaseHeld
  BY DEF Init, LeaseHeld
<1>2. [Next]_vars /\ [NoLoss]_vars => [Next /\ NoLoss]_vars
  OBVIOUS
<1> QED BY <1>1, <1>2, TypeInit, TypeStep, LeaseStep, PTL DEF Spec
=============================================================================
