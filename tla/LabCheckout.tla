---------------------------- MODULE LabCheckout ----------------------------
(***************************************************************************)
(* The one lab checkout that every run and the demo reset share, the       *)
(* remote it pushes to, and the pull requests there.                       *)
(*                                                                         *)
(* A publisher is a thread inside open_pull_request; each git or gh        *)
(* command is a step, may fail, and leaves what git leaves.  A tree gives  *)
(* each configuration file a content: a run's validated one, a reviewer's, *)
(* or a version of the file on main.  A commit is its tree.                *)
(***************************************************************************)
EXTENDS Naturals, FiniteSets

CONSTANTS
  Runs,
  Files,
  Versions,   \* contents a file may have on main without a run
  First,      \* ... the one it starts with
  Reviewed,   \* a reviewer's content
  None,
  MaxBusy,    \* publishers and resets at once
  MaxCrashes, \* deaths inside and failures to put the checkout back
  MaxTries,
  MaxOutside  \* edits of main, merges and reviews

Content == Versions \cup Runs \cup {Reviewed}

Tree == [Files -> Content]

ASSUME CheckoutAssumption ==
  /\ First \in Versions
  /\ "main" \notin Runs /\ None \notin Tree
  /\ Runs \cap Versions = {} /\ Reviewed \notin Runs \cup Versions
  /\ IsFiniteSet(Runs)
  /\ MaxBusy \in Nat /\ MaxCrashes \in Nat /\ MaxTries \in Nat /\ MaxOutside \in Nat

(* branch_for names a run's branch after the run. *)
Branches == Runs \cup {"main"}

VARIABLES
  head,     \* the branch checked out
  local,    \* local branches
  index, work,
  origin,   \* origin/main as the checkout knows it
  stale,    \* the runs whose branch at GitHub is not what the checkout knows
  remote,   \* the branches at GitHub
  prs,      \* per run: none, open, closed
  pc,       \* per run: the publisher's next step
  files,    \* ... the files of its validated patch
  original, \* ... the branch it found checked out
  result,   \* ... the status it will return
  reset,    \* the demo reset's next step
  crashes, tries, outside,
  pushed,   \* history: the tree each run pushed last, and its patch
  reviews,  \* history: per run, the files a reviewer changed on its branch
  mains,    \* history: what main has been
  alone     \* history: nobody overlapped, died inside or failed to put it back

git    == <<head, local, index, work, origin, stale>>
bounds == <<crashes, tries, outside>>
history == <<pushed, reviews, mains, alone>>
vars   == <<git, remote, prs, pc, files, original, result, reset, bounds, history>>

Start == [f \in Files |-> First]

Init ==
  /\ head = "main"
  /\ local = [b \in Branches |-> IF b = "main" THEN Start ELSE None]
  /\ index = Start /\ work = Start
  /\ origin = Start /\ stale = {} /\ remote = local
  /\ prs = [r \in Runs |-> "none"]
  /\ pc = [r \in Runs |-> "idle"]
  /\ files = [r \in Runs |-> {}]
  /\ original = [r \in Runs |-> "main"]
  /\ result = [r \in Runs |-> "none"]
  /\ reset = "idle"
  /\ crashes = 0 /\ tries = 0 /\ outside = 0
  /\ pushed = [r \in Runs |-> None]
  /\ reviews = [r \in Runs |-> {}]
  /\ mains = {Start}
  /\ alone = TRUE

Publishing == {r \in Runs : pc[r] \notin {"idle", "validated", "done"}}

Busy == Cardinality(Publishing) + (IF reset = "idle" THEN 0 ELSE 1)

(* Somebody enters: from the second on, nothing is promised. *)
Enter ==
  /\ Busy < MaxBusy
  /\ alone' = (alone /\ Busy = 0)

At(r, here, next) == pc[r] = here /\ pc' = [pc EXCEPT ![r] = next]

(* An exception: the finally clause still runs. *)
Raise(r, here) ==
  /\ At(r, here, "restoring")
  /\ result' = [result EXCEPT ![r] = "raised"]

-----------------------------------------------------------------------------
(* git                                                                     *)

(* checkout -B b to: a file that the two trees have differently is taken   *)
(* from the new one if it has no edit, and what is staged or edited in     *)
(* another file stays.                                                     *)
Moved(to) == {f \in Files : to[f] \notin {local[head][f], index[f]}}

CanSwitch(to) == \A f \in Moved(to) : index[f] = local[head][f] /\ work[f] = index[f]

Switch(b, to) ==
  /\ CanSwitch(to)
  /\ head' = b
  /\ local' = [local EXCEPT ![b] = to]
  /\ index' = [f \in Files |-> IF f \in Moved(to) THEN to[f] ELSE index[f]]
  /\ work' = [f \in Files |-> IF f \in Moved(to) THEN to[f] ELSE work[f]]

(* checkout --force b *)
ForceSwitch(b) ==
  /\ local[b] # None
  /\ head' = b /\ index' = local[b] /\ work' = local[b]
  /\ UNCHANGED local

-----------------------------------------------------------------------------
(* open_pull_request                                                       *)

(* generate and run_validation of the run, again if a process died before  *)
(* the result was recorded: a patch of some files, checked in a copy.      *)
Validated(r) ==
  /\ pc[r] \in {"idle", "done"} /\ tries < MaxTries
  /\ tries' = tries + 1
  /\ pc' = [pc EXCEPT ![r] = "validated"]
  /\ \E patch \in SUBSET Files \ {{}} : files' = [files EXCEPT ![r] = patch]
  /\ result' = [result EXCEPT ![r] = "none"]
  /\ UNCHANGED <<git, remote, prs, original, reset, crashes, outside, history>>

Begin(r) ==
  /\ At(r, "validated", "fetch")
  /\ Enter
  /\ original' = [original EXCEPT ![r] = head]
  /\ UNCHANGED <<git, remote, prs, files, result, reset, bounds, pushed, reviews, mains>>

(* Whether it works is not looked at. *)
Fetch(r) ==
  /\ At(r, "fetch", "branch")
  /\ origin' \in {origin, remote["main"]}
  /\ UNCHANGED <<head, local, index, work, stale, remote, prs, files, original, result, reset,
                 bounds, history>>

(* From origin/main; if that cannot be checked out, from where the         *)
(* checkout is.                                                            *)
Branch(r) ==
  /\ \/ At(r, "branch", "write") /\ Switch(r, origin) /\ UNCHANGED result
     \/ At(r, "branch", "write") /\ Switch(r, local[head]) /\ UNCHANGED result
     \/ Raise(r, "branch") /\ UNCHANGED <<head, local, index, work>>
  /\ UNCHANGED <<origin, stale, remote, prs, files, original, reset, bounds, history>>

(* The validated files are copied out of the workspace one by one, of      *)
(* which some are there if a copy fails.  (Nobody is seen between two.)    *)
Copied(r, written) == work' = [f \in Files |-> IF f \in written THEN r ELSE work[f]]

Write(r) ==
  /\ \/ At(r, "write", "add") /\ Copied(r, files[r]) /\ UNCHANGED result
     \/ Raise(r, "write") /\ \E written \in SUBSET files[r] : Copied(r, written)
  /\ UNCHANGED <<head, local, index, origin, stale, remote, prs, files, original, reset,
                 bounds, history>>

Add(r) ==
  /\ \/ /\ At(r, "add", "commit")
        /\ index' = [f \in Files |-> IF f \in files[r] THEN work[f] ELSE index[f]]
        /\ UNCHANGED result
     \/ Raise(r, "add") /\ UNCHANGED index
  /\ UNCHANGED <<head, local, work, origin, stale, remote, prs, files, original, reset,
                 bounds, history>>

(* With nothing to report there is no commit; with something unstaged to   *)
(* report and nothing staged, git refuses.                                 *)
Commit(r) ==
  /\ \/ /\ index = local[head] /\ work = index
        /\ At(r, "commit", "push")
        /\ UNCHANGED <<local, result>>
     \/ /\ index # local[head]
        /\ At(r, "commit", "push")
        /\ local' = [local EXCEPT ![head] = index]
        /\ UNCHANGED result
     \/ Raise(r, "commit") /\ UNCHANGED local
  /\ UNCHANGED <<head, index, work, origin, stale, remote, prs, files, original, reset,
                 bounds, history>>

(* A mutant of Leased: push --force. *)
Unleased(r) == TRUE

(* --force-with-lease: refused when the branch has moved since the         *)
(* checkout heard of it last.                                              *)
Leased(r) == r \notin stale

(* The run's branch is pushed, whatever is checked out.  The answer may    *)
(* be lost after the remote has moved.                                     *)
Push(r) ==
  /\ local[r] # None
  /\ \/ /\ Leased(r)
        /\ At(r, "push", "list")
        /\ remote' = [remote EXCEPT ![r] = local[r]]
        /\ pushed' = [pushed EXCEPT ![r] = [tree |-> local[r], files |-> files[r]]]
        /\ UNCHANGED <<stale, result>>
     \/ /\ At(r, "push", "restoring")
        /\ result' = [result EXCEPT ![r] = "failed"]
        /\ \/ UNCHANGED <<remote, stale, pushed>>
           \/ /\ Leased(r)
              /\ remote' = [remote EXCEPT ![r] = local[r]]
              /\ stale' = stale \cup {r}
              /\ pushed' = [pushed EXCEPT ![r] = [tree |-> local[r], files |-> files[r]]]
  /\ UNCHANGED <<head, local, index, work, origin, prs, files, original, reset, bounds, reviews,
                 mains, alone>>

(* _existing_pr: a list that fails counts as empty. *)
FindExisting(r) ==
  /\ \/ /\ prs[r] = "open"
        /\ At(r, "list", "restoring")
        /\ result' = [result EXCEPT ![r] = "open"]
     \/ At(r, "list", "create") /\ UNCHANGED result
  /\ UNCHANGED <<git, remote, prs, files, original, reset, bounds, history>>

(* A mutant of Create: no status where gh fails. *)
CreateUnanswered(r) ==
  /\ At(r, "create", "restoring")
  /\ \/ /\ prs[r] # "open"
        /\ prs' = [prs EXCEPT ![r] = "open"]
        /\ result' = [result EXCEPT ![r] = "open"]
     \/ result' = [result EXCEPT ![r] = ""] /\ UNCHANGED prs
  /\ UNCHANGED <<git, remote, files, original, reset, bounds, history>>

(* gh pr create: refused while one is open; the answer may be lost.        *)
Create(r) ==
  /\ At(r, "create", "restoring")
  /\ \/ /\ prs[r] # "open"
        /\ prs' = [prs EXCEPT ![r] = "open"]
        /\ result' \in {[result EXCEPT ![r] = "open"], [result EXCEPT ![r] = "failed"]}
     \/ result' = [result EXCEPT ![r] = "failed"] /\ UNCHANGED prs
  /\ UNCHANGED <<git, remote, files, original, reset, bounds, history>>

(* A mutant of Restore: only where nothing was raised. *)
RestoreUnlessRaised(r) ==
  /\ At(r, "restoring", "done")
  /\ IF original[r] # r /\ result[r] # "raised"
     THEN ForceSwitch(original[r])
     ELSE UNCHANGED <<head, local, index, work>>
  /\ UNCHANGED <<origin, stale, remote, prs, files, original, result, reset, bounds, history>>

(* A mutant of Restore: without --force. *)
SwitchBack(r) ==
  /\ At(r, "restoring", "done")
  /\ IF original[r] # r /\ local[original[r]] # None /\ CanSwitch(local[original[r]])
     THEN Switch(original[r], local[original[r]])
     ELSE UNCHANGED <<head, local, index, work>>
  /\ UNCHANGED <<origin, stale, remote, prs, files, original, result, reset, bounds, history>>

(* The finally clause.  Whether it works is not looked at. *)
Restore(r) ==
  /\ At(r, "restoring", "done")
  /\ \/ original[r] = r /\ UNCHANGED <<head, local, index, work, crashes, alone>>
     \/ original[r] # r /\ ForceSwitch(original[r]) /\ UNCHANGED <<crashes, alone>>
     \/ /\ original[r] # r /\ crashes < MaxCrashes
        /\ crashes' = crashes + 1 /\ alone' = FALSE
        /\ UNCHANGED <<head, local, index, work>>
  /\ UNCHANGED <<origin, stale, remote, prs, files, original, result, reset, tries, outside, pushed,
                 reviews, mains>>

(* The process dies inside: the checkout stays as it is. *)
Crash(r) ==
  /\ r \in Publishing /\ crashes < MaxCrashes
  /\ crashes' = crashes + 1
  /\ pc' = [pc EXCEPT ![r] = "idle"]
  /\ alone' = FALSE
  /\ UNCHANGED <<git, remote, prs, files, original, result, reset, tries, outside, pushed,
                 reviews, mains>>

-----------------------------------------------------------------------------
(* demo_reset: checkout --force main, then reset --hard origin/main of     *)
(* what is checked out.  Whether they work is only reported.               *)

BeginReset ==
  /\ reset = "idle" /\ Enter
  /\ reset' = "checked_out"
  /\ ForceSwitch("main") \/ UNCHANGED <<head, local, index, work>>
  /\ UNCHANGED <<origin, stale, remote, prs, pc, files, original, result, bounds, pushed, reviews,
                 mains>>

ResetHard ==
  /\ reset = "checked_out"
  /\ reset' = "idle"
  /\ \/ /\ local' = [local EXCEPT ![head] = origin]
        /\ index' = origin /\ work' = origin
     \/ UNCHANGED <<local, index, work>>
  /\ UNCHANGED <<head, origin, stale, remote, prs, pc, files, original, result, bounds, history>>

-----------------------------------------------------------------------------
(* At GitHub.                                                              *)

Outside == outside < MaxOutside /\ outside' = outside + 1

EditMain ==
  /\ Outside
  /\ \E f \in Files, v \in Versions : remote' = [remote EXCEPT !["main"][f] = v]
  /\ mains' = mains \cup {remote'["main"]}
  /\ UNCHANGED <<git, prs, pc, files, original, result, reset, crashes, tries, pushed,
                 reviews, alone>>

(* A reviewer commits to the run's branch. *)
Review(r) ==
  /\ Outside
  /\ prs[r] = "open"
  /\ \E f \in Files :
       /\ remote[r][f] # Reviewed
       /\ remote' = [remote EXCEPT ![r][f] = Reviewed]
       /\ reviews' = [reviews EXCEPT ![r] = @ \cup {f}]
  /\ stale' = stale \cup {r}
  /\ UNCHANGED <<head, local, index, work, origin, prs, pc, files, original, result, reset,
                 crashes, tries, pushed, mains, alone>>

(* The pull request is closed, merged or not: a merge takes what the       *)
(* branch changed.                                                         *)
Close(r) ==
  /\ Outside
  /\ prs[r] = "open" /\ prs' = [prs EXCEPT ![r] = "closed"]
  /\ \/ UNCHANGED remote
     \/ remote' = [remote EXCEPT !["main"] =
          [f \in Files |-> IF remote[r][f] \in Versions THEN @[f] ELSE remote[r][f]]]
  /\ mains' = mains \cup {remote'["main"]}
  /\ UNCHANGED <<git, pc, files, original, result, reset, crashes, tries, pushed,
                 reviews, alone>>

Publish(r) ==
  \/ Begin(r) \/ Fetch(r) \/ Branch(r) \/ Write(r) \/ Add(r) \/ Commit(r)
  \/ Push(r) \/ FindExisting(r) \/ Create(r) \/ Restore(r)

Next ==
  \/ \E r \in Runs : Validated(r) \/ Publish(r) \/ Crash(r) \/ Review(r) \/ Close(r)
  \/ BeginReset \/ ResetHard \/ EditMain

Spec == Init /\ [][Next]_vars

-----------------------------------------------------------------------------
(* Properties.                                                             *)

Steps ==
  {"idle", "validated", "fetch", "branch", "write", "add", "commit", "push", "list",
   "create", "restoring", "done"}

TypeOK ==
  /\ head \in Branches
  /\ local \in [Branches -> Tree \cup {None}] /\ local[head] # None
  /\ index \in Tree /\ work \in Tree
  /\ origin \in Tree /\ stale \subseteq Runs
  /\ remote \in [Branches -> Tree \cup {None}] /\ remote["main"] # None
  /\ prs \in [Runs -> {"none", "open", "closed"}]
  /\ pc \in [Runs -> Steps]
  /\ files \in [Runs -> SUBSET Files]
  /\ original \in [Runs -> Branches]
  /\ result \in [Runs -> {"none", "raised", "failed", "open"}]
  /\ reset \in {"idle", "checked_out"}
  /\ crashes \in 0 .. MaxCrashes /\ tries \in 0 .. MaxTries /\ outside \in 0 .. MaxOutside
  /\ pushed \in [Runs -> [tree : Tree, files : SUBSET Files] \cup {None}]
  /\ reviews \in [Runs -> SUBSET Files]
  /\ mains \subseteq Tree
  /\ alone \in BOOLEAN

(* pr.py: "what is pushed is exactly what was validated".  A pushed tree   *)
(* is some state of main with the run's validated files, and nothing of    *)
(* another run's patch.                                                    *)
Exact(r) ==
  pushed[r] # None =>
    \E m \in mains : pushed[r].tree = [f \in Files |-> IF f \in pushed[r].files THEN r ELSE m[f]]

PushedIsValidated == \A r \in Runs : Exact(r)

(* ... as long as nobody publishes or resets at the same time, no process  *)
(* dies inside and the checkout could be put back: through failures at any *)
(* other step, retries, reviews, merges and moves of main.                 *)
PushedIsValidatedAlone == alone => PushedIsValidated

(* pr.py: the checkout is put back, so that the next run starts from the   *)
(* contradictions.  When nobody is inside, main is checked out, without    *)
(* an edit, and it is a state main has had at GitHub.                      *)
CheckoutRestored ==
  alone /\ Busy = 0 =>
    head = "main" /\ work = local["main"] /\ index = work /\ work \in mains

(* --force-with-lease: what a reviewer committed to a run's branch is      *)
(* never pushed over, not even by the run's own retry or beside another    *)
(* publisher.                                                              *)
ReviewKept == \A r \in Runs : \A f \in reviews[r] : remote[r][f] = Reviewed
=============================================================================
