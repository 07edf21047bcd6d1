------------------------- MODULE LabCheckoutProofs -------------------------
(***************************************************************************)
(* Proofs about LabCheckout, for any finite number of runs, any files and  *)
(* contents, and any number of publications, crashes and edits at GitHub.  *)
(***************************************************************************)
EXTENDS LabCheckout, FiniteSetTheorems, TLAPS

GitTypeOK ==
  /\ head \in Branches
  /\ local \in [Branches -> Tree \cup {None}] /\ local[head] # None
  /\ index \in Tree /\ work \in Tree
  /\ origin \in Tree /\ stale \subseteq Runs

RemoteTypeOK ==
  /\ remote \in [Branches -> Tree \cup {None}] /\ remote["main"] # None
  /\ prs \in [Runs -> {"none", "open", "closed"}]
  /\ pushed \in [Runs -> [tree : Tree, files : SUBSET Files] \cup {None}]
  /\ reviews \in [Runs -> SUBSET Files]
  /\ mains \subseteq Tree

PublisherTypeOK ==
  /\ pc \in [Runs -> Steps]
  /\ files \in [Runs -> SUBSET Files]
  /\ original \in [Runs -> Branches]
  /\ result \in [Runs -> {"none", "raised", "failed", "open"}]
  /\ reset \in {"idle", "checked_out"}
  /\ crashes \in 0 .. MaxCrashes /\ tries \in 0 .. MaxTries /\ outside \in 0 .. MaxOutside
  /\ alone \in BOOLEAN

(* What is there when it is used: a run's branch once it was checked out,  *)
(* and at GitHub once it was pushed.                                       *)
BranchInv ==
  /\ \A r \in Runs :
       /\ pc[r] \in {"write", "add", "commit", "push"} => local[r] # None
       /\ pc[r] \in {"list", "create"} \/ prs[r] # "none" => remote[r] # None

TypeInv == GitTypeOK /\ RemoteTypeOK /\ PublisherTypeOK /\ BranchInv

(* The parts are the type invariant.                                       *)
LEMMA TypeInvType == TypeInv => TypeOK
BY DEF TypeInv, GitTypeOK, RemoteTypeOK, PublisherTypeOK, TypeOK

(* No run's branch is main.                                                *)
LEMMA MainIsNoRun == "main" \in Branches /\ Runs \subseteq Branches /\ "main" \notin Runs
BY CheckoutAssumption DEF Branches

(* At first only main is there, as it is at GitHub.                        *)
LEMMA TypeInit == Init => TypeInv
<1> SUFFICES ASSUME Init PROVE TypeInv
  OBVIOUS
<1>1. Start \in Tree /\ Start # None
  BY CheckoutAssumption DEF Start, Tree, Content
<1>2. GitTypeOK
  BY <1>1, MainIsNoRun DEF Init, GitTypeOK
<1>3. RemoteTypeOK
  BY <1>1, MainIsNoRun DEF Init, RemoteTypeOK
<1>4. PublisherTypeOK
  BY CheckoutAssumption, MainIsNoRun DEF Init, PublisherTypeOK, Steps
<1>5. BranchInv
  BY DEF Init, BranchInv
<1> QED BY <1>2, <1>3, <1>4, <1>5 DEF TypeInv

-----------------------------------------------------------------------------
(* git keeps the types of the checkout.                                    *)

(* A switch leaves trees behind.                                           *)
LEMMA SwitchType ==
  ASSUME TypeInv, NEW b \in Branches, NEW to \in Tree, Switch(b, to)
  PROVE  /\ head' = b /\ local'[b] # None
         /\ local' \in [Branches -> Tree \cup {None}]
         /\ index' \in Tree /\ work' \in Tree
         /\ \A q \in Branches : local[q] # None => local'[q] # None
<1>1. to # None
  BY CheckoutAssumption
<1>2. index \in [Files -> Content] /\ work \in [Files -> Content] /\ to \in [Files -> Content]
  BY DEF TypeInv, GitTypeOK, Tree
<1>3. index' \in Tree /\ work' \in Tree
  BY <1>2 DEF Switch, Tree
<1>4. local' = [local EXCEPT ![b] = to] /\ head' = b /\ local \in [Branches -> Tree \cup {None}]
  BY DEF Switch, TypeInv, GitTypeOK
<1> QED BY <1>1, <1>3, <1>4

(* A forced checkout takes the branch as it is.                            *)
LEMMA ForceSwitchType ==
  ASSUME TypeInv, NEW b \in Branches, ForceSwitch(b)
  PROVE  head' = b /\ local' = local /\ local'[b] # None /\ index' \in Tree /\ work' \in Tree
BY DEF ForceSwitch, TypeInv, GitTypeOK

(* A step of a publisher.                                                  *)
LEMMA AtType ==
  ASSUME TypeInv, NEW r \in Runs, NEW here, NEW next \in Steps, At(r, here, next)
  PROVE  /\ pc' \in [Runs -> Steps] /\ pc[r] = here /\ pc'[r] = next
         /\ \A q \in Runs \ {r} : pc'[q] = pc[q]
BY DEF At, TypeInv, PublisherTypeOK

(* Each step of a publisher keeps the types.                               *)
LEMMA PublishType == ASSUME TypeInv, NEW r \in Runs, Publish(r) PROVE TypeInv'
<1>0. GitTypeOK /\ RemoteTypeOK /\ PublisherTypeOK /\ BranchInv
  BY DEF TypeInv
<1>1. CASE Begin(r)
  <2>1. PublisherTypeOK'
    BY <1>0, <1>1 DEF Begin, At, Enter, PublisherTypeOK, GitTypeOK, Steps, bounds
  <2>2. GitTypeOK' /\ RemoteTypeOK'
    BY <1>0, <1>1 DEF Begin, git, GitTypeOK, RemoteTypeOK
  <2>3. BranchInv'
    BY <1>0, <1>1 DEF Begin, At, git, BranchInv, PublisherTypeOK
  <2> QED BY <2>1, <2>2, <2>3 DEF TypeInv
<1>2. CASE Fetch(r)
  <2>1. PublisherTypeOK'
    BY <1>0, <1>2 DEF Fetch, At, PublisherTypeOK, Steps, bounds, history
  <2>2. GitTypeOK' /\ RemoteTypeOK'
    BY <1>0, <1>2, MainIsNoRun DEF Fetch, history, GitTypeOK, RemoteTypeOK
  <2>3. BranchInv'
    BY <1>0, <1>2 DEF Fetch, At, BranchInv, PublisherTypeOK
  <2> QED BY <2>1, <2>2, <2>3 DEF TypeInv
<1>3. CASE Branch(r)
  <2>1. PublisherTypeOK' /\ RemoteTypeOK' /\ UNCHANGED <<origin, stale, remote, prs>>
    BY <1>0, <1>3
    DEF Branch, Raise, At, PublisherTypeOK, RemoteTypeOK, Steps, bounds, history
  <2>2. ASSUME NEW to \in Tree, Switch(r, to), At(r, "branch", "write") PROVE TypeInv'
    <3>1. GitTypeOK'
      BY <1>0, <2>1, <2>2, SwitchType, MainIsNoRun DEF GitTypeOK
    <3>2. BranchInv'
      BY <1>0, <2>1, <2>2, SwitchType, MainIsNoRun, AtType DEF BranchInv, Steps
    <3> QED BY <2>1, <3>1, <3>2 DEF TypeInv
  <2>3. CASE Raise(r, "branch") /\ UNCHANGED <<head, local, index, work>>
    <3>1. GitTypeOK'
      BY <1>0, <2>1, <2>3 DEF GitTypeOK
    <3>2. BranchInv'
      BY <1>0, <2>1, <2>3, AtType DEF Raise, BranchInv, Steps
    <3> QED BY <2>1, <3>1, <3>2 DEF TypeInv
  <2>4. origin \in Tree /\ local[head] \in Tree
    BY <1>0 DEF GitTypeOK
  <2> QED BY <1>3, <2>2, <2>3, <2>4 DEF Branch
<1>4. CASE Write(r)
  <2>1. PublisherTypeOK' /\ RemoteTypeOK'
    BY <1>0, <1>4 DEF Write, Raise, At, PublisherTypeOK, RemoteTypeOK, Steps, bounds, history
  <2>2. work' \in Tree
    BY <1>0, <1>4 DEF Write, Copied, GitTypeOK, Tree, Content
  <2>3. GitTypeOK'
    BY <1>0, <1>4, <2>2 DEF Write, GitTypeOK
  <2>4. BranchInv'
    BY <1>0, <1>4, AtType DEF Write, Raise, BranchInv, Steps
  <2> QED BY <2>1, <2>3, <2>4 DEF TypeInv
<1>5. CASE Add(r)
  <2>1. PublisherTypeOK' /\ RemoteTypeOK'
    BY <1>0, <1>5 DEF Add, Raise, At, PublisherTypeOK, RemoteTypeOK, Steps, bounds, history
  <2>2. index' \in Tree
    BY <1>0, <1>5 DEF Add, GitTypeOK, Tree
  <2>3. GitTypeOK'
    BY <1>0, <1>5, <2>2 DEF Add, GitTypeOK
  <2>4. BranchInv'
    BY <1>0, <1>5, AtType DEF Add, Raise, BranchInv, Steps
  <2> QED BY <2>1, <2>3, <2>4 DEF TypeInv
<1>6. CASE Commit(r)
  <2>1. PublisherTypeOK' /\ RemoteTypeOK'
    BY <1>0, <1>6 DEF Commit, Raise, At, PublisherTypeOK, RemoteTypeOK, Steps, bounds, history
  <2>2. /\ local' \in [Branches -> Tree \cup {None}]
        /\ \A b \in Branches : local[b] # None => local'[b] # None
    <3>1. index # None
      BY <1>0, CheckoutAssumption DEF GitTypeOK
    <3> QED BY <1>0, <1>6, <3>1 DEF Commit, GitTypeOK
  <2>3. GitTypeOK'
    BY <1>0, <1>6, <2>2 DEF Commit, GitTypeOK
  <2>4. BranchInv'
    BY <1>0, <1>6, <2>2, AtType, MainIsNoRun DEF Commit, Raise, BranchInv, Steps
  <2> QED BY <2>1, <2>3, <2>4 DEF TypeInv
<1>7. CASE Push(r)
  <2>1. local[r] \in Tree /\ r \in Branches /\ r # "main"
    BY <1>0, <1>7, MainIsNoRun DEF Push, GitTypeOK
  <2>2. PublisherTypeOK'
    BY <1>0, <1>7 DEF Push, At, PublisherTypeOK, Steps, bounds
  <2>3. /\ remote' \in [Branches -> Tree \cup {None}]
        /\ remote'["main"] = remote["main"]
        /\ \A q \in Runs : remote[q] # None => remote'[q] # None
        /\ pc'[r] = "list" => remote'[r] # None
    BY <1>0, <1>7, <2>1, MainIsNoRun DEF Push, At, RemoteTypeOK, PublisherTypeOK
  <2>4. pushed' \in [Runs -> [tree : Tree, files : SUBSET Files] \cup {None}]
    <3>1. [tree |-> local[r], files |-> files[r]] \in [tree : Tree, files : SUBSET Files]
      BY <1>0, <2>1 DEF PublisherTypeOK
    <3> QED BY <1>0, <1>7, <3>1 DEF Push, RemoteTypeOK
  <2>5. RemoteTypeOK'
    BY <1>0, <1>7, <2>3, <2>4 DEF Push, RemoteTypeOK
  <2>6. GitTypeOK'
    BY <1>0, <1>7 DEF Push, GitTypeOK
  <2>7. BranchInv'
    BY <1>0, <1>7, <2>3, AtType DEF Push, BranchInv, Steps
  <2> QED BY <2>2, <2>5, <2>6, <2>7 DEF TypeInv
<1>8. CASE FindExisting(r) \/ Create(r)
  <2>0. result' \in [Runs -> {"none", "raised", "failed", "open"}]
    BY <1>0, <1>8 DEF FindExisting, Create, PublisherTypeOK
  <2>1. PublisherTypeOK' /\ GitTypeOK'
    <3>1. pc' \in [Runs -> Steps]
      BY <1>8, AtType DEF FindExisting, Create, Steps
    <3>2. /\ UNCHANGED <<files, original, reset, crashes, tries, outside, alone>>
          /\ UNCHANGED <<head, local, index, work, origin, stale>>
      BY <1>8 DEF FindExisting, Create, bounds, history, git
    <3>3. GitTypeOK'
      BY <1>0, <3>2 DEF GitTypeOK
    <3>4. files' = files /\ original' = original /\ reset' = reset /\ alone' = alone
      BY <3>2
    <3>5. crashes' = crashes /\ tries' = tries /\ outside' = outside
      BY <3>2
    <3> QED BY <1>0, <2>0, <3>1, <3>3, <3>4, <3>5 DEF PublisherTypeOK
  <2>2. RemoteTypeOK'
    BY <1>0, <1>8 DEF FindExisting, Create, RemoteTypeOK, history
  <2>3. BranchInv'
    BY <1>0, <1>8, AtType
    DEF FindExisting, Create, BranchInv, Steps, git, RemoteTypeOK
  <2> QED BY <2>1, <2>2, <2>3 DEF TypeInv
<1>9. CASE Restore(r)
  <2>0. crashes' \in 0 .. MaxCrashes
    BY <1>0, <1>9, CheckoutAssumption DEF Restore, PublisherTypeOK
  <2>1. PublisherTypeOK' /\ RemoteTypeOK'
    <3>1. pc' \in [Runs -> Steps] /\ alone' \in BOOLEAN
      BY <1>0, <1>9, AtType DEF Restore, Steps, PublisherTypeOK
    <3>2. /\ UNCHANGED <<remote, prs, pushed, reviews, mains>>
          /\ files' = files /\ original' = original /\ result' = result
          /\ reset' = reset /\ tries' = tries /\ outside' = outside
      BY <1>9 DEF Restore
    <3>3. RemoteTypeOK'
      BY <1>0, <3>2 DEF RemoteTypeOK
    <3> QED BY <1>0, <2>0, <3>1, <3>2, <3>3 DEF PublisherTypeOK
  <2>2. GitTypeOK' /\ local' = local
    BY <1>0, <1>9, ForceSwitchType DEF Restore, GitTypeOK, PublisherTypeOK
  <2>3. BranchInv'
    BY <1>0, <1>9, <2>2, AtType DEF Restore, BranchInv, Steps
  <2> QED BY <2>1, <2>2, <2>3 DEF TypeInv
<1> QED BY <1>1, <1>2, <1>3, <1>4, <1>5, <1>6, <1>7, <1>8, <1>9 DEF Publish

(* One process dying inside, the demo reset, and what happens at GitHub.   *)
LEMMA OutsideType ==
  ASSUME TypeInv,
         \/ \E r \in Runs : Validated(r) \/ Crash(r) \/ Review(r) \/ Close(r)
         \/ BeginReset \/ ResetHard \/ EditMain
  PROVE  TypeInv'
<1>0. GitTypeOK /\ RemoteTypeOK /\ PublisherTypeOK /\ BranchInv
  BY DEF TypeInv
<1>1. ASSUME NEW r \in Runs, Validated(r) PROVE TypeInv'
  <2>1. tries' \in 0 .. MaxTries
    BY <1>0, <1>1, CheckoutAssumption DEF Validated, PublisherTypeOK
  <2>2. /\ UNCHANGED <<head, local, index, work, origin, stale, remote, prs>>
        /\ UNCHANGED <<pushed, reviews, mains>>
        /\ original' = original /\ reset' = reset /\ crashes' = crashes
        /\ outside' = outside /\ alone' = alone
    BY <1>1 DEF Validated, git, history
  <2>3. /\ pc' \in [Runs -> Steps] /\ pc'[r] = "validated"
        /\ \A q \in Runs \ {r} : pc'[q] = pc[q]
    BY <1>0, <1>1 DEF Validated, PublisherTypeOK, Steps
  <2>4. files' \in [Runs -> SUBSET Files]
    BY <1>0, <1>1 DEF Validated, PublisherTypeOK
  <2>5. result' \in [Runs -> {"none", "raised", "failed", "open"}]
    BY <1>0, <1>1 DEF Validated, PublisherTypeOK
  <2>6. PublisherTypeOK'
    BY <1>0, <2>1, <2>2, <2>3, <2>4, <2>5 DEF PublisherTypeOK
  <2>7. GitTypeOK' /\ RemoteTypeOK'
    BY <1>0, <2>2 DEF GitTypeOK, RemoteTypeOK
  <2>8. BranchInv'
    BY <1>0, <2>2, <2>3 DEF BranchInv
  <2> QED BY <2>6, <2>7, <2>8 DEF TypeInv
<1>2. ASSUME NEW r \in Runs, Crash(r) PROVE TypeInv'
  <2>1. crashes' \in 0 .. MaxCrashes
    BY <1>0, <1>2, CheckoutAssumption DEF Crash, PublisherTypeOK
  <2>2. /\ UNCHANGED <<head, local, index, work, origin, stale, remote, prs>>
        /\ UNCHANGED <<pushed, reviews, mains>>
        /\ original' = original /\ reset' = reset /\ tries' = tries
        /\ files' = files /\ result' = result /\ outside' = outside /\ alone' = FALSE
    BY <1>2 DEF Crash, git
  <2>3. /\ pc' \in [Runs -> Steps] /\ pc'[r] = "idle"
        /\ \A q \in Runs \ {r} : pc'[q] = pc[q]
    BY <1>0, <1>2 DEF Crash, PublisherTypeOK, Steps
  <2>4. PublisherTypeOK'
    BY <1>0, <2>1, <2>2, <2>3 DEF PublisherTypeOK
  <2>5. GitTypeOK' /\ RemoteTypeOK'
    BY <1>0, <2>2 DEF GitTypeOK, RemoteTypeOK
  <2>6. BranchInv'
    BY <1>0, <2>2, <2>3 DEF BranchInv
  <2> QED BY <2>4, <2>5, <2>6 DEF TypeInv
<1>3. ASSUME NEW r \in Runs, Review(r) PROVE TypeInv'
  <2>1. outside' \in 0 .. MaxOutside
    BY <1>0, <1>3, CheckoutAssumption DEF Review, Outside, PublisherTypeOK
  <2>2. /\ UNCHANGED <<head, local, index, work, origin, prs, pushed, mains>>
        /\ UNCHANGED <<pc, files, original, result>>
        /\ reset' = reset /\ tries' = tries /\ crashes' = crashes /\ alone' = alone
        /\ stale' = stale \cup {r}
    BY <1>3 DEF Review
  <2>3. remote[r] \in Tree /\ r \in Branches /\ r # "main"
    BY <1>0, <1>3, MainIsNoRun DEF Review, BranchInv, RemoteTypeOK
  <2>4. PICK f \in Files :
             /\ remote' = [remote EXCEPT ![r] = [remote[r] EXCEPT ![f] = Reviewed]]
             /\ reviews' = [reviews EXCEPT ![r] = reviews[r] \cup {f}]
    BY <1>0, <1>3, <2>3 DEF Review, RemoteTypeOK
  <2>5. [remote[r] EXCEPT ![f] = Reviewed] \in Tree
    BY <2>3 DEF Tree, Content
  <2>6. /\ remote' \in [Branches -> Tree \cup {None}] /\ remote'["main"] = remote["main"]
        /\ \A q \in Runs : remote[q] # None => remote'[q] # None
    BY <1>0, <2>3, <2>4, <2>5, MainIsNoRun, CheckoutAssumption DEF RemoteTypeOK
  <2>7. reviews' \in [Runs -> SUBSET Files]
    BY <1>0, <2>4 DEF RemoteTypeOK
  <2>8. PublisherTypeOK'
    BY <1>0, <2>1, <2>2 DEF PublisherTypeOK
  <2>9. GitTypeOK' /\ RemoteTypeOK' /\ BranchInv'
    BY <1>0, <2>2, <2>6, <2>7 DEF GitTypeOK, RemoteTypeOK, BranchInv
  <2> QED BY <2>8, <2>9 DEF TypeInv
<1>4. ASSUME NEW r \in Runs, Close(r) PROVE TypeInv'
  <2>1. outside' \in 0 .. MaxOutside
    BY <1>0, <1>4, CheckoutAssumption DEF Close, Outside, PublisherTypeOK
  <2>2. /\ UNCHANGED <<head, local, index, work, origin, stale, pushed, reviews>>
        /\ UNCHANGED <<pc, files, original, result>>
        /\ reset' = reset /\ tries' = tries /\ crashes' = crashes /\ alone' = alone
        /\ prs' = [prs EXCEPT ![r] = "closed"] /\ prs[r] = "open"
        /\ mains' = mains \cup {remote'["main"]}
    BY <1>4 DEF Close, git
  <2>3. remote[r] \in Tree /\ remote["main"] \in Tree /\ "main" \in Branches
    BY <1>0, <1>4, MainIsNoRun DEF Close, BranchInv, RemoteTypeOK
  <2>4. [f \in Files |-> IF remote[r][f] \in Versions THEN remote["main"][f]
                         ELSE remote[r][f]] \in Tree
    BY <2>3 DEF Tree
  <2>5. /\ remote' \in [Branches -> Tree \cup {None}] /\ remote'["main"] \in Tree
        /\ \A q \in Runs : remote[q] # None => remote'[q] # None
    BY <1>0, <1>4, <2>3, <2>4, MainIsNoRun, CheckoutAssumption DEF Close, RemoteTypeOK
  <2>6. prs' \in [Runs -> {"none", "open", "closed"}]
        /\ \A q \in Runs : prs'[q] # "none" => prs[q] # "none"
    BY <1>0, <2>2 DEF RemoteTypeOK
  <2>7. PublisherTypeOK'
    BY <1>0, <2>1, <2>2 DEF PublisherTypeOK
  <2>8. GitTypeOK'
    BY <1>0, <2>2 DEF GitTypeOK
  <2>9. RemoteTypeOK'
    BY <1>0, <2>2, <2>5, <2>6, CheckoutAssumption DEF RemoteTypeOK
  <2>10. BranchInv'
    BY <1>0, <2>2, <2>5, <2>6 DEF BranchInv
  <2> QED BY <2>7, <2>8, <2>9, <2>10 DEF TypeInv
<1>5. CASE BeginReset
  <2>1. /\ UNCHANGED <<origin, stale, remote, prs, pushed, reviews, mains>>
        /\ UNCHANGED <<pc, files, original, result>>
        /\ crashes' = crashes /\ tries' = tries /\ outside' = outside
        /\ reset' = "checked_out" /\ alone' \in BOOLEAN
    BY <1>0, <1>5 DEF BeginReset, bounds, Enter, PublisherTypeOK
  <2>2. GitTypeOK' /\ local' = local
    BY <1>0, <1>5, <2>1, ForceSwitchType, MainIsNoRun DEF BeginReset, GitTypeOK
  <2>3. PublisherTypeOK'
    BY <1>0, <2>1 DEF PublisherTypeOK
  <2> QED BY <1>0, <2>1, <2>2, <2>3 DEF TypeInv, RemoteTypeOK, BranchInv
<1>6. CASE ResetHard
  <2>1. /\ UNCHANGED <<head, origin, stale, remote, prs, pushed, reviews, mains>>
        /\ UNCHANGED <<pc, files, original, result>>
        /\ crashes' = crashes /\ tries' = tries /\ outside' = outside
        /\ reset' = "idle" /\ alone' = alone
    BY <1>6 DEF ResetHard, bounds, history
  <2>2. /\ local' \in [Branches -> Tree \cup {None}] /\ index' \in Tree /\ work' \in Tree
        /\ \A b \in Branches : local[b] # None => local'[b] # None
    BY <1>0, <1>6, CheckoutAssumption DEF ResetHard, GitTypeOK
  <2>3. GitTypeOK' /\ PublisherTypeOK'
    BY <1>0, <2>1, <2>2 DEF GitTypeOK, PublisherTypeOK
  <2>4. BranchInv'
    BY <1>0, <2>1, <2>2, MainIsNoRun DEF BranchInv
  <2> QED BY <1>0, <2>1, <2>3, <2>4 DEF TypeInv, RemoteTypeOK
<1>7. CASE EditMain
  <2>1. outside' \in 0 .. MaxOutside
    BY <1>0, <1>7, CheckoutAssumption DEF EditMain, Outside, PublisherTypeOK
  <2>2. /\ UNCHANGED <<head, local, index, work, origin, stale, prs, pushed, reviews>>
        /\ UNCHANGED <<pc, files, original, result>>
        /\ reset' = reset /\ tries' = tries /\ crashes' = crashes /\ alone' = alone
        /\ mains' = mains \cup {remote'["main"]}
    BY <1>7 DEF EditMain, git
  <2>3. remote["main"] \in Tree /\ "main" \in Branches
    BY <1>0, MainIsNoRun DEF RemoteTypeOK
  <2>4. PICK f \in Files, v \in Versions :
             remote' = [remote EXCEPT !["main"] = [remote["main"] EXCEPT ![f] = v]]
    BY <1>0, <1>7, <2>3 DEF EditMain, RemoteTypeOK
  <2>5. [remote["main"] EXCEPT ![f] = v] \in Tree
    BY <2>3 DEF Tree, Content
  <2>6. /\ remote' \in [Branches -> Tree \cup {None}] /\ remote'["main"] \in Tree
        /\ \A q \in Runs : remote[q] # None => remote'[q] # None
    BY <1>0, <2>3, <2>4, <2>5, MainIsNoRun DEF RemoteTypeOK
  <2>7. PublisherTypeOK' /\ GitTypeOK'
    BY <1>0, <2>1, <2>2 DEF PublisherTypeOK, GitTypeOK
  <2>8. RemoteTypeOK' /\ BranchInv'
    BY <1>0, <2>2, <2>6, CheckoutAssumption DEF RemoteTypeOK, BranchInv
  <2> QED BY <2>7, <2>8 DEF TypeInv
<1> QED BY <1>1, <1>2, <1>3, <1>4, <1>5, <1>6, <1>7

(* Every step keeps the types.                                             *)
LEMMA TypeStep == TypeInv /\ [Next]_vars => TypeInv'
<1> SUFFICES ASSUME TypeInv, [Next]_vars PROVE TypeInv'
  OBVIOUS
<1>1. CASE Next
  BY <1>1, PublishType, OutsideType DEF Next
<1>2. CASE UNCHANGED vars
  <2>1. UNCHANGED git /\ UNCHANGED history /\ UNCHANGED bounds
        /\ UNCHANGED <<remote, prs, pc, files, original, result, reset>>
    BY <1>2 DEF vars
  <2>2. GitTypeOK' /\ RemoteTypeOK' /\ BranchInv'
    BY <2>1 DEF git, history, TypeInv, GitTypeOK, RemoteTypeOK, BranchInv
  <2>3. PublisherTypeOK'
    BY <2>1 DEF bounds, history, TypeInv, PublisherTypeOK
  <2> QED BY <2>2, <2>3 DEF TypeInv
<1> QED BY <1>1, <1>2

(* The checkout, the branches at GitHub, the pull requests and the         *)
(* publishers always have their types; a branch that is checked out exists.*)
THEOREM TypeCorrect == Spec => []TypeOK
<1>1. TypeInv => TypeOK
  BY TypeInvType
<1> QED BY TypeInit, TypeStep, <1>1, PTL DEF Spec

-----------------------------------------------------------------------------
(* A reviewed branch has moved since the checkout heard of it, so no lease *)
(* on it is granted.                                                       *)

Unleasable == \A r \in Runs \ stale : reviews[r] = {}

ReviewInv == ReviewKept /\ Unleasable

(* At first nobody has reviewed anything.                                  *)
LEMMA ReviewInit == Init => ReviewInv
BY DEF Init, ReviewInv, ReviewKept, Unleasable

(* Only a push and a review write a run's branch, and a push is refused    *)
(* on a reviewed one.                                                      *)
LEMMA ReviewStep == TypeInv /\ ReviewInv /\ [Next]_vars => ReviewInv'
<1> SUFFICES ASSUME TypeInv, ReviewKept, Unleasable, [Next]_vars PROVE ReviewKept' /\ Unleasable'
  BY DEF ReviewInv
<1>0. /\ GitTypeOK /\ RemoteTypeOK /\ PublisherTypeOK /\ BranchInv
      /\ "main" \notin Runs /\ Runs \subseteq Branches
  BY MainIsNoRun DEF TypeInv
<1>1. ASSUME UNCHANGED <<stale, reviews>>, \A q \in Runs : remote'[q] = remote[q]
      PROVE  ReviewKept' /\ Unleasable'
  BY <1>1 DEF ReviewKept, Unleasable
<1>2. ASSUME NEW r \in Runs, Push(r) PROVE ReviewKept' /\ Unleasable'
  <2>1. /\ reviews' = reviews /\ stale \subseteq stale'
        /\ \/ remote' = remote
           \/ r \notin stale /\ remote' = [remote EXCEPT ![r] = local[r]]
    BY <1>2 DEF Push, Leased
  <2>2. \A q \in Runs : reviews[q] = {} \/ remote'[q] = remote[q]
    BY <1>0, <2>1 DEF RemoteTypeOK, Unleasable
  <2>3. Unleasable'
    BY <2>1 DEF Unleasable
  <2>4. ASSUME NEW q \in Runs, NEW f \in reviews'[q] PROVE remote'[q][f] = Reviewed
    BY <2>1, <2>2, <2>4 DEF ReviewKept
  <2> QED BY <2>3, <2>4 DEF ReviewKept
<1>3. ASSUME NEW r \in Runs, Publish(r), ~Push(r) PROVE ReviewKept' /\ Unleasable'
  <2>1. UNCHANGED <<stale, remote, reviews>>
    BY <1>3 DEF Publish, Begin, Fetch, Branch, Write, Add, Commit, FindExisting, Create,
                Restore, git, history
  <2> QED BY <1>1, <2>1
<1>4. ASSUME NEW r \in Runs, Review(r) PROVE ReviewKept' /\ Unleasable'
  <2>1. r \in Branches /\ remote[r] \in Tree
    BY <1>0, <1>4 DEF Review, BranchInv, RemoteTypeOK
  <2>2. PICK f \in Files :
             /\ remote' = [remote EXCEPT ![r] = [remote[r] EXCEPT ![f] = Reviewed]]
             /\ reviews' = [reviews EXCEPT ![r] = reviews[r] \cup {f}]
    BY <1>0, <1>4 DEF Review, RemoteTypeOK
  <2>3. stale' = stale \cup {r}
    BY <1>4 DEF Review
  <2>4. \A q \in Runs \ {r} : remote'[q] = remote[q] /\ reviews'[q] = reviews[q]
    BY <1>0, <2>2 DEF RemoteTypeOK
  <2>5. /\ remote'[r] = [remote[r] EXCEPT ![f] = Reviewed] /\ reviews'[r] = reviews[r] \cup {f}
    BY <1>0, <2>1, <2>2 DEF RemoteTypeOK
  <2>6. ASSUME NEW g \in reviews'[r] PROVE remote'[r][g] = Reviewed
    <3>1. g \in Files
      BY <1>0, <2>5, <2>6 DEF RemoteTypeOK
    <3>2. g = f \/ remote[r][g] = Reviewed
      BY <2>5, <2>6 DEF ReviewKept
    <3> QED BY <2>1, <2>5, <3>1, <3>2 DEF Tree
  <2>7. ASSUME NEW q \in Runs, q # r, NEW g \in reviews'[q] PROVE remote'[q][g] = Reviewed
    BY <2>4, <2>7 DEF ReviewKept
  <2>8. ReviewKept'
    BY <2>6, <2>7 DEF ReviewKept
  <2>9. Unleasable'
    BY <2>3, <2>4 DEF Unleasable
  <2> QED BY <2>8, <2>9
<1>5. ASSUME NEW r \in Runs, Close(r) PROVE ReviewKept' /\ Unleasable'
  <2>1. UNCHANGED <<stale, reviews>> /\ \A q \in Runs : remote'[q] = remote[q]
    BY <1>0, <1>5 DEF Close, git, RemoteTypeOK
  <2> QED BY <1>1, <2>1
<1>6. CASE EditMain
  <2>1. UNCHANGED <<stale, reviews>> /\ \A q \in Runs : remote'[q] = remote[q]
    BY <1>0, <1>6 DEF EditMain, git, RemoteTypeOK
  <2> QED BY <1>1, <2>1
<1>7. CASE BeginReset \/ ResetHard \/ UNCHANGED vars
  <2>1. UNCHANGED <<stale, remote, reviews>>
    BY <1>7 DEF BeginReset, ResetHard, vars, git, history
  <2> QED BY <1>1, <2>1
<1>8. ASSUME NEW r \in Runs, Validated(r) \/ Crash(r) PROVE ReviewKept' /\ Unleasable'
  <2>1. UNCHANGED <<stale, remote, reviews>>
    BY <1>8 DEF Validated, Crash, git, history
  <2> QED BY <1>1, <2>1
<1> QED BY <1>2, <1>3, <1>4, <1>5, <1>6, <1>7, <1>8 DEF Next

(* --force-with-lease: what a reviewer committed to a run's branch is      *)
(* never pushed over, whoever else uses the checkout.                      *)
THEOREM ReviewKeptHolds == Spec => []ReviewKept
<1>1. ReviewInv => ReviewKept
  BY DEF ReviewInv
<1> QED BY TypeInit, TypeStep, ReviewInit, ReviewStep, <1>1, PTL DEF Spec

-----------------------------------------------------------------------------
(* The checkout used by one at a time.                                     *)

Clean == head = "main" /\ index = local["main"] /\ work = local["main"]

(* The tree with a run's patch.                                            *)
Patched(r, tree) == [f \in Files |-> IF f \in files[r] THEN r ELSE tree[f]]

(* Where the checkout is at each step of its only publisher.               *)
Stage(r) ==
  /\ original[r] = "main"
  /\ pc[r] \in {"fetch", "branch"} => Clean
  /\ pc[r] \in {"write", "add", "commit"} => head = r /\ local[r] \in mains
  /\ pc[r] \in {"write", "add"} => index = local[r]
  /\ pc[r] = "write" => work = local[r]
  /\ pc[r] \in {"add", "commit"} => work = Patched(r, local[r])
  /\ pc[r] = "commit" => index = work
  /\ pc[r] = "push" => \E m \in mains : local[r] = Patched(r, m)

Alone ==
  /\ local["main"] \in mains
  /\ \A r, q \in Publishing : r = q
  /\ reset # "idle" => Publishing = {}
  /\ Publishing = {} => Clean
  /\ \A r \in Publishing : Stage(r)
  /\ PushedIsValidated

AloneInv ==
  /\ origin \in mains /\ remote["main"] \in mains
  /\ alone => Alone

(* Nobody is inside exactly when the count says so.                        *)
LEMMA BusyZero ==
  ASSUME PublisherTypeOK PROVE Busy = 0 <=> Publishing = {} /\ reset = "idle"
<1>1. IsFiniteSet(Publishing)
  BY CheckoutAssumption, FS_Subset DEF Publishing
<1>2. Cardinality(Publishing) \in Nat /\ (Cardinality(Publishing) = 0 <=> Publishing = {})
  BY <1>1, FS_CardinalityType, FS_EmptySet
<1> QED BY <1>2 DEF Busy

(* With a clean checkout, checking a tree out leaves exactly that tree.    *)
LEMMA CleanSwitch ==
  ASSUME TypeInv, NEW r \in Runs, NEW to \in Tree, Switch(r, to),
         index = local[head], work = local[head]
  PROVE  head' = r /\ local' = [local EXCEPT ![r] = to] /\ index' = to /\ work' = to
<1>1. index \in [Files -> Content] /\ to \in [Files -> Content] /\ work = index
  BY DEF TypeInv, GitTypeOK, Tree
<1>2. index' = [f \in Files |-> IF f \in Moved(to) THEN to[f] ELSE index[f]]
      /\ work' = [f \in Files |-> IF f \in Moved(to) THEN to[f] ELSE index[f]]
  BY <1>1 DEF Switch
<1>3. \A f \in Files : f \notin Moved(to) => to[f] = index[f]
  BY DEF Moved
<1>4. index' = to /\ work' = to
  BY <1>1, <1>2, <1>3
<1> QED BY <1>4 DEF Switch

(* The only publisher stays so until it is done.                           *)
LEMMA OnlyPublisher ==
  ASSUME TypeInv, Alone, NEW r \in Runs, pc[r] \notin {"idle", "validated", "done"},
         NEW next, pc' = [pc EXCEPT ![r] = next], reset' = reset
  PROVE  /\ reset' = "idle" /\ Stage(r) /\ pc'[r] = next
         /\ Publishing' = IF next \in {"idle", "validated", "done"} THEN {} ELSE {r}
<1>1. r \in Publishing /\ \A q \in Runs \ {r} : pc[q] \in {"idle", "validated", "done"}
  BY DEF Alone, Publishing
<1>2. pc'[r] = next /\ \A q \in Runs \ {r} : pc'[q] = pc[q]
  BY DEF TypeInv, PublisherTypeOK
<1>3. Publishing' = IF next \in {"idle", "validated", "done"} THEN {} ELSE {r}
  BY <1>1, <1>2 DEF Publishing
<1> QED BY <1>1, <1>2, <1>3 DEF Alone

(* What such a step still has to show.                                     *)
LEMMA AloneKept ==
  ASSUME TypeInv, Alone, NEW r \in Runs, pc[r] \notin {"idle", "validated", "done"},
         NEW next \in Steps \ {"idle", "validated", "done"},
         pc' = [pc EXCEPT ![r] = next], reset' = reset,
         local'["main"] = local["main"], mains' = mains, Stage(r)', PushedIsValidated'
  PROVE  Alone'
<1>1. reset' = "idle" /\ Publishing' = {r}
  BY OnlyPublisher
<1> QED BY <1>1 DEF Alone

(* main only gets more states, and an old push stays explained by them.    *)
LEMMA ExactKept ==
  ASSUME PushedIsValidated, pushed' = pushed, mains \subseteq mains' PROVE PushedIsValidated'
<1> SUFFICES ASSUME NEW r \in Runs, pushed'[r] # None
             PROVE  \E m \in mains' : pushed'[r].tree =
                      [f \in Files |-> IF f \in pushed'[r].files THEN r ELSE m[f]]
  BY DEF PushedIsValidated, Exact
<1>1. PICK m \in mains : pushed[r].tree =
                           [f \in Files |-> IF f \in pushed[r].files THEN r ELSE m[f]]
  BY DEF PushedIsValidated, Exact
<1> QED BY <1>1

(* Every step of the only publisher, the last one aside.                   *)
LEMMA AloneWork ==
  ASSUME TypeInv, AloneInv, Alone, NEW r \in Runs, Publish(r), ~Begin(r), ~Restore(r)
  PROVE  Alone'
<1>0. /\ GitTypeOK /\ RemoteTypeOK /\ PublisherTypeOK /\ BranchInv
      /\ "main" \notin Runs /\ Runs \subseteq Branches /\ "main" \in Branches
  BY MainIsNoRun DEF TypeInv
<1>1. Stage(r) /\ reset = "idle"
  <2>1. r \in Publishing
    BY DEF Publish, Fetch, Branch, Write, Add, Commit, Push, FindExisting, Create, Raise, At,
           Publishing
  <2> QED BY <2>1 DEF Alone, PublisherTypeOK
<1>2. CASE Fetch(r)
  <2>1. pc[r] = "fetch" /\ pc' = [pc EXCEPT ![r] = "branch"]
        /\ UNCHANGED <<head, local, index, work, files, original, reset, pushed, mains>>
    BY <1>2 DEF Fetch, At, history
  <2>2. pc'[r] = "branch"
    BY <1>0, <2>1 DEF PublisherTypeOK
  <2>3. Stage(r)'
    BY <1>1, <2>1, <2>2 DEF Stage, Clean
  <2>4. PushedIsValidated'
    BY <2>1, ExactKept DEF Alone
  <2> QED BY <2>1, <2>3, <2>4, AloneKept DEF Steps
<1>3. CASE Branch(r)
  <2>1. /\ UNCHANGED <<files, original, reset, pushed, mains>>
        /\ pc[r] = "branch"
    BY <1>3 DEF Branch, Raise, At, history
  <2>2. PushedIsValidated'
    BY <2>1, ExactKept DEF Alone
  <2>3. Clean
    BY <1>1, <2>1 DEF Stage
  <2>4. ASSUME NEW to \in mains, to \in Tree, Switch(r, to), At(r, "branch", "write")
        PROVE  Alone'
    <3>1. head' = r /\ local' = [local EXCEPT ![r] = to] /\ index' = to /\ work' = to
      BY <2>3, <2>4, CleanSwitch DEF Clean
    <3>2. local'[r] = to /\ local'["main"] = local["main"]
      BY <1>0, <3>1 DEF GitTypeOK
    <3>3. pc'[r] = "write" /\ pc' = [pc EXCEPT ![r] = "write"]
      BY <1>0, <2>4 DEF At, PublisherTypeOK
    <3>4. Stage(r)'
      BY <1>1, <2>1, <2>4, <3>1, <3>2, <3>3 DEF Stage
    <3> QED BY <2>1, <2>2, <3>2, <3>3, <3>4, AloneKept DEF Steps
  <2>5. CASE Raise(r, "branch") /\ UNCHANGED <<head, local, index, work>>
    <3>1. pc'[r] = "restoring" /\ pc' = [pc EXCEPT ![r] = "restoring"]
      BY <1>0, <2>5 DEF Raise, At, PublisherTypeOK
    <3>2. Stage(r)'
      BY <1>1, <2>1, <3>1 DEF Stage
    <3> QED BY <2>1, <2>2, <2>5, <3>1, <3>2, AloneKept DEF Steps
  <2>6. /\ origin \in Tree /\ local[head] \in Tree
        /\ origin \in mains /\ local[head] \in mains
    BY <1>0, <2>3 DEF GitTypeOK, AloneInv, Alone, Clean
  <2> QED BY <1>3, <2>4, <2>5, <2>6 DEF Branch
<1>4. CASE Write(r)
  <2>1. /\ pc[r] = "write"
        /\ UNCHANGED <<head, local, index, files, original, reset, pushed, mains>>
    BY <1>4 DEF Write, Raise, At, history
  <2>2. PushedIsValidated'
    BY <2>1, ExactKept DEF Alone
  <2>3. CASE At(r, "write", "add") /\ Copied(r, files[r])
    <3>1. pc'[r] = "add" /\ pc' = [pc EXCEPT ![r] = "add"] /\ work' = Patched(r, work)
      BY <1>0, <2>3 DEF At, Copied, Patched, PublisherTypeOK
    <3>2. Stage(r)'
      BY <1>1, <2>1, <3>1 DEF Stage, Patched
    <3> QED BY <2>1, <2>2, <3>1, <3>2, AloneKept DEF Steps
  <2>4. CASE Raise(r, "write")
    <3>1. pc'[r] = "restoring" /\ pc' = [pc EXCEPT ![r] = "restoring"]
      BY <1>0, <2>4 DEF Raise, At, PublisherTypeOK
    <3>2. Stage(r)'
      BY <1>1, <2>1, <3>1 DEF Stage
    <3> QED BY <2>1, <2>2, <2>4, <3>1, <3>2, AloneKept DEF Steps
  <2> QED BY <1>4, <2>3, <2>4 DEF Write
<1>5. CASE Add(r)
  <2>1. /\ pc[r] = "add"
        /\ UNCHANGED <<head, local, work, files, original, reset, pushed, mains>>
    BY <1>5 DEF Add, Raise, At, history
  <2>2. PushedIsValidated'
    BY <2>1, ExactKept DEF Alone
  <2>3. CASE At(r, "add", "commit") /\
             index' = [f \in Files |-> IF f \in files[r] THEN work[f] ELSE index[f]]
    <3>1. pc'[r] = "commit" /\ pc' = [pc EXCEPT ![r] = "commit"]
      BY <1>0, <2>3 DEF At, PublisherTypeOK
    <3>2. work = Patched(r, local[r]) /\ index = local[r] /\ head = r /\ local[r] \in mains
      BY <1>1, <2>1 DEF Stage
    <3>3. index' = work
      BY <2>3, <3>2 DEF Patched
    <3>4. Stage(r)'
      BY <1>1, <2>1, <3>1, <3>2, <3>3 DEF Stage, Patched
    <3> QED BY <2>1, <2>2, <3>1, <3>4, AloneKept DEF Steps
  <2>4. CASE Raise(r, "add") /\ UNCHANGED index
    <3>1. pc'[r] = "restoring" /\ pc' = [pc EXCEPT ![r] = "restoring"]
      BY <1>0, <2>4 DEF Raise, At, PublisherTypeOK
    <3>2. Stage(r)'
      BY <1>1, <2>1, <3>1 DEF Stage
    <3> QED BY <2>1, <2>2, <3>1, <3>2, AloneKept DEF Steps
  <2> QED BY <1>5, <2>3, <2>4 DEF Add
<1>6. CASE Commit(r)
  <2>1. /\ pc[r] = "commit"
        /\ UNCHANGED <<head, index, work, files, original, reset, pushed, mains>>
    BY <1>6 DEF Commit, Raise, At, history
  <2>2. PushedIsValidated'
    BY <2>1, ExactKept DEF Alone
  <2>3. index = Patched(r, local[r]) /\ head = r /\ local[r] \in mains
    BY <1>1, <2>1 DEF Stage
  <2>4. CASE At(r, "commit", "push")
    <3>1. pc'[r] = "push" /\ pc' = [pc EXCEPT ![r] = "push"]
      BY <1>0, <2>4 DEF At, PublisherTypeOK
    <3>2. local'[r] = Patched(r, local[r]) /\ local'["main"] = local["main"]
      BY <1>0, <1>6, <2>3, <2>4, <3>1 DEF Commit, Raise, At, GitTypeOK
    <3>3. Stage(r)'
      BY <1>1, <2>1, <2>3, <3>1, <3>2 DEF Stage, Patched
    <3> QED BY <2>1, <2>2, <3>1, <3>2, <3>3, AloneKept DEF Steps
  <2>5. CASE Raise(r, "commit") /\ UNCHANGED local
    <3>1. pc'[r] = "restoring" /\ pc' = [pc EXCEPT ![r] = "restoring"]
      BY <1>0, <2>5 DEF Raise, At, PublisherTypeOK
    <3>2. Stage(r)'
      BY <1>1, <2>1, <3>1 DEF Stage
    <3> QED BY <2>1, <2>2, <2>5, <3>1, <3>2, AloneKept DEF Steps
  <2> QED BY <1>6, <2>4, <2>5 DEF Commit
<1>7. CASE Push(r)
  <2>1. /\ pc[r] = "push" /\ pc' \in {[pc EXCEPT ![r] = "list"], [pc EXCEPT ![r] = "restoring"]}
        /\ UNCHANGED <<head, local, index, work, files, original, reset, mains>>
        /\ pushed' = pushed \/
             pushed' = [pushed EXCEPT ![r] = [tree |-> local[r], files |-> files[r]]]
    BY <1>7 DEF Push, At
  <2>2. PICK next \in {"list", "restoring"} : pc' = [pc EXCEPT ![r] = next]
    BY <2>1
  <2>3. pc'[r] = next
    BY <1>0, <2>2 DEF PublisherTypeOK
  <2>4. Stage(r)'
    BY <1>1, <2>1, <2>2, <2>3 DEF Stage
  <2>5. PushedIsValidated'
    <3>1. CASE pushed' = pushed
      BY <2>1, <3>1, ExactKept DEF Alone
    <3>2. CASE pushed' = [pushed EXCEPT ![r] = [tree |-> local[r], files |-> files[r]]]
      <4>1. PICK m \in mains : local[r] = [f \in Files |-> IF f \in files[r] THEN r ELSE m[f]]
        BY <1>1, <2>1 DEF Stage, Patched
      <4>2. pushed'[r].tree = local[r] /\ pushed'[r].files = files[r]
            /\ \A q \in Runs \ {r} : pushed'[q] = pushed[q]
        BY <1>0, <3>2 DEF RemoteTypeOK
      <4>3. Exact(r)'
        BY <2>1, <4>1, <4>2 DEF Exact
      <4>4. ASSUME NEW q \in Runs \ {r} PROVE Exact(q)'
        <5>1. Exact(q) /\ pushed'[q] = pushed[q] /\ mains' = mains
          BY <2>1, <4>2 DEF Alone, PushedIsValidated
        <5> QED BY <5>1 DEF Exact
      <4> QED BY <4>3, <4>4 DEF PushedIsValidated
    <3> QED BY <2>1, <3>1, <3>2
  <2> QED BY <2>1, <2>2, <2>4, <2>5, AloneKept DEF Steps
<1>8. CASE FindExisting(r) \/ Create(r)
  <2>1. /\ pc[r] \in {"list", "create"}
        /\ pc' \in {[pc EXCEPT ![r] = "create"], [pc EXCEPT ![r] = "restoring"]}
        /\ UNCHANGED <<head, local, index, work, files, original, reset, pushed, mains>>
    BY <1>8 DEF FindExisting, Create, At, git, history
  <2>2. PICK next \in {"create", "restoring"} : pc' = [pc EXCEPT ![r] = next]
    BY <2>1
  <2>3. pc'[r] = next
    BY <1>0, <2>2 DEF PublisherTypeOK
  <2>4. Stage(r)'
    BY <1>1, <2>1, <2>2, <2>3 DEF Stage
  <2>5. PushedIsValidated'
    BY <2>1, ExactKept DEF Alone
  <2> QED BY <2>1, <2>2, <2>4, <2>5, AloneKept DEF Steps
<1> QED BY <1>2, <1>3, <1>4, <1>5, <1>6, <1>7, <1>8 DEF Publish

(* The checkout is put back, or somebody could not do it.                  *)
LEMMA AloneRestore ==
  ASSUME TypeInv, Alone, NEW r \in Runs, Restore(r), alone' PROVE Alone'
<1>1. pc[r] = "restoring" /\ pc' = [pc EXCEPT ![r] = "done"]
      /\ UNCHANGED <<reset, pushed, mains>>
  BY DEF Restore, At
<1>2. Stage(r) /\ reset' = "idle" /\ Publishing' = {}
  BY <1>1, OnlyPublisher
<1>3. original[r] = "main" /\ r # "main"
  BY <1>2, MainIsNoRun DEF Stage
<1>4. ForceSwitch("main")
  BY <1>3 DEF Restore
<1>5. local' = local /\ Clean'
  BY <1>4 DEF ForceSwitch, Clean
<1>6. PushedIsValidated'
  BY <1>1, ExactKept DEF Alone
<1> QED BY <1>1, <1>2, <1>5, <1>6 DEF Alone

(* Somebody enters while nobody is inside.                                 *)
LEMMA AloneEnter ==
  ASSUME TypeInv, Alone, (\E r \in Runs : Begin(r)) \/ BeginReset, alone' PROVE Alone'
<1>1. Publishing = {} /\ reset = "idle" /\ Clean
  BY BusyZero DEF Begin, BeginReset, Enter, TypeInv, Alone
<1>2. UNCHANGED <<local, pushed, mains>>
  BY DEF Begin, BeginReset, ForceSwitch, git
<1>3. PushedIsValidated'
  BY <1>2, ExactKept DEF Alone
<1>4. ASSUME NEW r \in Runs, Begin(r) PROVE Alone'
  <2>1. /\ pc'[r] = "fetch" /\ original'[r] = "main" /\ reset' = "idle"
        /\ \A q \in Runs \ {r} : pc'[q] = pc[q]
        /\ UNCHANGED <<head, local, index, work>>
    BY <1>1, <1>4 DEF Begin, At, git, Clean, TypeInv, PublisherTypeOK
  <2>2. Publishing' = {r}
    BY <1>1, <2>1 DEF Publishing
  <2>3. Stage(r)'
    BY <1>1, <2>1 DEF Stage, Clean
  <2> QED BY <1>2, <1>3, <2>1, <2>2, <2>3 DEF Alone
<1>5. CASE BeginReset
  <2>1. Publishing' = {}
    BY <1>1, <1>5 DEF BeginReset, Publishing
  <2>2. Clean'
    BY <1>1, <1>2, <1>5 DEF BeginReset, ForceSwitch, Clean
  <2> QED BY <1>2, <1>3, <2>1, <2>2 DEF Alone
<1> QED BY <1>4, <1>5

(* Where nobody publishes and the checkout stays or is reset to main.      *)
LEMMA AloneRest ==
  ASSUME TypeInv, AloneInv, Alone, alone',
         \/ \E r \in Runs : Validated(r) \/ Crash(r) \/ Review(r) \/ Close(r)
         \/ ResetHard \/ EditMain \/ UNCHANGED vars
  PROVE  Alone'
<1>0. GitTypeOK /\ PublisherTypeOK /\ "main" \notin Runs /\ "main" \in Branches
  BY MainIsNoRun DEF TypeInv
<1>1. pushed' = pushed /\ mains \subseteq mains'
  BY DEF Validated, Crash, Review, Close, ResetHard, EditMain, vars, history
<1>2. PushedIsValidated'
  BY <1>1, ExactKept DEF Alone
<1>3. CASE ResetHard
  <2>1. Publishing = {} /\ Clean /\ origin \in mains
    BY <1>3 DEF ResetHard, Alone, AloneInv
  <2>2. Publishing' = {} /\ reset' = "idle" /\ mains' = mains
    BY <1>3, <2>1 DEF ResetHard, Publishing, history
  <2>3. Clean' /\ local'["main"] \in mains
    BY <1>0, <1>3, <2>1 DEF ResetHard, Clean, GitTypeOK, Alone
  <2> QED BY <1>2, <2>2, <2>3 DEF Alone
<1>4. ASSUME UNCHANGED <<head, local, index, work, pc, files, original, reset>> PROVE Alone'
  <2>1. Publishing' = Publishing
    BY <1>4 DEF Publishing
  <2>2. (Publishing = {} => Clean) => (Publishing' = {} => Clean')
    BY <1>4, <2>1 DEF Clean
  <2>3. ASSUME NEW r \in Publishing PROVE Stage(r)'
    <3>1. Stage(r)
      BY DEF Alone
    <3>2. pc[r] = "push" => \E m \in mains' : local'[r] = Patched(r, m)'
      BY <1>1, <1>4, <3>1 DEF Stage, Patched
    <3> QED BY <1>1, <1>4, <3>1, <3>2 DEF Stage, Clean, Patched
  <2> QED BY <1>1, <1>2, <1>4, <2>1, <2>2, <2>3 DEF Alone
<1>5. ASSUME NEW r \in Runs, Validated(r) PROVE Alone'
  <2>1. /\ UNCHANGED <<head, local, index, work, original, reset, mains>>
        /\ \A q \in Runs \ {r} : pc'[q] = pc[q] /\ files'[q] = files[q]
        /\ pc[r] \in {"idle", "done"} /\ pc'[r] = "validated"
    BY <1>0, <1>5 DEF Validated, git, history, PublisherTypeOK
  <2>2. Publishing' = Publishing /\ r \notin Publishing
    BY <2>1 DEF Publishing
  <2>3. ASSUME NEW q \in Publishing PROVE Stage(q)'
    <3>1. Stage(q) /\ pc'[q] = pc[q] /\ files'[q] = files[q]
      BY <2>1, <2>2 DEF Alone, Publishing
    <3> QED BY <2>1, <3>1 DEF Stage, Clean, Patched
  <2> QED BY <1>2, <2>1, <2>2, <2>3 DEF Alone, Clean
<1>6. ASSUME NEW r \in Runs, Review(r) \/ Close(r) PROVE Alone'
  BY <1>4, <1>6 DEF Review, Close, git
<1>7. CASE EditMain \/ UNCHANGED vars
  BY <1>4, <1>7 DEF EditMain, git, vars
<1>8. ASSUME NEW r \in Runs, Crash(r) PROVE FALSE
  BY <1>8 DEF Crash
<1> QED BY <1>3, <1>5, <1>6, <1>7, <1>8

(* What the checkout takes from GitHub has been on main.                   *)
LEMMA MainsStep ==
  ASSUME TypeInv, origin \in mains, remote["main"] \in mains, [Next]_vars
  PROVE  origin' \in mains' /\ remote'["main"] \in mains'
<1>0. RemoteTypeOK /\ "main" \notin Runs /\ "main" \in Branches
  BY MainIsNoRun DEF TypeInv
<1>1. ASSUME NEW r \in Runs, Publish(r) PROVE origin' \in mains' /\ remote'["main"] \in mains'
  <2>1. mains' = mains /\ origin' \in {origin, remote["main"]} /\ remote'["main"] = remote["main"]
    BY <1>0, <1>1 DEF Publish, Begin, Fetch, Branch, Write, Add, Commit, Push, FindExisting,
                      Create, Restore, git, history, RemoteTypeOK
  <2> QED BY <2>1
<1>2. ASSUME NEW r \in Runs, Validated(r) \/ Crash(r)
      PROVE  origin' \in mains' /\ remote'["main"] \in mains'
  BY <1>2 DEF Validated, Crash, git, history
<1>3. ASSUME NEW r \in Runs, Review(r)
      PROVE  origin' \in mains' /\ remote'["main"] \in mains'
  <2>1. remote'["main"] = remote["main"]
    BY <1>0, <1>3 DEF Review, RemoteTypeOK
  <2> QED BY <1>3, <2>1 DEF Review
<1>4. ASSUME NEW r \in Runs, Close(r)
      PROVE  origin' \in mains' /\ remote'["main"] \in mains'
  BY <1>4 DEF Close, git
<1>5. CASE BeginReset \/ ResetHard \/ EditMain \/ UNCHANGED vars
  BY <1>5 DEF BeginReset, ResetHard, EditMain, vars, git, history
<1> QED BY <1>1, <1>2, <1>3, <1>4, <1>5 DEF Next

(* Nobody has entered yet.                                                 *)
LEMMA AloneInit == Init => AloneInv
<1> SUFFICES ASSUME Init PROVE AloneInv
  OBVIOUS
<1>1. local["main"] = Start /\ remote["main"] = Start /\ "main" \in Branches
  BY MainIsNoRun DEF Init
<1>2. Publishing = {} /\ Clean
  BY <1>1 DEF Init, Publishing, Clean
<1>3. PushedIsValidated
  BY DEF Init, PushedIsValidated, Exact
<1> QED BY <1>1, <1>2, <1>3 DEF Init, AloneInv, Alone

(* Every step keeps it.                                                    *)
LEMMA AloneStep == TypeInv /\ AloneInv /\ [Next]_vars => AloneInv'
<1> SUFFICES ASSUME TypeInv, AloneInv, [Next]_vars PROVE AloneInv'
  OBVIOUS
<1>1. origin' \in mains' /\ remote'["main"] \in mains'
  BY MainsStep DEF AloneInv
<1>2. ASSUME alone' PROVE Alone'
  <2>1. Alone
    <3>1. alone
      BY <1>2 DEF Next, Publish, Validated, Begin, Fetch, Branch, Write, Add, Commit, Push,
                  FindExisting, Create, Restore, Crash, Review, Close, BeginReset, ResetHard,
                  EditMain, Enter, vars, history
    <3> QED BY <3>1 DEF AloneInv
  <2>2. ASSUME NEW r \in Runs, Publish(r) PROVE Alone'
    BY <1>2, <2>1, <2>2, AloneWork, AloneRestore, AloneEnter
  <2>3. CASE BeginReset
    BY <1>2, <2>1, <2>3, AloneEnter
  <2> QED BY <1>2, <2>1, <2>2, <2>3, AloneRest DEF Next
<1> QED BY <1>1, <1>2 DEF AloneInv

(* pr.py: "what is pushed is exactly what was validated": a pushed tree is *)
(* a state of main with the run's validated files, whatever fails or is    *)
(* retried, as long as nobody overlaps, dies inside or cannot restore.     *)
THEOREM AloneHolds == Spec => []PushedIsValidatedAlone
<1>1. AloneInv => PushedIsValidatedAlone
  BY DEF AloneInv, Alone, PushedIsValidatedAlone
<1> QED BY TypeInit, TypeStep, AloneInit, AloneStep, <1>1, PTL DEF Spec

(* The checkout is put back: with nobody inside, main is checked out,      *)
(* without an edit, and is a state it has had at GitHub.                   *)
THEOREM CheckoutRestoredHolds == Spec => []CheckoutRestored
<1>1. TypeInv /\ AloneInv => CheckoutRestored
  BY BusyZero DEF TypeInv, AloneInv, Alone, Clean, CheckoutRestored
<1> QED BY TypeInit, TypeStep, AloneInit, AloneStep, <1>1, PTL DEF Spec
=============================================================================
