---------------------------- MODULE ReceiptsProofs ----------------------------
(***************************************************************************)
(* What receipts and pushes guarantee for any number of worktrees, any     *)
(* versions of the files and any limit on the states of a search, as long  *)
(* as nobody edits a worktree while its receipt is being recorded.         *)
(***************************************************************************)
EXTENDS Receipts, FiniteSetTheorems, TLAPS

\* The assumption on the developer: no edit between the last comparison of the
\* trees and the receipt.
QuietRecording == EditPcs \cap {"recheck", "hash"} = {}

\* Every branch has a commit, and so has every branch that is being pushed.
Typed ==
  /\ TypeOK
  /\ \A w \in Worktrees : head[w] # NoRef /\ hook.tos[w] # NoRef
  /\ IsFiniteSet(hook.visited)

\* What a verification has established at each of its steps.  An edit shows in
\* the comparison with `before`, and after it nothing is edited.
RunOK(w) ==
  LET r == run[w]
      same == worktree[w] = r.before
      caught == <<r.base.rust, r.goal>> \in mutated
  IN /\ r.pc \in {"ci", "mutants", "after"} => same \/ r.edited
     /\ r.pc \in {"mutants", "after"} /\ same => r.before \in ciPassed
     /\ r.pc \in {"recheck", "hash"} => same /\ r.before \in ciPassed
     /\ r.kind = "ci" => r.base.rust = r.target.rust
     /\ r.kind = "ci" /\ r.pc \in {"ci", "mutants", "after", "recheck", "hash"}
          => r.before = r.target
     /\ r.kind # "ci" /\ r.pc = "after" /\ same /\ worktree[w].rust = r.goal => caught
     /\ r.pc = "recheck" /\ worktree[w].rust = r.goal => caught
     /\ r.kind # "ci" /\ r.pc = "hash" => worktree[w].rust = r.goal /\ caught

RunInv == \A w \in Worktrees : RunOK(w)

\* The receipts hold only what verifications have established.
StoreInv == ReceiptIsTested /\ EdgeIsMutated

IInv == Typed /\ RunInv /\ StoreInv

\* Everything that the search has reached leads to the tree that is pushed.
SearchInv ==
  /\ hook.pc = "search" => \A s \in hook.frontier : Chain(s.rust, hook.to.rust)
  /\ hook.pc = "evidence" => Chain(hook.from.rust, hook.to.rust)

\* The update of a branch rests on CI and, when the remote has the branch
\* already, on mutation-tested changes.
Covered(w) ==
  /\ Last(hook.tos[w]) \in ciPassed \cup {Root, Empty}
  /\ remote[w] # NoRef => Chain(Last(remote[w]).rust, Last(hook.tos[w]).rust)

\* The updates of a push are covered, but for the one that is being searched
\* for and those that are still to do.
BatchInv ==
  \A w \in hook.batch \ hook.todo :
    \/ Covered(w)
    \/ /\ hook.pc \in {"search", "evidence"}
       /\ hook.to = Last(hook.tos[w])
       /\ hook.from \in FromTrees(w)

HookInv == SearchInv /\ BatchInv /\ RemoteIsTested

-----------------------------------------------------------------------------
(* Helpers.                                                                *)

\* The last element of a branch is a tree.
LEMMA LastIsTree ==
  ASSUME NEW s \in Commits, s # NoRef
  PROVE  Last(s) \in Trees
  BY DEF Commits, NoRef, Last

\* A set of visited states grows by at most one.
LEMMA VisitedGrows ==
  ASSUME NEW S, IsFiniteSet(S), NEW x, NEW n \in Nat, Cardinality(S) < n
  PROVE  IsFiniteSet(S \cup {x}) /\ Cardinality(S \cup {x}) <= n
  <1>1. Cardinality(S) \in Nat
    BY FS_CardinalityType
  <1>2. /\ IsFiniteSet(S \cup {x})
        /\ x \in S => Cardinality(S \cup {x}) = Cardinality(S)
        /\ x \notin S => Cardinality(S \cup {x}) = Cardinality(S) + 1
    BY FS_AddElement
  <1> QED
    BY <1>1, <1>2

\* A version is chained to itself.
LEMMA ChainRefl == \A old : Chain(old, old)
  BY DEF Chain

\* One more mutation-tested change at the old end of a chain gives a chain.
LEMMA ChainStep ==
  ASSUME NEW old, NEW mid, NEW new, <<old, mid>> \in mutated, Chain(mid, new)
  PROVE  Chain(old, new)
  BY DEF Chain

\* Chains stay when more changes are mutation-tested.
LEMMA ChainStays ==
  ASSUME mutated \subseteq mutated'
  PROVE  \A old, new : Chain(old, new) => Chain(old, new)'
  BY DEF Chain

\* What a base argument names is a tree.
LEMMA KnownAreTrees == Typed => Known \subseteq Trees
  BY ReceiptsAssumption DEF Typed, TypeOK, Known, ToSet, Commits

\* What a ref update is compared with is a tree.
LEMMA FromAreTrees ==
  ASSUME Typed, NEW w \in Worktrees
  PROVE  FromTrees(w) \subseteq Trees
  BY ReceiptsAssumption, LastIsTree DEF Typed, TypeOK, FromTrees, NewBranchBases

-----------------------------------------------------------------------------
(* Types.                                                                  *)

LEMMA InitTyped == Init => Typed
  <1> SUFFICES ASSUME Init PROVE Typed
    OBVIOUS
  <1> USE ReceiptsAssumption, FS_EmptySet
  <1>1. Root \in Trees /\ Empty \in Trees /\ Empty.rust \in Rust
    BY DEF Trees
  <1>2. <<Root>> \in Commits /\ NoRef \in Commits /\ <<Root>> # NoRef
    BY <1>1 DEF Commits, NoRef
  <1>3. Idle \in Runs
    BY <1>1 DEF Idle, Runs, Pcs
  <1>4. NoPush \in Hooks
    BY <1>1, <1>2 DEF NoPush, Hooks
  <1>5. NoPush.visited = {} /\ \A w \in Worktrees : NoPush.tos[w] = <<Root>>
    BY DEF NoPush
  <1>6. TypeOK
    BY <1>1, <1>2, <1>3, <1>4, <1>5 DEF Init, TypeOK
  <1> QED
    BY <1>2, <1>5, <1>6 DEF Init, Typed

\* The developer and the verifications leave the hook alone, and the hook
\* changes nothing but itself and the remote.
LEMMA DeveloperTyped ==
  ASSUME Typed, NEW w \in Worktrees, Developer(w)
  PROVE  Typed'
  <1>1. CASE Commit(w)
    <2>1. worktree[w] \in Trees
      BY DEF Typed, TypeOK
    <2>2. head[w] \in Seq(Trees)
      BY DEF Typed, TypeOK, Commits
    <2>3. Append(head[w], worktree[w]) \in Commits
      BY <2>1, <2>2 DEF Commits
    <2>4. Len(Append(head[w], worktree[w])) # 0 /\ Len(NoRef) = 0
      BY <2>1, <2>2 DEF NoRef
    <2> QED
      BY <1>1, <2>3, <2>4 DEF Commit, Typed, TypeOK
  <1>2. ASSUME NEW tree \in Trees, Edit(w, tree)
        PROVE  Typed'
    <2>1. run' \in [Worktrees -> Runs]
      BY <1>2 DEF Edit, Typed, TypeOK, Runs
    <2> QED
      BY <1>2, <2>1 DEF Edit, Typed, TypeOK
  <1> QED
    BY <1>1, <1>2 DEF Developer

LEMMA BeginTyped ==
  ASSUME Typed, NEW w \in Worktrees, NEW r \in Runs, Begin(w, r)
  PROVE  Typed'
  BY DEF Begin, Typed, TypeOK

LEMMA VerifyTyped ==
  ASSUME Typed, NEW w \in Worktrees, Verify(w)
  PROVE  Typed'
  <1> USE ReceiptsAssumption
  <1>i. /\ Idle \in Runs
        /\ run[w] \in Runs
        /\ worktree[w] \in Trees
        /\ worktree[w].rust \in Rust
        /\ HeadTree(w) \in Trees
        /\ HeadTree(w).rust \in Rust
    BY LastIsTree DEF Typed, TypeOK, Idle, Runs, Pcs, Trees, HeadTree
  <1>1. ASSUME NEW goal \in Rust, StartMilestone(w, goal)
        PROVE  Typed'
    <2>1. [Idle EXCEPT !.pc = "compare", !.kind = "milestone", !.base = HeadTree(w),
                       !.goal = goal] \in Runs
      BY <1>i DEF Runs, Pcs
    <2> QED
      BY <1>1, <2>1, BeginTyped DEF StartMilestone
  <1>2. ASSUME NEW base \in Known, StartCi(w, base)
        PROVE  Typed'
    <2>1. [Idle EXCEPT !.pc = "before", !.kind = "ci", !.base = base,
                       !.target = HeadTree(w), !.goal = HeadTree(w).rust] \in Runs
      BY <1>i, KnownAreTrees DEF Runs, Pcs
    <2> QED
      BY <1>2, <2>1, BeginTyped DEF StartCi, CiRun
  <1>3. ASSUME NEW base \in Known, StartOutgoing(w, base)
        PROVE  Typed'
    <2>1. [Idle EXCEPT !.pc = "before", !.kind = "outgoing", !.base = base,
                       !.target = HeadTree(w), !.goal = HeadTree(w).rust] \in Runs
      BY <1>i, KnownAreTrees DEF Runs, Pcs
    <2> QED
      BY <1>3, <2>1, BeginTyped DEF StartOutgoing
  <1>4. CASE Abort(w)
    BY <1>4, <1>i DEF Abort, Die, RunVars, Typed, TypeOK
  <1>5. CASE CompareRust(w) \/ After(w) \/ Recheck(w)
    <2>1. PICK pc \in Pcs : Go(w, pc)
      BY <1>5 DEF CompareRust, After, Recheck, Pcs
    <2>2. [run[w] EXCEPT !.pc = pc] \in Runs
      BY <1>i DEF Runs
    <2> QED
      BY <2>1, <2>2 DEF Go, RunVars, Typed, TypeOK
  <1>6. CASE Before(w)
    BY <1>6, <1>i DEF Before, RunVars, Typed, TypeOK, Runs, Pcs
  <1>7. CASE CiPasses(w)
    BY <1>7, <1>i DEF CiPasses, RunVars, Typed, TypeOK, Runs, Pcs
  <1>8. CASE MutantsCaught(w)
    <2>1. <<run[w].base.rust, run[w].goal>> \in Rust \X Rust
      BY <1>i DEF Runs, Trees
    <2>2. run' \in [Worktrees -> Runs]
      BY <1>8, <1>i DEF MutantsCaught, Typed, TypeOK, Runs, Pcs
    <2> QED
      BY <1>8, <2>1, <2>2 DEF MutantsCaught, RunVars, Typed, TypeOK
  <1>9. CASE WriteReceipt(w)
    <2>1. [base |-> run[w].base, tree |-> VerifiedTree(w)] \in Edges
      BY <1>i DEF VerifiedTree, Edges, Runs
    <2> QED
      BY <1>9, <1>i, <2>1 DEF WriteReceipt, RunVars, Typed, TypeOK
  <1> QED
    BY <1>1, <1>2, <1>3, <1>4, <1>5, <1>6, <1>7, <1>8, <1>9 DEF Verify

LEMMA PushTyped ==
  ASSUME Typed,
         \/ \E batch \in SUBSET Worktrees : BeginPush(batch)
         \/ Hook
  PROVE  Typed'
  <1> USE ReceiptsAssumption
  <1>i. /\ NoPush \in Hooks
        /\ NoPush.visited = {}
        /\ \A w \in Worktrees : NoPush.tos[w] # NoRef
        /\ IsFiniteSet({}) /\ Cardinality({}) = 0
    BY FS_EmptySet DEF NoPush, Hooks, Commits, NoRef
  <1>1. ASSUME NEW batch \in SUBSET Worktrees, BeginPush(batch)
        PROVE  Typed'
    <2>1. head \in [Worktrees -> Commits]
      BY DEF Typed, TypeOK
    <2>2. hook' \in Hooks /\ hook'.visited = {} /\ hook'.tos = head
      BY <1>1, <1>i, <2>1 DEF BeginPush, Hooks
    <2>3. UNCHANGED <<HookVars, remote>>
      BY <1>1 DEF BeginPush
    <2>4. Cardinality(hook'.visited) <= MaxStates /\ IsFiniteSet(hook'.visited)
      BY <1>i, <2>2
    <2> QED
      BY <2>2, <2>3, <2>4 DEF HookVars, Typed, TypeOK
  <1>2. ASSUME NEW w \in Worktrees, NEW from \in FromTrees(w), NextRef(w, from)
        PROVE  Typed'
    <2>1. from \in Trees /\ Last(hook.tos[w]) \in Trees
      BY <1>2, FromAreTrees, LastIsTree DEF Typed, TypeOK, Hooks
    <2>2. hook' \in Hooks /\ hook'.tos = hook.tos /\ hook'.visited \in {hook.visited, {}}
      BY <1>2, <2>1 DEF NextRef, Take, Typed, TypeOK, Hooks
    <2> QED
      BY <1>2, <1>i, <2>2 DEF NextRef, Take, HookVars, Typed, TypeOK
  <1>3. ASSUME NEW state \in Trees, Visit(state)
        PROVE  Typed'
    <2> DEFINE seen == hook.visited \cup {state}
               bases == {r.base : r \in {r \in receipts : r.tree = state}}
    <2>1. bases \subseteq Trees
      BY DEF Typed, TypeOK, Edges
    <2>2. IsFiniteSet(seen) /\ Cardinality(seen) <= MaxStates
      BY <1>3, VisitedGrows DEF Visit, Typed
    <2>3. hook' = [hook EXCEPT !.visited = seen, !.frontier = (@ \cup bases) \ seen]
      BY <1>3 DEF Visit
    <2>4. hook' \in Hooks /\ hook'.tos = hook.tos /\ hook'.visited = seen
      <3> HIDE DEF seen, bases
      <3>1. seen \subseteq Trees
        BY DEF Typed, TypeOK, Hooks, seen
      <3> QED
        BY <2>1, <2>3, <3>1 DEF Typed, TypeOK, Hooks
    <2> QED
      BY <1>3, <2>2, <2>4 DEF Visit, HookVars, Typed, TypeOK
  <1>4. CASE PathFound \/ RefCovered
    BY <1>4 DEF PathFound, RefCovered, HookVars, Typed, TypeOK, Hooks
  <1>5. CASE Refuse
    BY <1>5, <1>i DEF Refuse, HookVars, Typed, TypeOK
  <1>6. CASE Accept
    <2>1. hook.tos \in [Worktrees -> Commits]
      BY DEF Typed, TypeOK, Hooks
    <2> QED
      BY <1>6, <1>i, <2>1 DEF Accept, HookVars, Typed, TypeOK
  <1> QED
    BY <1>1, <1>2, <1>3, <1>4, <1>5, <1>6 DEF Hook

LEMMA NextTyped == Typed /\ [Next]_vars => Typed'
  <1> SUFFICES ASSUME Typed, [Next]_vars PROVE Typed'
    OBVIOUS
  <1>1. CASE UNCHANGED vars
    BY <1>1 DEF vars, Typed, TypeOK
  <1> QED
    BY <1>1, DeveloperTyped, VerifyTyped, PushTyped DEF Next

\* The types hold of every reachable state, and the search of the hook never
\* has more than MAX_RECEIPT_STATES states behind it.
THEOREM TypeCorrect == Spec => []TypeOK
  <1>1. Typed => TypeOK
    BY DEF Typed
  <1> QED
    BY <1>1, InitTyped, NextTyped, PTL DEF Spec

-----------------------------------------------------------------------------
(* Receipts.                                                               *)

\* What a verification has established stays while neither it nor its
\* worktree changes.
LEMMA RunStays ==
  ASSUME NEW u \in Worktrees, RunOK(u),
         run'[u] = run[u], worktree'[u] = worktree[u],
         ciPassed \subseteq ciPassed', mutated \subseteq mutated'
  PROVE  RunOK(u)'
  BY DEF RunOK

\* A step of one worktree leaves the others' verifications alone.
LEMMA OthersStay ==
  ASSUME Typed, NEW w \in Worktrees, Developer(w) \/ Verify(w),
         NEW u \in Worktrees, u # w
  PROVE  /\ run'[u] = run[u] /\ worktree'[u] = worktree[u]
         /\ ciPassed \subseteq ciPassed' /\ mutated \subseteq mutated'
  <1> USE DEF Typed, TypeOK, vars, RunVars
  <1>1. CASE Developer(w)
    BY <1>1 DEF Developer, Commit, Edit
  <1>2. CASE Verify(w)
    BY <1>2 DEF Verify, StartMilestone, StartCi, CiRun, StartOutgoing, Begin, Abort, Die,
                CompareRust, Before, CiPasses, MutantsCaught, After, Recheck, Go, WriteReceipt
  <1> QED
    BY <1>1, <1>2

LEMMA DeveloperRun ==
  ASSUME QuietRecording, IInv, NEW w \in Worktrees, Developer(w)
  PROVE  RunOK(w)'
  <1> USE DEF IInv, RunInv
  <1>1. CASE Commit(w)
    BY <1>1, RunStays DEF Commit
  <1>2. ASSUME NEW tree \in Trees, Edit(w, tree)
        PROVE  RunOK(w)'
    <2>1. /\ run'[w] = [run[w] EXCEPT !.edited = run[w].pc # "idle"]
          /\ worktree'[w] = tree /\ tree # worktree[w]
          /\ run[w].pc \notin {"recheck", "hash"} /\ ~run[w].edited
          /\ UNCHANGED <<ciPassed, mutated>>
      BY <1>2 DEF Edit, Typed, TypeOK, QuietRecording
    <2>2. run[w] \in Runs
      BY DEF Typed, TypeOK
    <2>3. /\ run'[w].pc = run[w].pc /\ run'[w].kind = run[w].kind
          /\ run'[w].base = run[w].base /\ run'[w].target = run[w].target
          /\ run'[w].goal = run[w].goal /\ run'[w].before = run[w].before
          /\ run[w].pc # "idle" => run'[w].edited
      BY <2>1, <2>2 DEF Runs
    <2> QED
      BY <2>1, <2>3 DEF RunOK
  <1> QED
    BY <1>1, <1>2 DEF Developer

LEMMA VerifyRun ==
  ASSUME IInv, NEW w \in Worktrees, Verify(w)
  PROVE  RunOK(w)'
  <1> USE DEF IInv, RunInv, RunVars
  <1>i. /\ run[w] \in Runs
        /\ run \in [Worktrees -> Runs]
        /\ RunOK(w)
    BY DEF Typed, TypeOK
  <1>1. ASSUME NEW goal \in Rust, StartMilestone(w, goal)
        PROVE  RunOK(w)'
    <2>1. run'[w].pc = "compare" /\ run'[w].kind = "milestone"
      BY <1>1, <1>i DEF StartMilestone, Begin, Idle
    <2> QED
      BY <2>1 DEF RunOK
  <1>2. ASSUME NEW base \in Known, StartCi(w, base)
        PROVE  RunOK(w)'
    <2>1. /\ run'[w].pc = "before" /\ run'[w].base = base /\ run'[w].target = HeadTree(w)
          /\ base.rust = HeadTree(w).rust
      BY <1>2, <1>i DEF StartCi, CiRun, Begin, Idle
    <2> QED
      BY <2>1 DEF RunOK
  <1>3. ASSUME NEW base \in Known, StartOutgoing(w, base)
        PROVE  RunOK(w)'
    <2>1. run'[w].pc = "before" /\ run'[w].kind = "outgoing"
      BY <1>3, <1>i DEF StartOutgoing, Begin, Idle
    <2> QED
      BY <2>1 DEF RunOK
  <1>4. CASE Abort(w) \/ WriteReceipt(w)
    <2>1. run'[w] = Idle
      BY <1>4, <1>i DEF Abort, Die, WriteReceipt
    <2> QED
      BY <2>1 DEF RunOK, Idle
  <1>5. CASE CompareRust(w)
    BY <1>5, <1>i DEF CompareRust, Go, RunOK, Runs
  <1>6. CASE Before(w)
    BY <1>6, <1>i DEF Before, RunOK, Runs
  <1>7. CASE CiPasses(w)
    BY <1>7, <1>i DEF CiPasses, RunOK, Runs
  <1>8. CASE MutantsCaught(w)
    BY <1>8, <1>i DEF MutantsCaught, RunOK, Runs
  <1>9. CASE After(w)
    BY <1>9, <1>i DEF After, Go, RunOK, Runs
  <1>10. CASE Recheck(w)
    BY <1>10, <1>i DEF Recheck, Go, RunOK, Runs
  <1> QED
    BY <1>1, <1>2, <1>3, <1>4, <1>5, <1>6, <1>7, <1>8, <1>9, <1>10 DEF Verify

LEMMA NextRun ==
  ASSUME QuietRecording, IInv, [Next]_vars
  PROVE  RunInv'
  <1>1. ASSUME NEW w \in Worktrees, Developer(w) \/ Verify(w)
        PROVE  RunInv'
    <2> SUFFICES ASSUME NEW u \in Worktrees PROVE RunOK(u)'
      BY DEF RunInv
    <2>1. CASE u = w
      BY <1>1, <2>1, DeveloperRun, VerifyRun
    <2>2. CASE u # w
      BY <1>1, <2>2, OthersStay, RunStays DEF IInv, RunInv
    <2> QED
      BY <2>1, <2>2
  <1>2. ASSUME UNCHANGED <<run, worktree, ciPassed, mutated>>
        PROVE  RunInv'
    BY <1>2 DEF IInv, RunInv, RunOK
  <1>3. CASE Hook \/ \E batch \in SUBSET Worktrees : BeginPush(batch)
    BY <1>2, <1>3 DEF Hook, BeginPush, NextRef, Take, Visit, PathFound, RefCovered, Refuse,
                      Accept, HookVars
  <1>4. CASE UNCHANGED vars
    BY <1>2, <1>4 DEF vars
  <1> QED
    BY <1>1, <1>3, <1>4 DEF Next

\* Only WriteReceipt adds to the store, and what it adds has been verified.
LEMMA NextStore ==
  ASSUME IInv, [Next]_vars
  PROVE  StoreInv'
  <1> USE DEF StoreInv, ReceiptIsTested, EdgeIsMutated
  <1>1. ASSUME receipts' = receipts, ciPassed \subseteq ciPassed', mutated \subseteq mutated'
        PROVE  StoreInv'
    BY <1>1 DEF IInv
  <1>2. ASSUME NEW w \in Worktrees, WriteReceipt(w)
        PROVE  StoreInv'
    <2> DEFINE new == [base |-> run[w].base, tree |-> VerifiedTree(w)]
    <2>1. /\ receipts' = receipts \cup {new}
          /\ UNCHANGED <<ciPassed, mutated>>
          /\ run[w].pc = "hash"
      BY <1>2 DEF WriteReceipt
    <2>2. RunOK(w)
      BY DEF IInv, RunInv
    <2>3. new.tree \in ciPassed
      BY <2>1, <2>2 DEF RunOK, VerifiedTree
    <2>4. new.base.rust = new.tree.rust \/ <<new.base.rust, new.tree.rust>> \in mutated
      BY <2>1, <2>2 DEF RunOK, VerifiedTree
    <2> HIDE DEF new
    <2> QED
      BY <2>1, <2>3, <2>4 DEF IInv
  <1>3. ASSUME NEW w \in Worktrees, Developer(w) \/ (Verify(w) /\ ~WriteReceipt(w))
        PROVE  StoreInv'
    BY <1>1, <1>3 DEF Developer, Commit, Edit, Verify, StartMilestone, StartCi, CiRun,
         StartOutgoing, Begin, Abort, Die, CompareRust, Before, CiPasses, MutantsCaught, After,
         Recheck, Go, RunVars
  <1>4. CASE Hook \/ \E batch \in SUBSET Worktrees : BeginPush(batch)
    BY <1>1, <1>4 DEF Hook, BeginPush, NextRef, Take, Visit, PathFound, RefCovered, Refuse,
                      Accept, HookVars
  <1>5. CASE UNCHANGED vars
    BY <1>1, <1>5 DEF vars
  <1> QED
    BY <1>2, <1>3, <1>4, <1>5 DEF Next

LEMMA InitIInv == Init => IInv
  <1> SUFFICES ASSUME Init PROVE IInv
    OBVIOUS
  <1>1. RunInv
    BY DEF Init, RunInv, RunOK, Idle
  <1>2. StoreInv
    BY DEF Init, StoreInv, ReceiptIsTested, EdgeIsMutated
  <1> QED
    BY <1>1, <1>2, InitTyped DEF IInv

LEMMA NextIInv == QuietRecording /\ IInv /\ [Next]_vars => IInv'
  BY NextTyped, NextRun, NextStore DEF IInv

\* Each receipt names a tree on which CI has passed, whatever is edited and
\* committed in the worktrees while verifications run in them.
THEOREM ReceiptsAreTested ==
  ASSUME QuietRecording
  PROVE  Spec => []ReceiptIsTested
  <1>1. IInv => ReceiptIsTested
    BY DEF IInv, StoreInv
  <1>2. IInv /\ [Next]_vars => IInv'
    BY NextIInv
  <1> QED
    BY <1>1, <1>2, InitIInv, PTL DEF Spec

\* Each receipt's edge changes no Rust file, or changes that mutation testing
\* has caught.
THEOREM EdgesAreMutated ==
  ASSUME QuietRecording
  PROVE  Spec => []EdgeIsMutated
  <1>1. IInv => EdgeIsMutated
    BY DEF IInv, StoreInv
  <1>2. IInv /\ [Next]_vars => IInv'
    BY NextIInv
  <1> QED
    BY <1>1, <1>2, InitIInv, PTL DEF Spec

-----------------------------------------------------------------------------
(* Pushes.                                                                 *)

\* A verification only adds evidence.
LEMMA EvidenceGrows ==
  ASSUME NEW w \in Worktrees, Developer(w) \/ Verify(w)
  PROVE  UNCHANGED <<hook, remote>> /\ ciPassed \subseteq ciPassed' /\ mutated \subseteq mutated'
  BY DEF Developer, Commit, Edit, Verify, StartMilestone, StartCi, CiRun, StartOutgoing, Begin,
         Abort, Die, CompareRust, Before, CiPasses, MutantsCaught, After, Recheck, Go,
         WriteReceipt, RunVars

\* More evidence leaves what the hook has established true.
LEMMA EvidenceKeeps ==
  ASSUME HookInv, UNCHANGED <<hook, remote>>,
         ciPassed \subseteq ciPassed', mutated \subseteq mutated'
  PROVE  HookInv'
  <1>1. SearchInv'
    BY ChainStays DEF HookInv, SearchInv
  <1>2. \A w : Covered(w) => Covered(w)'
    BY ChainStays DEF Covered
  <1>3. \A w : FromTrees(w)' = FromTrees(w)
    BY DEF FromTrees, NewBranchBases
  <1>4. BatchInv'
    BY <1>2, <1>3 DEF HookInv, BatchInv
  <1>5. RemoteIsTested'
    BY DEF HookInv, RemoteIsTested
  <1> QED
    BY <1>1, <1>4, <1>5 DEF HookInv

\* What an update starts from has been tested, or is where every branch starts;
\* for a branch that the remote has it is what the remote has.
LEMMA FromIsTested ==
  ASSUME RemoteIsTested, NEW w \in Worktrees, NEW from \in FromTrees(w)
  PROVE  /\ from \in ciPassed \cup {Root, Empty}
         /\ remote[w] # NoRef => from = Last(remote[w])
  BY DEF RemoteIsTested, FromTrees, NewBranchBases

\* Steps of the hook that leave the remote and the evidence alone.
LEMMA HookKeeps ==
  ASSUME HookInv, UNCHANGED <<HookVars, remote>>, hook'.tos = hook.tos
  PROVE  /\ RemoteIsTested'
         /\ \A w : Covered(w)' <=> Covered(w)
         /\ \A w : FromTrees(w)' = FromTrees(w)
         /\ \A old, new : Chain(old, new)' <=> Chain(old, new)
  BY DEF HookInv, RemoteIsTested, Covered, FromTrees, NewBranchBases, Chain, HookVars

LEMMA NextRefKeeps ==
  ASSUME IInv, HookInv, NEW w \in Worktrees, NEW from \in FromTrees(w), NextRef(w, from)
  PROVE  HookInv'
  <1>i. hook \in Hooks
    BY DEF IInv, Typed, TypeOK
  <1>0. /\ hook.pc = "ref" /\ w \in hook.todo
        /\ hook'.batch = hook.batch /\ hook'.tos = hook.tos /\ hook'.todo = hook.todo \ {w}
        /\ UNCHANGED <<HookVars, remote>>
    BY <1>i DEF NextRef, Take, Hooks
  <1> DEFINE to == Last(hook.tos[w])
  <1>1. CASE from = to
    <2>1. hook'.pc = "ref"
      BY <1>0, <1>1, <1>i DEF NextRef, Take, Hooks
    <2>2. Covered(w)
      BY <1>1, FromIsTested, ChainRefl DEF HookInv, Covered
    <2>3. BatchInv'
      BY <1>0, <2>2, HookKeeps DEF HookInv, BatchInv
    <2> QED
      BY <1>0, <2>1, <2>3, HookKeeps DEF HookInv, SearchInv
  <1>2. CASE from # to
    <2>1. hook'.pc = "search" /\ hook'.to = to /\ hook'.from = from /\ hook'.frontier = {to}
      BY <1>0, <1>2, <1>i DEF NextRef, Take, Hooks
    <2>2. SearchInv'
      BY <1>0, <2>1, HookKeeps, ChainRefl DEF SearchInv
    <2>3. BatchInv'
      BY <1>0, <2>1, HookKeeps DEF HookInv, BatchInv
    <2> QED
      BY <1>0, <2>2, <2>3, HookKeeps DEF HookInv
  <1> QED
    BY <1>1, <1>2

LEMMA VisitKeeps ==
  ASSUME IInv, HookInv, NEW state \in Trees, Visit(state)
  PROVE  HookInv'
  <1> DEFINE seen == hook.visited \cup {state}
             bases == {r.base : r \in {r \in receipts : r.tree = state}}
  <1>i. hook \in Hooks
    BY DEF IInv, Typed, TypeOK
  <1>1. /\ hook.pc = "search" /\ state \in hook.frontier
        /\ hook' = [hook EXCEPT !.visited = seen, !.frontier = (@ \cup bases) \ seen]
        /\ UNCHANGED <<HookVars, remote>>
    BY DEF Visit
  <1>2. \A s \in bases : Chain(s.rust, hook.to.rust)
    <2> TAKE s \in bases
    <2>1. Chain(state.rust, hook.to.rust)
      BY <1>1 DEF HookInv, SearchInv
    <2>2. PICK r \in receipts : r.tree = state /\ r.base = s
      OBVIOUS
    <2>3. s.rust = state.rust \/ <<s.rust, state.rust>> \in mutated
      BY <2>2 DEF IInv, StoreInv, EdgeIsMutated
    <2> QED
      BY <2>1, <2>3, ChainStep
  <1> HIDE DEF seen, bases
  <1>3. /\ hook'.pc = "search" /\ hook'.frontier = (hook.frontier \cup bases) \ seen
        /\ hook'.to = hook.to /\ hook'.from = hook.from /\ hook'.tos = hook.tos
        /\ hook'.batch = hook.batch /\ hook'.todo = hook.todo
    BY <1>1, <1>i DEF Hooks
  <1>4. SearchInv'
    BY <1>1, <1>2, <1>3, HookKeeps DEF HookInv, SearchInv
  <1>5. BatchInv'
    BY <1>1, <1>3, HookKeeps DEF HookInv, BatchInv
  <1> QED
    BY <1>1, <1>3, <1>4, <1>5, HookKeeps DEF HookInv

LEMMA NextHook ==
  ASSUME IInv, HookInv, [Next]_vars
  PROVE  HookInv'
  <1>i. hook \in Hooks
    BY DEF IInv, Typed, TypeOK
  <1>j. NoPush.pc = "idle" /\ NoPush.batch = {}
    BY DEF NoPush
  <1>1. ASSUME NEW w \in Worktrees, Developer(w) \/ Verify(w)
        PROVE  HookInv'
    BY <1>1, EvidenceGrows, EvidenceKeeps
  <1>2. ASSUME NEW batch \in SUBSET Worktrees, BeginPush(batch)
        PROVE  HookInv'
    <2>1. hook'.pc = "ref" /\ hook'.batch = hook'.todo /\ UNCHANGED <<HookVars, remote>>
      BY <1>2 DEF BeginPush, NoPush
    <2> QED
      BY <2>1 DEF HookInv, SearchInv, BatchInv, RemoteIsTested, HookVars
  <1>3. ASSUME NEW w \in Worktrees, NEW from \in FromTrees(w), NextRef(w, from)
        PROVE  HookInv'
    BY <1>3, NextRefKeeps
  <1>4. ASSUME NEW state \in Trees, Visit(state)
        PROVE  HookInv'
    BY <1>4, VisitKeeps
  <1>5. CASE PathFound
    <2>1. /\ hook.pc = "search" /\ hook'.pc = "evidence"
          /\ hook.from \in hook.frontier
          /\ hook'.to = hook.to /\ hook'.from = hook.from /\ hook'.tos = hook.tos
          /\ hook'.batch = hook.batch /\ hook'.todo = hook.todo
          /\ UNCHANGED <<HookVars, remote>>
      BY <1>5, <1>i DEF PathFound, Hooks
    <2> QED
      BY <2>1, HookKeeps DEF HookInv, SearchInv, BatchInv
  <1>6. CASE RefCovered
    <2>1. /\ hook.pc = "evidence" /\ hook'.pc = "ref" /\ hook'.tos = hook.tos
          /\ hook'.batch = hook.batch /\ hook'.todo = hook.todo
          /\ UNCHANGED <<HookVars, remote>>
      BY <1>6, <1>i DEF RefCovered, Hooks
    <2>2. hook.to \in ciPassed
      BY <1>6 DEF RefCovered, HasCiReceipt, IInv, StoreInv, ReceiptIsTested
    <2>3. ASSUME NEW w \in Worktrees, hook.to = Last(hook.tos[w]), hook.from \in FromTrees(w)
          PROVE  Covered(w)
      BY <2>1, <2>2, <2>3, FromIsTested DEF HookInv, SearchInv, Covered
    <2>4. hook.batch \subseteq Worktrees
      BY <1>i DEF Hooks
    <2> QED
      BY <2>1, <2>3, <2>4, HookKeeps DEF HookInv, SearchInv, BatchInv
  <1>7. CASE Refuse
    BY <1>7, <1>j DEF Refuse, HookInv, SearchInv, BatchInv, RemoteIsTested, HookVars
  <1>8. CASE Accept
    <2>1. \A w \in Worktrees : remote'[w] # NoRef => Last(remote'[w]) \in ciPassed \cup {Root, Empty}
      BY <1>8 DEF Accept, HookInv, BatchInv, Covered, RemoteIsTested
    <2> QED
      BY <1>8, <1>j, <2>1 DEF Accept, HookInv, SearchInv, BatchInv, RemoteIsTested, HookVars
  <1>9. CASE UNCHANGED vars
    BY <1>9, EvidenceKeeps DEF vars
  <1> QED
    BY <1>1, <1>2, <1>3, <1>4, <1>5, <1>6, <1>7, <1>8, <1>9 DEF Next, Hook

LEMMA InitHook == Init => HookInv
  <1> SUFFICES ASSUME Init PROVE HookInv
    OBVIOUS
  <1>1. SearchInv /\ BatchInv
    BY DEF Init, NoPush, SearchInv, BatchInv
  <1>2. RemoteIsTested
    BY DEF Init, RemoteIsTested, NoRef, Last
  <1> QED
    BY <1>1, <1>2 DEF HookInv

\* The remote moves only over changes that are covered.
LEMMA AcceptIsCovered ==
  ASSUME IInv, HookInv, [Next]_vars,
         NEW w \in Worktrees, remote[w] # NoRef, remote'[w] # remote[w]
  PROVE  Chain(Last(remote[w]).rust, Last(remote'[w]).rust)
  <1>1. Accept
    BY EvidenceGrows DEF Next, vars, Hook, BeginPush, NextRef, Take, Visit, PathFound,
                         RefCovered, Refuse
  <1> QED
    BY <1>1 DEF Accept, HookInv, BatchInv, Covered

\* Whatever any sequence of pushes has put on the remote, with receipts and
\* branches changing while the hook searched, has passed CI.
THEOREM PushesAreTested ==
  ASSUME QuietRecording
  PROVE  Spec => []RemoteIsTested
  <1>1. HookInv => RemoteIsTested
    BY DEF HookInv
  <1>2. Init => IInv /\ HookInv
    BY InitIInv, InitHook
  <1>3. IInv /\ HookInv /\ [Next]_vars => (IInv /\ HookInv)'
    BY NextIInv, NextHook
  <1> QED
    BY <1>1, <1>2, <1>3, PTL DEF Spec

\* A push moves a branch that the remote has only along a chain of Rust changes
\* that mutation testing has caught, one receipt after the other.
THEOREM PushesAreCovered ==
  ASSUME QuietRecording
  PROVE  Spec => PushIsCovered
  <1>1. IInv /\ HookInv /\ [Next]_vars =>
          [\A w \in Worktrees :
             remote[w] # NoRef /\ remote'[w] # remote[w]
               => Chain(Last(remote[w]).rust, Last(remote'[w]).rust)]_vars
    BY AcceptIsCovered
  <1>2. Init => IInv /\ HookInv
    BY InitIInv, InitHook
  <1>3. IInv /\ HookInv /\ [Next]_vars => (IInv /\ HookInv)'
    BY NextIInv, NextHook
  <1> QED
    BY <1>1, <1>2, <1>3, PTL DEF Spec, PushIsCovered
=============================================================================
