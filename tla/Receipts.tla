------------------------------- MODULE Receipts -------------------------------
(***************************************************************************)
(* scripts/rust-verification-receipts.sh and .githooks/pre-push: slow      *)
(* checks run before a push and leave receipts; the hook lets a push       *)
(* through only when receipts lead from what the remote has to what is     *)
(* pushed.                                                                 *)
(*                                                                         *)
(* Linked worktrees, each with a branch of its own, share one store of     *)
(* receipts.  In every worktree a developer edits and commits while a      *)
(* verification may be running there.  A tree is the version of its Rust   *)
(* files and the version of all its other files; a commit is the sequence  *)
(* of trees from the first commit to it, so that its ancestors are its     *)
(* prefixes; a receipt is the edge from a base tree to a verified tree.    *)
(***************************************************************************)
EXTENDS Integers, FiniteSets, SequencesExt

CONSTANTS
  Worktrees,  \* the worktrees, and their branches
  Rust, Docs, \* versions of the *.rs files and of everything else
  Root,       \* the first commit's tree
  Empty,      \* the empty tree
  MaxStates,  \* MAX_RECEIPT_STATES
  EditPcs,    \* where a verification may be when its worktree is edited
  MaxEdits, MaxCommits, MaxRuns   \* bounds

Trees == [rust : Rust, docs : Docs]
Pcs == {"idle", "compare", "before", "ci", "mutants", "after", "recheck", "hash"}

ASSUME ReceiptsAssumption ==
  /\ {Root, Empty} \subseteq Trees
  /\ MaxStates \in Nat
  /\ "idle" \in EditPcs /\ EditPcs \subseteq Pcs

Commits == Seq(Trees)
NoRef == << >>
Edges == [base : Trees, tree : Trees]

VARIABLES
  worktree,   \* each worktree's files, as `git add -A` sees them
  head,       \* each worktree's HEAD
  run,        \* the verification running in each worktree
  receipts,   \* the receipt store in the common Git directory
  remote,     \* the remote's branches
  hook,       \* the push that the pre-push hook is checking
  ciPassed,   \* history: trees on which `mise run ci` passed
  mutated,    \* history: Rust changes whose mutants were all caught
  edits, commits, runs \* counters of the bounds

vars == <<worktree, head, run, receipts, remote, hook, ciPassed, mutated, edits, commits, runs>>

Idle == [pc |-> "idle", kind |-> "none", base |-> Empty, target |-> Empty,
         goal |-> Empty.rust, before |-> Empty, edited |-> FALSE]

\* goal: the Rust files that the diff yields; target: the tree of the head.
Runs == [pc : Pcs, kind : {"none", "milestone", "ci", "outgoing"}, base : Trees,
         target : Trees, goal : Rust, before : Trees, edited : BOOLEAN]

NoPush == [pc |-> "idle", batch |-> {}, todo |-> {}, tos |-> [w \in Worktrees |-> <<Root>>],
           to |-> Empty, from |-> Empty, frontier |-> {}, visited |-> {}]

Hooks == [pc : {"idle", "ref", "search", "evidence"}, batch : SUBSET Worktrees,
          todo : SUBSET Worktrees, tos : [Worktrees -> Commits], to : Trees,
          from : Trees, frontier : SUBSET Trees, visited : SUBSET Trees]

TypeOK ==
  /\ worktree \in [Worktrees -> Trees]
  /\ head \in [Worktrees -> Commits]
  /\ run \in [Worktrees -> Runs]
  /\ receipts \in SUBSET Edges
  /\ remote \in [Worktrees -> Commits]
  /\ hook \in Hooks
  /\ Cardinality(hook.visited) <= MaxStates
  /\ ciPassed \in SUBSET Trees
  /\ mutated \in SUBSET (Rust \X Rust)
  /\ edits \in Nat
  /\ commits \in Nat
  /\ runs \in Nat

Init ==
  /\ worktree = [w \in Worktrees |-> Root]
  /\ head = [w \in Worktrees |-> <<Root>>]
  /\ run = [w \in Worktrees |-> Idle]
  /\ receipts = {}
  /\ remote \in [Worktrees -> {NoRef, <<Root>>}]
  /\ hook = NoPush
  /\ ciPassed = {}
  /\ mutated = {}
  /\ edits = 0
  /\ commits = 0
  /\ runs = 0

HeadTree(w) == Last(head[w])

-----------------------------------------------------------------------------
(* The developer.                                                          *)

\* A worktree is edited at most once in a run: the second edit could undo the
\* first one, which no comparison of trees sees.
Edit(w, tree) ==
  /\ edits < MaxEdits
  /\ run[w].pc \in EditPcs /\ ~run[w].edited
  /\ tree # worktree[w]
  /\ worktree' = [worktree EXCEPT ![w] = tree]
  /\ run' = [run EXCEPT ![w].edited = run[w].pc # "idle"]
  /\ edits' = edits + 1
  /\ UNCHANGED <<head, receipts, remote, hook, ciPassed, mutated, commits, runs>>

Commit(w) ==
  /\ worktree[w] # HeadTree(w)
  /\ commits < MaxCommits
  /\ commits' = commits + 1
  /\ head' = [head EXCEPT ![w] = Append(@, worktree[w])]
  /\ UNCHANGED <<worktree, run, receipts, remote, hook, ciPassed, mutated, edits, runs>>

-----------------------------------------------------------------------------
(* The verifications.                                                      *)

Begin(w, r) ==
  /\ run[w].pc = "idle"
  /\ runs < MaxRuns
  /\ runs' = runs + 1
  /\ run' = [run EXCEPT ![w] = r]
  /\ UNCHANGED <<worktree, head, receipts, remote, hook, ciPassed, mutated, edits, commits>>

\* verify-milestone <goal-diff>: the diff applies to HEAD and yields `goal`.
StartMilestone(w, goal) ==
  Begin(w, [Idle EXCEPT !.pc = "compare", !.kind = "milestone", !.base = HeadTree(w), !.goal = goal])

\* Objects that a base argument can name.
Known == {Empty} \cup UNION {ToSet(head[w]) \cup ToSet(remote[w]) : w \in Worktrees}

\* verify-ci <base> [<head>]: only when no Rust file differs.
CiRun(w, base) ==
  Begin(w, [Idle EXCEPT !.pc = "before", !.kind = "ci", !.base = base,
                        !.target = HeadTree(w), !.goal = HeadTree(w).rust])

StartCi_AnyBase(w, base) == CiRun(w, base)   \* mutant: git diff --quiet without '*.rs'

StartCi(w, base) == base.rust = HeadTree(w).rust /\ CiRun(w, base)

\* verify-outgoing <base> [<head>]: the range is not empty.
StartOutgoing(w, base) ==
  /\ base # HeadTree(w)
  /\ Begin(w, [Idle EXCEPT !.pc = "before", !.kind = "outgoing", !.base = base,
                           !.target = HeadTree(w), !.goal = HeadTree(w).rust])

RunVars == <<worktree, head, remote, hook, edits, commits, runs>>

Go(w, pc) ==
  /\ run' = [run EXCEPT ![w].pc = pc]
  /\ UNCHANGED <<RunVars, receipts, ciPassed, mutated>>

Die(w) ==
  /\ run' = [run EXCEPT ![w] = Idle]
  /\ UNCHANGED <<RunVars, receipts, ciPassed, mutated>>

\* The run is interrupted, or a check of it fails.
Abort(w) == run[w].pc # "idle" /\ Die(w)

CompareRust(w) ==
  /\ run[w].pc = "compare"
  /\ worktree[w].rust = run[w].goal
  /\ Go(w, "before")

Before(w) ==
  /\ run[w].pc = "before"
  /\ run[w].kind # "milestone" => worktree[w] = run[w].target
  /\ run' = [run EXCEPT ![w].pc = "ci", ![w].before = worktree[w]]
  /\ UNCHANGED <<RunVars, receipts, ciPassed, mutated>>

CiPasses(w) ==
  /\ run[w].pc = "ci"
  /\ ciPassed' = ciPassed \cup {worktree[w]}
  /\ run' = [run EXCEPT ![w].pc = IF run[w].kind = "ci" THEN "after" ELSE "mutants"]
  /\ UNCHANGED <<RunVars, receipts, mutated>>

\* Mutants of the diff, in the Rust files that are there now.  An outgoing
\* range without Rust changes has none, and adds nothing to the history but a
\* change of a version into itself.
MutantsCaught(w) ==
  /\ run[w].pc = "mutants"
  /\ mutated' = IF worktree[w].rust = run[w].goal
                THEN mutated \cup {<<run[w].base.rust, run[w].goal>>}
                ELSE mutated
  /\ run' = [run EXCEPT ![w].pc = "after"]
  /\ UNCHANGED <<RunVars, receipts, ciPassed>>

After_NoCompare(w) ==   \* mutant: the trees are not compared
  /\ run[w].pc = "after"
  /\ Go(w, IF run[w].kind = "ci" THEN "hash" ELSE "recheck")

After(w) ==
  /\ run[w].pc = "after"
  /\ worktree[w] = run[w].before
  /\ Go(w, IF run[w].kind = "ci" THEN "hash" ELSE "recheck")

\* record_milestone_receipt compares the Rust files once more ...
Recheck(w) ==
  /\ run[w].pc = "recheck"
  /\ worktree[w].rust = run[w].goal
  /\ Go(w, "hash")

\* ... and hashes the worktree once more; record_ci_receipt takes the head.
VerifiedTree(w) == IF run[w].kind = "ci" THEN run[w].target ELSE worktree[w]

WriteReceipt(w) ==
  /\ run[w].pc = "hash"
  /\ receipts' = receipts \cup {[base |-> run[w].base, tree |-> VerifiedTree(w)]}
  /\ run' = [run EXCEPT ![w] = Idle]
  /\ UNCHANGED <<RunVars, ciPassed, mutated>>

-----------------------------------------------------------------------------
(* The push.  The hook only reads: the receipts may grow meanwhile.        *)

HookVars == <<worktree, head, run, receipts, ciPassed, mutated, edits, commits, runs>>

BeginPush(batch) ==
  /\ hook.pc = "idle"
  /\ batch # {}
  /\ \A w \in batch : head[w] # remote[w]
  /\ hook' = [NoPush EXCEPT !.pc = "ref", !.batch = batch, !.todo = batch, !.tos = head]
  /\ UNCHANGED <<HookVars, remote>>

\* find_new_branch_base: the nearest ancestor that the remote has.
NewBranchBases(to) ==
  LET known == {w \in Worktrees : remote[w] # NoRef /\ IsPrefix(remote[w], to)}
      nearest == {w \in known : \A u \in known : Len(remote[u]) <= Len(remote[w])}
  IN IF known = {} THEN {Empty} ELSE {Last(remote[w]) : w \in nearest}

FromTrees(w) == IF remote[w] = NoRef THEN NewBranchBases(hook.tos[w]) ELSE {Last(remote[w])}

\* The next ref update: nothing to show when the tree is the remote's already.
Take(w, from, todo) ==
  /\ hook.pc = "ref" /\ w \in hook.todo
  /\ LET to == Last(hook.tos[w])
     IN hook' = IF from = to
                THEN [hook EXCEPT !.todo = todo]
                ELSE [hook EXCEPT !.pc = "search", !.todo = todo, !.to = to, !.from = from,
                                  !.frontier = {to}, !.visited = {}]
  /\ UNCHANGED <<HookVars, remote>>

NextRef_FirstOnly(w, from) == Take(w, from, {})   \* mutant: one ref of a push is checked

NextRef_CiOnly(w, from) ==   \* mutant: exact CI evidence alone covers a ref
  /\ hook.pc = "ref" /\ w \in hook.todo
  /\ hook' = [hook EXCEPT !.pc = IF from = Last(hook.tos[w]) THEN "ref" ELSE "evidence",
                          !.todo = @ \ {w}, !.to = Last(hook.tos[w])]
  /\ UNCHANGED <<HookVars, remote>>

NextRef(w, from) == Take(w, from, hook.todo \ {w})

\* state_path_exists walks the edges backwards, in an order that names decide.
Visit_Unbounded(state) ==   \* mutant: visited states are not counted
  /\ hook.pc = "search" /\ state \in hook.frontier
  /\ state # hook.from
  /\ LET seen == hook.visited \cup {state}
         bases == {r.base : r \in {r \in receipts : r.tree = state}}
     IN hook' = [hook EXCEPT !.visited = seen, !.frontier = (@ \cup bases) \ seen]
  /\ UNCHANGED <<HookVars, remote>>

Visit(state) ==
  /\ hook.pc = "search" /\ state \in hook.frontier
  /\ state # hook.from
  /\ Cardinality(hook.visited) < MaxStates
  /\ LET seen == hook.visited \cup {state}
         bases == {r.base : r \in {r \in receipts : r.tree = state}}
     IN hook' = [hook EXCEPT !.visited = seen, !.frontier = (@ \cup bases) \ seen]
  /\ UNCHANGED <<HookVars, remote>>

PathFound ==
  /\ hook.pc = "search" /\ hook.from \in hook.frontier
  /\ hook' = [hook EXCEPT !.pc = "evidence"]
  /\ UNCHANGED <<HookVars, remote>>

HasCiReceipt(tree) == \E r \in receipts : r.tree = tree

RefCovered ==
  /\ hook.pc = "evidence"
  /\ HasCiReceipt(hook.to)
  /\ hook' = [hook EXCEPT !.pc = "ref"]
  /\ UNCHANGED <<HookVars, remote>>

\* No path, no receipt, or more than MaxStates states: the push fails.
Refuse ==
  /\ \/ hook.pc = "search" /\ hook.frontier = {}
     \/ hook.pc = "search" /\ hook.frontier # {hook.from} /\ Cardinality(hook.visited) >= MaxStates
     \/ hook.pc = "evidence" /\ ~HasCiReceipt(hook.to)
  /\ hook' = NoPush
  /\ UNCHANGED <<HookVars, remote>>

Accept ==
  /\ hook.pc = "ref" /\ hook.todo = {}
  /\ remote' = [w \in Worktrees |-> IF w \in hook.batch THEN hook.tos[w] ELSE remote[w]]
  /\ hook' = NoPush
  /\ UNCHANGED HookVars

-----------------------------------------------------------------------------
Developer(w) == Commit(w) \/ \E tree \in Trees : Edit(w, tree)

Verify(w) ==
  \/ \E goal \in Rust : StartMilestone(w, goal)
  \/ \E base \in Known : StartCi(w, base) \/ StartOutgoing(w, base)
  \/ Abort(w) \/ CompareRust(w) \/ Before(w) \/ CiPasses(w) \/ MutantsCaught(w)
  \/ After(w) \/ Recheck(w) \/ WriteReceipt(w)

Hook ==
  \/ \E w \in Worktrees : \E from \in FromTrees(w) : NextRef(w, from)
  \/ \E state \in Trees : Visit(state)
  \/ PathFound \/ RefCovered \/ Refuse \/ Accept

Next ==
  \/ \E w \in Worktrees : Developer(w) \/ Verify(w)
  \/ \E batch \in SUBSET Worktrees : BeginPush(batch)
  \/ Hook

Spec == Init /\ [][Next]_vars

-----------------------------------------------------------------------------
(* Properties.                                                             *)

\* A chain of Rust changes whose mutants were caught leads from one version to
\* another: every set that such changes do not leave and that holds the first
\* version holds the other one.
Chain(old, new) ==
  \A S \in SUBSET Rust :
    (old \in S /\ \A m \in mutated : m[1] \in S => m[2] \in S) => new \in S

\* docs/decisions/0003: "Each receipt is bound to the exact complete Git tree
\* that was tested": CI passed on the tree of every receipt.
ReceiptIsTested == \A r \in receipts : r.tree \in ciPassed

\* The Rust changes of a receipt's edge have been mutation-tested, or it has
\* none.
EdgeIsMutated ==
  \A r \in receipts : r.base.rust = r.tree.rust \/ <<r.base.rust, r.tree.rust>> \in mutated

\* Whatever is pushed, alone or with other refs, and however often HEAD and the
\* receipts change meanwhile: CI has passed on what the remote has.
RemoteIsTested ==
  \A w \in Worktrees : remote[w] # NoRef => Last(remote[w]) \in ciPassed \cup {Root, Empty}

\* A push that moves a branch of the remote does so over Rust changes that were
\* all mutation-tested, in verifications of whatever trees lie between.
PushIsCovered ==
  [][\A w \in Worktrees :
       remote[w] # NoRef /\ remote'[w] # remote[w]
         => Chain(Last(remote[w]).rust, Last(remote'[w]).rust)]_vars
=============================================================================
