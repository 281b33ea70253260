------------------------------ MODULE MCReceipts ------------------------------
EXTENDS Receipts

MCRust == 0..1
MCDocs == 0..1
MCRoot == [rust |-> 0, docs |-> 1]
MCEmpty == [rust |-> 0, docs |-> 0]
MCMaxStates == 2
MCMaxEdits == 2
MCMaxCommits == 2
MCMaxRuns == 2

\* While the trees are being compared for the last time and the receipt is
\* written, nobody edits the worktree.
MCEditPcs == Pcs \ {"recheck", "hash"}
MCAnyPc == Pcs

\* One worktree verifies at a time, and neither a verification nor an edit
\* begins while the hook works; one that runs goes on, and commits go on.  A
\* branch is on the remote already, the other one is new.  A run ends without a
\* receipt when CI fails or a comparison does: elsewhere an interruption leaves
\* the same receipts.
MCInit == Init /\ \E w, u \in Worktrees : remote[w] = NoRef /\ remote[u] # NoRef

Fails(w) ==
  \/ run[w].pc = "ci"
  \/ run[w].pc \in {"compare", "recheck"} /\ worktree[w].rust # run[w].goal
  \/ run[w].pc = "before" /\ run[w].kind # "milestone" /\ worktree[w] # run[w].target
  \/ run[w].pc = "after" /\ worktree[w] # run[w].before

MCNext ==
  /\ Next
  /\ hook.pc # "idle" => edits' = edits /\ runs' = runs
  /\ runs' # runs => \A w \in Worktrees : run[w].pc = "idle"
  /\ \A w \in Worktrees :
       run[w].pc # "idle" /\ run'[w].pc = "idle" => Fails(w) \/ run[w].pc = "hash"

MCSpec == MCInit /\ [][MCNext]_vars

MCSymmetry == Permutations(Worktrees)
=============================================================================
