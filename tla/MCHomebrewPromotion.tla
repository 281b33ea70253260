------------------------- MODULE MCHomebrewPromotion -------------------------
EXTENDS HomebrewPromotion, TLC

MCVersions == 1..3
MCFirst == 1

\* The bytes of a release, others with its version, and no version.
MCForeign == {Release(2), [version |-> 2, exact |-> FALSE], Broken}

MCMaxRuns == 3
MCMaxEdits == 1
MCMaxOthers == 1

\* Nobody works in the checkout between the status that a promotion reads and
\* the commit that it makes.
MCEditPcs == Pcs \ {"dryRun", "prepare", "copy", "add", "commit"}
MCAnyPc == Pcs

MCSymmetry == Permutations(Taps)
=============================================================================
