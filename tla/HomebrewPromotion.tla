-------------------------- MODULE HomebrewPromotion --------------------------
(***************************************************************************)
(* scripts/promote-homebrew.sh: a release's formula becomes one commit of  *)
(* a checkout of the tap, which is pushed to the tap's main branch.  The   *)
(* script may stop anywhere and be run again; other checkouts promote and  *)
(* other people push meanwhile.                                            *)
(*                                                                         *)
(* A commit is the sequence of the changes from the first one to it, so    *)
(* that its ancestors are its prefixes.                                    *)
(***************************************************************************)
EXTENDS Integers, SequencesExt

CONSTANTS
  Taps,       \* checkouts of the tap
  Versions,   \* released versions
  First,      \* the version in the tap at the start
  Foreign,    \* formulas that people write
  EditPcs,    \* where a promotion may be when people work in its checkout
  MaxRuns, MaxEdits, MaxOthers   \* bounds

Pcs == {"idle", "remote", "fetch", "inspect", "dryRun", "prepare", "copy", "add", "commit",
        "race", "push", "published", "verify"}

\* Version 0 stands for what no release is: a formula without a version, the
\* author of a commit that no promotion made.
Outsider == 0
Formulas == [version : Versions \cup {0}, exact : BOOLEAN]
Release(v) == [version |-> v, exact |-> TRUE]   \* its bytes
Broken == [version |-> 0, exact |-> FALSE]

ASSUME PromotionAssumption ==
  /\ "" \notin Taps
  /\ Versions \subseteq Nat \ {0}
  /\ First \in Versions
  /\ Foreign \subseteq Formulas
  /\ EditPcs \subseteq Pcs

\* A change: the formula after it, whether other files change too, and whose
\* promotion made it, where ("" when it was not in a checkout).
Changes == [formula : Formulas, others : BOOLEAN, by : Versions \cup {Outsider}, at : Taps \cup {""}]
Commits == Seq(Changes)
NoCommit == << >>

VARIABLES
  remote,   \* main of the tap
  head,     \* HEAD of each checkout
  index,    \* the formula that is staged
  work,     \* the formula in the files
  other,    \* changes of other files
  run,      \* the promotion that runs, or ran last, in each checkout
  writers,  \* history: who wrote the checkout since it was clean at main
  runs, edits, pushes   \* counters of the bounds

tap == <<head, index, work, other>>
vars == <<remote, tap, run, writers, runs, edits, pushes>>

Idle == [pc |-> "idle", version |-> Outsider, remoteHead |-> NoCommit, localHead |-> NoCommit,
         status |-> "clean", prepared |-> NoCommit, verdict |-> "none"]

Runs == [pc : Pcs, version : Versions \cup {Outsider}, remoteHead : Commits, localHead : Commits,
         status : {"clean", "formula", "foreign"}, prepared : Commits,
         verdict : {"none", "NO_CHANGE", "PUBLISHED", "LOCAL_STATE_CONFLICT"}]

\* What a promotion pushes is one change on top of the main branch it read.
TypeOK ==
  /\ remote \in Commits
  /\ head \in [Taps -> Commits]
  /\ index \in [Taps -> Formulas]
  /\ work \in [Taps -> Formulas]
  /\ other \in [Taps -> {"none", "unstaged", "staged"}]
  /\ run \in [Taps -> Runs]
  /\ writers \in [Taps -> SUBSET (Versions \cup {Outsider})]
  /\ \A t \in Taps : run[t].pc \in {"race", "push", "published", "verify"} =>
       run[t].prepared # NoCommit /\ Front(run[t].prepared) = run[t].remoteHead
  /\ {runs, edits, pushes} \subseteq Nat

FirstCommit == <<[formula |-> Release(First), others |-> TRUE, by |-> Outsider, at |-> ""]>>

Init ==
  /\ remote = FirstCommit
  /\ head = [t \in Taps |-> FirstCommit]
  /\ index = [t \in Taps |-> Release(First)]
  /\ work = [t \in Taps |-> Release(First)]
  /\ other = [t \in Taps |-> "none"]
  /\ run = [t \in Taps |-> Idle]
  /\ writers = [t \in Taps |-> {}]
  /\ runs = 0
  /\ edits = 0
  /\ pushes = 0

FormulaOf(commit) == Last(commit).formula

\* git status --porcelain: nothing, a change of the formula alone, or others.
Status(t) ==
  CASE other[t] # "none" -> "foreign"
    [] other[t] = "none" /\ {index[t], work[t]} = {FormulaOf(head[t])} -> "clean"
    [] OTHER -> "formula"

\* The history of a checkout begins anew when it is clean at main; otherwise
\* `who` has written it, and main may have moved without it.
Track(t, who) ==
  writers' = [u \in Taps |->
    IF head'[u] = remote' /\ Status(u)' = "clean" THEN {}
    ELSE IF u = t THEN
      writers[u] \cup {who} \cup (IF IsPrefix(remote', head'[u]) THEN {} ELSE {Outsider})
    ELSE IF remote' # remote /\ writers[u] # {} THEN writers[u] \cup {Outsider}
    ELSE writers[u]]

-----------------------------------------------------------------------------
(* People: they push to main, and work in a checkout.                      *)

OthersPush(formula, others) ==
  /\ pushes < MaxOthers
  /\ others \/ formula # FormulaOf(remote)
  /\ pushes' = pushes + 1
  /\ remote' = Append(remote, [formula |-> formula, others |-> others, by |-> Outsider, at |-> ""])
  /\ UNCHANGED <<tap, run, runs, edits>>
  /\ writers' = [t \in Taps |-> IF writers[t] = {} THEN {} ELSE writers[t] \cup {Outsider}]

People(t) ==
  /\ run[t].pc \in EditPcs
  /\ edits < MaxEdits
  /\ edits' = edits + 1
  /\ UNCHANGED <<remote, run, runs, pushes>>
  /\ Track(t, Outsider)

EditOther(t) ==
  /\ other' \in {[other EXCEPT ![t] = "unstaged"], [other EXCEPT ![t] = "staged"]}
  /\ UNCHANGED <<head, index, work>>
  /\ People(t)

EditFormula(t, formula) ==
  /\ work' = [work EXCEPT ![t] = formula]
  /\ UNCHANGED <<head, index, other>>
  /\ People(t)

\* git commit --all
CommitOther(t) ==
  /\ Status(t) # "clean"
  /\ head' = [head EXCEPT ![t] = Append(@, [formula |-> work[t], others |-> other[t] # "none",
                                            by |-> Outsider, at |-> t])]
  /\ index' = [index EXCEPT ![t] = work[t]]
  /\ other' = [other EXCEPT ![t] = "none"]
  /\ UNCHANGED work
  /\ People(t)

\* git reset --hard to main
Tidy(t) ==
  /\ head' = [head EXCEPT ![t] = remote]
  /\ index' = [index EXCEPT ![t] = FormulaOf(remote)]
  /\ work' = [work EXCEPT ![t] = FormulaOf(remote)]
  /\ other' = [other EXCEPT ![t] = "none"]
  /\ People(t)

-----------------------------------------------------------------------------
(* A promotion.  The release, its archive and the permissions have been    *)
(* verified when it reads the tap.                                         *)

Counters == <<runs, edits, pushes>>

\* The run of t goes on with the fields of r; no checkout is written.
Goes(t, r) ==
  /\ run' = [run EXCEPT ![t] = r]
  /\ UNCHANGED <<remote, tap, writers, Counters>>

Start(t, v) ==
  /\ run[t].pc = "idle"
  /\ runs < MaxRuns
  /\ runs' = runs + 1
  /\ run' = [run EXCEPT ![t] = [Idle EXCEPT !.pc = "remote", !.version = v]]
  /\ UNCHANGED <<remote, tap, writers, edits, pushes>>

\* The script is interrupted, or a check or a command of it fails.
Stop(t) == run[t].pc # "idle" /\ Goes(t, Idle)

Finish(t, verdict) ==
  Goes(t, [run[t] EXCEPT !.pc = "idle", !.localHead = NoCommit, !.status = "clean",
                         !.verdict = verdict])

ReadRemote(t) ==
  /\ run[t].pc = "remote"
  /\ Goes(t, [run[t] EXCEPT !.pc = "fetch", !.remoteHead = remote])

Fetch(t) ==
  /\ run[t].pc = "fetch"
  /\ remote = run[t].remoteHead
  /\ Goes(t, [run[t] EXCEPT !.pc = "inspect"])

IsCurrent_ByVersion(t) == FormulaOf(run[t].remoteHead).version = run[t].version   \* mutant: cmp

IsCurrent(t) == FormulaOf(run[t].remoteHead) = Release(run[t].version)

Newer_OrOther(t) ==   \* mutant: only the same version is refused
  FormulaOf(run[t].remoteHead).version \notin {0, run[t].version}

\* semver_gt, of a formula that has a version.
Newer(t) ==
  LET published == FormulaOf(run[t].remoteHead).version
  IN published # 0 /\ run[t].version > published

\* HEAD and the status are read here, and used after a dry run over the network.
Inspect(t) ==
  /\ run[t].pc = "inspect"
  /\ \/ /\ IsCurrent(t)
        /\ Finish(t, IF head[t] = run[t].remoteHead /\ Status(t) = "clean"
                     THEN "NO_CHANGE" ELSE "LOCAL_STATE_CONFLICT")
     \/ /\ ~IsCurrent(t)
        /\ Newer(t)
        /\ Goes(t, [run[t] EXCEPT !.pc = "dryRun", !.localHead = head[t], !.status = Status(t)])

DryRun(t) ==
  /\ run[t].pc = "dryRun"
  /\ remote = run[t].remoteHead
  /\ Goes(t, [run[t] EXCEPT !.pc = "prepare"])

AtMain(t) == run[t].localHead = run[t].remoteHead

Copied_NeedsUnstaged(t) ==   \* mutant: 'M ' is no state to resume from
  AtMain(t) /\ run[t].status = "formula" /\ work[t] = Release(run[t].version)
    /\ index[t] = FormulaOf(head[t])

Copied_AnyBytes(t) == AtMain(t) /\ run[t].status = "formula"   \* mutant: the bytes are not compared

\* The formula was copied, and perhaps staged, before.
Copied(t) == AtMain(t) /\ run[t].status = "formula" /\ work[t] = Release(run[t].version)

Fresh(t) == AtMain(t) /\ run[t].status = "clean"

Behind(t) ==
  run[t].status = "clean" /\ IsStrictPrefix(run[t].localHead, run[t].remoteHead)

Committed_AnyParent(t) ==   \* mutant: the parent is not compared
  /\ run[t].status = "clean"
  /\ ~AtMain(t) /\ ~Behind(t)
  /\ LET last == Last(run[t].localHead)
     IN last.by = run[t].version /\ ~last.others /\ last.formula = Release(run[t].version)

\* The formula was committed before: subject, author, files and bytes agree.
Committed(t) ==
  /\ run[t].status = "clean"
  /\ Front(run[t].localHead) = run[t].remoteHead
  /\ LET last == Last(run[t].localHead)
     IN last.by = run[t].version /\ ~last.others /\ last.formula = Release(run[t].version)

Prepare(t) ==
  /\ run[t].pc = "prepare"
  /\ \/ Fresh(t) /\ Goes(t, [run[t] EXCEPT !.pc = "copy"])
     \/ Copied(t) /\ Goes(t, [run[t] EXCEPT !.pc = "add"])
     \/ Committed(t) /\ Goes(t, [run[t] EXCEPT !.pc = "race", !.prepared = run[t].localHead])
     \/ /\ ~Fresh(t) /\ ~Copied(t) /\ ~Committed(t) /\ ~Behind(t)
        /\ Finish(t, "LOCAL_STATE_CONFLICT")

\* The checkout is written: the run of t goes on at pc.
Writes(t, pc) ==
  /\ run' = [run EXCEPT ![t].pc = pc]
  /\ UNCHANGED <<remote, Counters>>
  /\ Track(t, run[t].version)

FastForward(t) ==
  /\ run[t].pc = "prepare"
  /\ Behind(t)
  /\ IsPrefix(head[t], run[t].remoteHead)
  /\ {index[t], work[t]} = {FormulaOf(head[t])}
  /\ head' = [head EXCEPT ![t] = run[t].remoteHead]
  /\ index' = [index EXCEPT ![t] = FormulaOf(run[t].remoteHead)]
  /\ work' = [work EXCEPT ![t] = FormulaOf(run[t].remoteHead)]
  /\ UNCHANGED other
  /\ Writes(t, "copy")

Copy(t) ==
  /\ run[t].pc = "copy"
  /\ work' = [work EXCEPT ![t] = Release(run[t].version)]
  /\ UNCHANGED <<head, index, other>>
  /\ Writes(t, "add")

\* The copy itself is cut short.
CopyCut(t) ==
  /\ run[t].pc = "copy"
  /\ work' = [work EXCEPT ![t] = Broken]
  /\ run' = [run EXCEPT ![t] = Idle]
  /\ UNCHANGED <<remote, head, index, other, Counters>>
  /\ Track(t, Outsider)

Add(t) ==
  /\ run[t].pc = "add"
  /\ index' = [index EXCEPT ![t] = work[t]]
  /\ UNCHANGED <<head, work, other>>
  /\ Writes(t, "commit")

\* git commit takes all that is staged; then its name is read.
Commit(t) ==
  /\ run[t].pc = "commit"
  /\ index[t] # FormulaOf(head[t]) \/ other[t] = "staged"
  /\ head' = [head EXCEPT ![t] = Append(@, [formula |-> index[t], others |-> other[t] = "staged",
                                            by |-> run[t].version, at |-> t])]
  /\ other' = [other EXCEPT ![t] = IF @ = "staged" THEN "none" ELSE @]
  /\ run' = [run EXCEPT ![t].pc = "race", ![t].prepared = head'[t]]
  /\ UNCHANGED <<remote, index, work, Counters>>
  /\ Track(t, run[t].version)

Race(t) ==
  /\ run[t].pc = "race"
  /\ remote = run[t].remoteHead
  /\ Goes(t, [run[t] EXCEPT !.pc = "push"])

\* The server takes a push that extends main; its answer may be lost.
Push(t) ==
  /\ run[t].pc = "push"
  /\ IsPrefix(remote, run[t].prepared)
  /\ remote' = run[t].prepared
  /\ run' \in {[run EXCEPT ![t].pc = "published"], [run EXCEPT ![t] = Idle]}
  /\ UNCHANGED <<tap, Counters>>
  /\ Track(t, run[t].version)

ReadPublished(t) ==
  /\ run[t].pc = "published"
  /\ remote = run[t].prepared
  /\ Goes(t, [run[t] EXCEPT !.pc = "verify"])

VerifyPublished(t) ==
  /\ run[t].pc = "verify"
  /\ remote = run[t].prepared
  /\ FormulaOf(remote) = Release(run[t].version)
  /\ head[t] = run[t].prepared /\ Status(t) = "clean"
  /\ Finish(t, "PUBLISHED")

-----------------------------------------------------------------------------
Promotion(t) ==
  \/ \E v \in Versions : Start(t, v)
  \/ Stop(t) \/ ReadRemote(t) \/ Fetch(t) \/ Inspect(t) \/ DryRun(t) \/ Prepare(t)
  \/ FastForward(t) \/ Copy(t) \/ CopyCut(t) \/ Add(t) \/ Commit(t)
  \/ Race(t) \/ Push(t) \/ ReadPublished(t) \/ VerifyPublished(t)

Next ==
  \/ \E formula \in Foreign \cup {FormulaOf(remote)}, others \in BOOLEAN : OthersPush(formula, others)
  \/ \E t \in Taps :
       \/ Promotion(t)
       \/ EditOther(t) \/ CommitOther(t) \/ Tidy(t)
       \/ \E formula \in Foreign : EditFormula(t, formula)

Spec == Init /\ [][Next]_vars

-----------------------------------------------------------------------------
(* Properties.                                                             *)

\* docs/release.md: "It creates at most one formula-only commit": a promotion
\* moves main by one commit, on top of what was there, of the formula alone.
PushIsFormulaOnly ==
  [][\A t \in Taps : Push(t) /\ remote' # remote =>
       Front(remote') = remote /\ ~Last(remote').others]_vars

\* ... and what it moves main to is the released formula, of a version above
\* the one that main had at that moment.
PushIsExact ==
  [][\A t \in Taps : Push(t) /\ remote' # remote =>
       /\ Front(remote') = remote /\ ~Last(remote').others
       /\ FormulaOf(remote') = Release(run[t].version)
       /\ run[t].version > FormulaOf(remote).version]_vars

\* PUBLISHED and NO_CHANGE mean that the tap has had the released formula at
\* main, whatever others have pushed since.
VerdictIsTrue ==
  \A t \in Taps :
    /\ run[t].verdict = "PUBLISHED" =>
         IsPrefix(run[t].prepared, remote) /\ FormulaOf(run[t].prepared) = Release(run[t].version)
    /\ run[t].verdict = "NO_CHANGE" =>
         IsPrefix(run[t].remoteHead, remote) /\ FormulaOf(run[t].remoteHead) = Release(run[t].version)

\* Promotions from all checkouts, repeated and resumed in any order, follow one
\* another on main with rising versions: none is there twice.
VersionsRise ==
  \A i \in 2..Len(remote) :
    remote[i].by # Outsider /\ remote[i - 1].by # Outsider => remote[i - 1].by < remote[i].by

\* A promotion can always be resumed: it gives a checkout up as conflicting
\* only if someone or something else has written it or moved main since it was
\* clean at main, or if main has the formula already.
ResumesOwnWork ==
  [][\A t \in Taps :
       run[t].pc # "idle" /\ run'[t].verdict = "LOCAL_STATE_CONFLICT" =>
         \/ ~(writers[t] \subseteq {run[t].version})
         \/ IsCurrent(t)]_vars
=============================================================================
