# Goalrail: specifications, model checking and proofs

TLA+ modules for `goalrail-rs`: the `gr` command, which inspects local Codex
and Claude installations by running their commands and reading their files, and
the scripts that verify, push and release the repository. Each module states
which source it models; `PROJECT.json` maps every definition to its lines.

`tlc -config X.cfg MCY.tla` runs a configuration, `tlapm YProofs.tla` checks the
proofs of module `Y`.

## 1. Inventory

### Components

| Component | State | Operations | What makes it correct |
| --- | --- | --- | --- |
| Bounded process runner (`gr-inspect-core/src/process.rs`) | child, two pipes, two reader threads and their channels, two clocks | spawn, poll, kill, wait, drain | output without `timed_out` is complete; the call ends within its bounds and leaves no child |
| Verdicts (`gr-inspect-core/src/lib.rs`) | none | exit codes | 0 means evidence for everything required |
| Skill catalog RPC (`gr-inspect-codex/src/skills.rs:572-747`) | app-server, its stdin and stdout, a reader thread, awaited id, deadline | initialize, skills/list, kill, wait | a catalog is the answer to both requests; one deadline; the server is gone |
| Rollout scan (`skills.rs:392-472, 753-874`) | candidates, shared index, partial evidence per worker, merged evidence | list, claim, scan, join, merge, report | complete coverage leaves nothing out; nothing counts twice |
| Rollout reader (`skills.rs:876-1105, 1245-1360`) | position, current turn, pending context, parse errors | read a record, parse and format dates | one observation per skill and turn; dates by the calendar |
| Skill assessment (`gr-skill-assessment`) | none | assess | no cleanup advice from partial or short history |
| Codex summary (`use_case.rs`, `inspection.rs`, `report.rs`) | seven probe threads, joined results | spawn, join, judge, synthesize | one report for the same results; baseline only with every result |
| Plugin drilldown (`plugins.rs`, `use_case.rs:101-188`) | inventory, catalog, evidence, read one after the other | list, read the catalog, scan, classify, link | each skill is linked once and to its owner, ambiguity is named |
| Updates (`updates.rs`, `app.rs`) | installed, app and latest version, read in this order | read, compare | what is said of the versions was so |
| Instruction discovery (`agents.rs`) | root, layers, budget, sources so far | read configurations, find the root, walk directories | the report is of one tree; the nearest trusted layer wins, the budget is kept |
| Claude inspection (`gr-inspect-claude`) | two probe threads, files read so far | spawn, join, judge, read files, examine install paths | baseline only with both lists and every directory; local evidence of one tree |
| Command line (`gr-cli`) | none | choose the inspection, print, exit | exit code and streams tell the verdict |
| Verification receipts (`scripts/rust-verification-receipts.sh`, `.githooks/pre-push`) | worktree, HEAD, receipt store, remote | verify-milestone, verify-ci, verify-outgoing, check, push | only verified trees are pushed |
| Homebrew promotion (`scripts/promote-homebrew.sh`) | tap checkout, remote main | prepare, commit, push, read back | one formula commit, never a downgrade, resumable |
| Release pipeline (`.github/workflows/release.yml`, release scripts) | tag, run, assets | check, package, assemble | the assets are the run's of the tagged commit |
| Plugin skill scripts, API and architecture gates, site, fixtures | none | classify, compare | see `PROJECT.json` |

### How they interact

The Codex summary runs one process per probe through the bounded runner, each in a
thread, and one catalog exchange for the skills; the skills drilldown does the
exchange, then the scan, then hands the merged evidence to the assessment. They
communicate by return values and joins; the only state shared between threads are the
scan's candidate index and the mpsc channels of the two readers. Around them are
processes that nobody controls: the child and what it forks, the app-server, and Codex
itself, which writes and archives rollouts while they are read, upgrades plugins, and
is upgraded itself. The receipts are files that worktrees share, written by
verifications and read by the hook; the developer edits while a verification runs.

### What is hard

Exits that race kills, pipes held by descendants, back pressure, deadlines shared
by several steps, protocol lines that are not answers, files that move between
listing and opening, threads that panic with evidence in their hands, checks whose
result is used after the thing checked has changed, pushes of several refs.
`PROJECT.json` lists these hazards line by line with the properties that cover
them, and those that no property covers with the reason.

## 2. Plan

Modules, in the order in which they were written; all of them exist.

1. `BoundedProcess`, `BoundedProcessProofs`: every other probe rests on it.
2. `Assessment`, `UsageReport`, `RolloutScan`: the scan as the state machine,
   the policy as operators that it applies, the contract as its abstract
   specification.
3. `SkillCatalogRpc`.
4. `Receipts`, `ReceiptsProofs`.
5. `CodexInspection`: the threads over probes whose running is abstracted.
6. `HomebrewPromotion`: promotions that crash, are resumed and race other
   writers of the tap.
7. `RolloutReader` and `SkillsReport`: records to uses, and catalog to report, as
   operators that `RolloutScan` and the two modules below apply; `CivilTime`.
8. `SkillUse`: the reader against the turns that Codex really ran.
9. `PluginDrilldown`, `CodexUpdates`, `Instructions`, `ClaudeInspection`,
   `ClaudeLocal`: the other inspections, each among the changes of what it reads.
10. `InspectCore`, `GrCommand`: what the inspections share, and the command that
    runs one of them.

11. `SkillCatalogRpcProofs`, `CodexInspectionProofs`, `SkillEvidenceProofs` (lemmas
    about `RolloutReader` and `Assessment`), `RolloutScanProofs`,
    `HomebrewPromotionProofs`.
12. `GrCommandProofs`: the calendar, the reader's turns, each inspection's evidence,
    the end of the process, and the two walks over files.

Every safety property that a passing run checks is a theorem; section 5 says under
which assumptions, and what stays with TLC.

## 3. What is modelled

**BoundedProcess** is `run_bounded`. The supervisor's `pc` follows the loop
(`poll`, `elapsed`, `sleep`, `wait`), then `drain_readers` (`check`, `recv`).
Pipes and channels are FIFO, so that what is still on its way says what has arrived:
per stream the bytes in the pipe (`piped`) and those in the channel behind it
(`queued`). Writers write for ever if they like, and the channel counts its bytes up
to `MaxQueued` only. The child, one set of descendants and the kernel (`KillLands`)
are external. Time passes while the supervisor sleeps or waits and anywhere in the
receive loop, output coming in or not; `RemainingIsZero` is what ends the loop then.

**SkillCatalogRpc** is `probe_skill_catalog`. A line from the server is an id and a
body; what the server does is external and almost arbitrary. Only the lines that the
client has not received are kept, so that the server may talk for ever while the clock
runs. `Conclude` is the end of the closure, after which kill and wait follow on every
path. `taken` is a history variable: the lines taken for the two answers.

**Assessment** is the crate `gr-skill-assessment` without state: `CoverageStatus`,
`Signal`, `CleanupDisposition`, `AssessmentVerdict`, `Assess` keep the names of the
code. **RolloutScan** is the scan that feeds it: counters are kept as the sets that
they count, and `PartialsDisjoint` shows that this loses nothing. Workers follow
the loop of `scan_rollouts` step by step; `Archive`, `Expire` and `Panic` are the
surroundings. **UsageReport** is what a reader of a report may rely on, as a state
machine with one step; `RolloutScan` implements it under the mapping given at its
end (`KeepsContract`).

**CodexInspection** is `inspect_codex`: `SpawnWorkers`, `JoinNext` in the fixed
order, then the handlers (`JudgeAccepts`, `JudgeFails`) and `synthesize_report`
(`Synthesize`). A probe's result keeps what the handlers tell apart.

**RolloutReader** is `scan_rollout`'s loop as a function from the records read so
far to the evidence they give: `ReadNext` has a case per kind of record, with the
turn's id and ordinal and the `task_started` that waits for its context.
`RolloutScan` applies it to the prefix that a worker has read.
**CivilTime** is the RFC 3339 arithmetic, as written, with the calendar as its
reference: years by counting the leap years among them, months by summing their
lengths. **SkillsReport** has the operators between the catalog
and the report: `UniqueActive`, `Classify` (paths as written and as resolved) and
`ItemView`.

**SkillUse** is `gr inspect codex skills` on one rollout that Codex writes: turns
are marked by an event, a context or both, with an id or without, torn or whole;
`readIn` is the history variable with the turns that really read the manifest.

**PluginDrilldown** is `gr inspect codex plugins`. Paths are sequences of names, a
home may be a symbolic link, and `Replace` upgrades or removes a plugin between any
two of the four readings. `BuildReport` is `build_plugin_inspection_report`. The
skills are classified (`skills.rs:1115-1120`) and then linked (`plugins.rs:466-474`),
each of which resolves their paths; the two follow each other directly and are the one
step `Build`, so that a plugin that goes between them is not modelled. It would matter
for a home behind a link only, which the property excludes with a removal at any time.
`IsInstallation` says what is assumed of Codex's layout: of links only the home is
one, files in the root of any plugin are in a root of their own plugin, and a next
version that is not listed yet is in no listed plugin's root. Which root belongs to
which plugin is all that the code knows of the layout.

**CodexUpdates** is `gr inspect codex updates` with `Publish` and `Upgrade` around
it. Versions are numbers in semantic order, odd ones pre-releases.

**Instructions** is `agents.rs`, **ClaudeLocal** is `local.rs`: one step per file
that is read, in the code's order, and one `Edit` that changes a file in between.
Both have a reference (`ReportOf`) that says what a tree means without any order of
reading. `IsContent` says what a file may hold, as far as the code's types do: a
configured budget is a number, fallbacks are names, an instruction file has a size,
a skills root finitely many entries. `FallbackNames` are the names that a
configuration may give to instruction files. It may repeat a name that is tried
anyway, which is then examined twice; one that is a root marker's or a
configuration's is excluded (`CommandAssumption`): that file would be read for two
purposes at two times, so that a change in between could make a report of no tree.

**ClaudeInspection** is `inspect_claude`: the version, two threads, both joined
before either is judged, then the install paths, one step each, while plugins are
installed and removed. `since` is a history variable: the plugins whose directory
existed when they were listed or at some time after it. Where the local
files are read stands one step; `ClaudeLocal` is that step.

**GrCommand** is `main.rs`: it instantiates the six modules above over the same
variables (`part` says which one runs) and then renders the outcome: the flags
before and after a section's name, stdout or stderr, a report that cannot be
serialised, a closed pipe. **InspectCore** has what they share: verdicts, exit codes,
how the end of a native command is judged.

**Receipts** is the receipt script and the hook. A tree is a pair of versions (its
Rust files, everything else), a commit the sequence of trees up to it, a receipt
an edge between trees. A verification's `pc` follows the order in which the script
reads the worktree; each reading is a step of its own, since the developer may
edit between two. `ciPassed` and `mutated` are history variables: what really was
tested.

**HomebrewPromotion** is `promote-homebrew.sh` from its first reading of the tap's
main on. A commit is the sequence of changes up to it, so that fast-forward and
ancestry are prefixes. Each checkout has a HEAD, a staged and a written formula and
changes of other files; `git status` is computed from these (`Status`). Every command
that reads or writes the checkout or the remote is a step, `Stop` ends the script
between any two, `CopyCut` within one, and `Push` may succeed without an answer.
`writers` is a history variable: who wrote a checkout since it was clean at main.

## 4. What is checked

| Run | Shows | Bounds |
| --- | --- | --- |
| `bounded_process` | complete output, bounded duration, reaped child, separate drain windows; the call returns and back pressure ends | timeout 3, poll interval 2 (does not divide it), grace 1, one descendant, pipes of 1 byte, channels counted to 2 bytes: a stream can be full, cut, held open and written to without end |
| `skill_catalog_rpc` | a catalog is answered, one deadline, the server reaped; the probe returns | 3 lines that the client has not received, any number that it has: an answer with a line before and after it |
| `rollout_scan` | unobserved is true, baseline means recent use, nothing counted twice; the scan reports and keeps the contract | 2 workers, 2 rollouts of up to 2 records at the two thresholds of age, scaled down (days of two seconds; uses of the last recent and the first stale second, a history of exactly the required days) and away from both; one rollout may move, each may fail |
| `codex_inspection` | exit code 0 and `REVIEW` rest on every probe, the first failure in order is reported, all threads are joined in the time of one; there is a report | 4 of 7 probes: the 4 list commands have one handler shape; every doctor report of schema 1 |
| `receipts` | receipts are of tested trees, edges are mutation-tested or Rust-free, the remote only gets tested trees over mutation-tested changes | 2 worktrees, 2 versions each of Rust and other files, 2 edits, 2 commits, 2 verifications, a search bound of 2 states |
| `homebrew_promotion` | main moves by one formula-only commit to a newer released formula, verdicts are true, no version comes twice, interrupted promotions can be resumed | 2 checkouts, 3 versions, 3 promotions stopped anywhere, 1 push and 1 edit by other people (a released formula, other bytes under its version, no version) |
| `gr_commands` | no `BASELINE_OK` and no word on a version without its evidence, reports of one tree, counts are task turns, dates are the calendar's, exit code and streams tell the verdict | 3 turns of 2 calls, 1 other record at the start; 1512 dates around month ends, leap days, centuries, 1969, the first and the last year of four digits; 40 installations of up to 2 plugins, 1 upgrade or removal; versions to 6; 3 Claude plugins, two with one id, that come and go; 2 nested directories, a budget of 10 bytes, one changed file |
| `latest_use` | finding, see below | as `rollout_scan` |
| `unexecutable_codex` | finding, see below | as `skill_catalog_rpc` |
| `receipt_race` | finding, see below | as `receipts`, edits allowed while the receipt is recorded |
| `staged_change` | finding, see below | one checkout, edits allowed between its status and the commit |
| `invalid_link` | finding, see below | as `gr_commands` |

Every property is broken by at least one mutant of the code's definitions, which
stand in the modules beside the definition they replace (`X_Something`, marked
"mutant").

The bounds are small because the hazards are: each needs two actors and two or
three objects (a stream that is drained second, a candidate that two workers
want, a ref that is pushed beside another one). Where a run restricts the
interleavings, its `MC` module says how: `MCReceipts` lets one worktree verify at a
time and starts no verification while the hook works, one that runs goes on.
In `gr_commands` two turns suffice to merge or split, the third makes a turn stand
before and after another; a second changed file or plugin is left out because the
properties do not hold for it: what is read file by file can then be a mixture that
never was a tree, which nothing in the code prevents or promises.

What some properties of `gr_commands` leave open, because the code does:

- `CountsAreTurns` is about turns that have a mark. Reads of a turn without any are
  counted one by one, and a context without an id right after a turn of an event
  alone is taken for that turn's context (`Mistaken`).
- `Plugins!BaselineIsEvidence` excludes a removed plugin where the Codex home is a
  symbolic link: its path cannot be resolved any more, so that its skills pass for
  the user's own. No property covers that hazard, since no document says what the
  origin of a skill is whose plugin is gone.
- `Claude!BaselineIsEvidence` says that a plugin's directory existed at the listing or
  later, not that all of them existed at one time: they are examined one by one.
- `ExitTellsVerdict`: `updates` reports its failures on stdout, like reports; only
  the two summaries contain paths that JSON may be unable to hold; a print to a
  closed pipe panics (101), and a closed descriptor is `/dev/null` by the time `main`
  runs.
- `ClaudeLocal!LooksAtOnce`: a home that is itself an ancestor of the current
  directory has its skills counted as personal and as the project's; the model's
  directories are apart. An instruction file below something that is no directory
  (`ENOTDIR`) fails the inspection; it is one of `Denied`.

**Fairness.** Threads, the clock and the kernel go on (weak fairness of `Client`,
`Tick`, `KillLands`, of each worker and of the main thread): they are scheduled
without locks, and the clock does not stop. No fairness is assumed of the child, the
descendants, the app-server, Codex, a developer or a failure, so `AlwaysReturns` and
`AlwaysReports` hold when these do nothing at all. They hold as well when they never
stop: writers and the server produce without bound, each byte or line may find the
program in its receive loop, and only the test of the remaining time at the top of the
loop ends it (the mutant `RemainingIsZero_Untested` of both modules runs for ever). In
`CodexInspection` the workers are fair because every probe returns, which is what
`BoundedProcess` and `SkillCatalogRpc` show. `Receipts` and `HomebrewPromotion` have
safety properties only, and so has `GrCommand`, whose inspections are sequences of
steps that each end.

**Deadlock** is not checked (`CHECK_DEADLOCK FALSE`): all these programs end.

### Findings

- `latest_use`: the README promises the "latest observed skill use"; of several
  uses in one turn the first is kept (`assessment.rs:171`), so a later use in the
  same turn is not what is reported.
- `unexecutable_codex`: the README's table has `BLOCKED` for a codex that "could
  not be executed"; `skill_failure` gives it to `NotFound` only (`skills.rs:573`),
  unlike the other commands, which include `PermissionDenied`.
- `receipt_race`: decision 0003 binds a receipt to the exact tree that was tested;
  the script hashes the worktree again after its last comparison
  (`rust-verification-receipts.sh:150`), so that an edit in between gets a receipt.
- `staged_change`: the release runbook says that a promotion "creates at most one
  formula-only commit"; `git commit` (`promote-homebrew.sh:271`) takes everything
  staged, and the status that showed the checkout clean was read before a dry run
  over the network. The post-checks compare the head and the formula only.
- `invalid_link`: the README says that invalid path components "are listed instead
  of being linked optimistically" (`README.md:110`); a plugin has a link root for its
  identity and one for its source, each if it is valid, so that one listed as
  invalid for the one is still linked by the other (`plugins.rs:249-286`).

## 5. What is proved

Proofs hold for every value of the constants that the modules' assumptions allow.
No property below is inductive as it stands; each module's `IInv` is the invariant
that is, written as named conjuncts, and its proof has one step (or one lemma) per
action and under it one per conjunct that the action disturbs. TLC has checked the
invariants on the runs' instances. The assumptions
on the constants say what the code's types say, and that some sets are finite.

`BoundedProcessProofs`: `TypeCorrect`, `OutputIsComplete`, `DurationIsBounded`,
`ChildIsReaped` and `WindowPerStream` for `BoundedProcess`. That output is complete
needs to know what a finished reader implies about the write ends and the pipe, and
that `complete` is set with the channel empty (`FlowInv`), and that the supervisor
drains only a reaped child, whose own end `timed_out` tells (`ReapInv`); the duration
needs the time spent so far as a sum over the streams already drained.

`SkillCatalogRpcProofs`: `TypeCorrect`, `CatalogFromAnswers`, `OneDeadline` and
`NoServerLeft`, for any deadline, kill latency and number of lines. `AnswerInv` says
that the client awaits the second answer only with the first in `taken`, and that a
line with a result is the answer to a request that was made; `TimeInv` bounds the
clock at every `pc`: each wait is cut at what is left of the deadline that was fixed
once.

`CodexInspectionProofs`: `TypeCorrect`, `BaselineIsEvidence`, `ReviewMeansComplete`,
`FirstFailureIsNamed` and `JoinsAreInTime`, for any order of the probes, any doctor
report and any duration. The joined results are always the probes before `at`, each
as its thread left it (`JoinInv`), and those before `at` in the judging were accepted
(`FoldInv`). The order must contain the doctor and the skills, whose results the
report reads (`InspectionAssumption`).

`SkillEvidenceProofs` has no state: what `ReadNext` keeps its type, the evidence of a
longer prefix extends that of a shorter one (`PrefixGrows`), a torn record stays
remembered as a bad one (`TornIsRemembered`), `LatestTimes` is one of the uses, and
`RetainUses` invents none. These are inductions over the length of a rollout. The
library's induction rules take an operator as a parameter; `InductionOnSet` takes the
set of the numbers for which a statement holds instead, and follows from the
least-number principle.

`RolloutScanProofs`: for any number of rollouts, records, skills and workers, whatever
expires, panics, fails or moves, `TypeCorrect`, `NothingCountedTwice`,
`CleanupCandidateIsUnused` and `BaselineIsRecent`; and `ScanKeepsContract`, that the
scan implements `UsageReport`: its initial state is one of the contract's, and each
step reports what the contract allows or changes nothing the contract sees. A path is
at any time unclaimed, in the hands of one worker, or accounted for once in one
partial result (`ClaimInv`); what a partial result says of the paths it scanned is
exactly what their contents hold (`Sound`), and remains so when a rollout moves,
since a moved one is not found again or is found as what it was. That coverage is
complete then means that the counters' equations, as `Assess` tests them, leave no
candidate outside the scanned ones (`CompleteCounters`, by cardinality), and from
there that a skill without a use in the report has none in any rollout
(`CompleteEvidence`). `AgeInSeconds` takes the whole days of an age back to seconds.

`ReceiptsProofs`: `TypeCorrect` (with the bound on the hook's search),
`ReceiptsAreTested`, `EdgesAreMutated`, `PushesAreTested` and `PushesAreCovered` for
`Receipts`, for any number of worktrees, versions and receipts. All but the first
assume `QuietRecording`: no edit while a receipt is being recorded, without which
the run `receipt_race` refutes them. `IInv` says what a verification knows at each
`pc`: the tree that CI passed on is the tree read before it *unless* the worktree
has been edited since, and then the last comparison fails. `HookInv` says what the
search has established: every state of its frontier has a chain of mutation-tested
changes to the tree that is pushed, and every ref that is no longer to do is covered
or is the one being searched for. Evidence only grows (`EvidenceGrows`,
`ChainStays`), so that it holds with verifications and commits between any two steps
of the hook.

`HomebrewPromotionProofs`: for any number of checkouts, versions, promotions and other
writers of the tap. `VerdictsAreTrue` holds whatever people do: it rests on `Formed`,
that what a promotion has read of main remains a prefix of it. `TypeCorrect`,
`PromotionsRise`, `PushesAreExact` and `OwnWorkIsResumed` assume `Undisturbed`: nobody
edits or commits in a promotion's checkout between its `git status` and its
commit. Without it the run `staged_change` refutes that a pushed commit is of the
formula alone. (Type correctness needs it because only then is `git commit` known to
have something to commit, and the script's own commit to be what it pushes.) The
remote may be pushed to by others at any time, and checkouts may be edited at all
other times, stopped promotions' included. `Steady` says what of the checkout a
promotion knows at each `pc`; `Sealed`, that a commit about to be pushed is one step
above what was read of main; `Own` and `Resumable`, that what a stopped promotion left
in a checkout that nobody else touched is one of the shapes that the next one
recognises; `Lineage`, that versions rise along main as far as it consists of
promotions.

`GrCommandProofs`: six theorems about the command and the six modules that it runs,
under `CommandAssumption`. One inspection runs per command (`OnePart`), so that each
has an invariant of its own, `SkillsInv` to `AgentsInv`, that only its steps touch.

- `DatesAreCounted`, for every stamp of four-digit years, with any time and offset.
  A year is taken apart into era, century, quarter and rest (`IsYear`), where it
  begins in March, so that a leap day is the last of its quarter; the closed forms of
  the code are then linear in these parts (`YearSums`, `YearFound`, `MonthFound`),
  and `DaysFromCivil` and `CivilFromDays` are inverse (`CivilOfDays`, `CivilOfDate`).
  That the first counts what the calendar counts is an induction over the years
  (`YearsCounted`) and a sum over the months. Where an offset leads out of the years
  of four digits the formatted date is not read back; the property says so.
- `CountsAreTrue`, for a rollout of any number of turns, calls and other records. The
  keys under which uses are retained stand one to one for the turns that read the
  manifest (`Counted`): ids and ordinals that are used are those of turns begun, the
  turn that is going on has a key no earlier one has, and a record that is not the
  turn's own leaves both as they are, or is torn and makes the log a partial one.
- `ExitIsTrue`: whatever is concluded is a conclusion that `Rendered` knows
  (`Ended`), and what was rendered tells it (`Tells`), for all flags and streams; the
  Claude inspection concludes only after both joins (`ClaudeInv`).
- `TypeCorrect`, with the bounds that the types state: places are within the tree,
  what instructions were read is within the budget of the configuration they were
  read under.
- `VerdictsAreEvidence`. Skills: from `SkillsInv`, a baseline needs a use and a log
  without torn records. Updates: each version that was read was installed or
  published when it was read (`Answered`), and versions only rise. Claude: both lists
  were output and every listed plugin not yet examined is still to do (`Accounted`).
  Plugins: what is linked is of one installation, listed at one time, catalogued
  later, with at most one plugin replaced in between (`PluginsFound`); a skill is
  linked when the roots of exactly one plugin are a prefix of its path, and
  by `IsInstallation` its own plugin is one of those whose roots are (`OwnMatches`).
  That resolving a path twice changes nothing, and commutes with taking
  prefixes (`RealTwice`, `RealPrefix`), carries this over homes that are links.
- `ReportsAreOfOneTree`, for trees of any depth and content, any first tree and any
  one change at any time. What has been read says nothing of the files that lie
  ahead, so the invariant is about all trees at once: `AgentsWitness(t)` holds of one
  of the two trees that there were, and says that *every* tree with the same content
  as `t` behind the walk (`AgentsBehind`) has the root, the layers, the settings and
  the first sources that are seen (`AgentsAgree`), and that what lies ahead is still
  as in `t`. A step makes more files lie behind, and the trees that remain agree with
  more; a change behind the walk leaves the witness, one ahead of it makes the changed
  tree the witness. A directory's candidates that were tried in vain (`AgentsTried`)
  are neither: one that is tried again under the same name, and has appeared
  meanwhile, makes the changed tree the witness although the first attempt saw the
  other one. `LocalWitness` is the same for Claude, where no file is read twice.
  What the references count is led back to the walk's order by lemmas about ranks:
  in a finite ordered set, the number of elements up to an element names that element
  (`RankUnique`, `RankOnto`, `AllOfIs`, `SourceIs`), the bytes of the first sources
  never fall (`BytesGrow`), so that the first source that exceeds the budget ends the
  list (`SourcesOfIs`), and one more directory adds its own manifests (`SkillsGrow`).

Only model-checked, and why: liveness (`AlwaysReturns`, `AlwaysReports` and the
like), since the prover has no rules for fairness. No safety property of a passing run
is left to TLC alone.

## 6. What is not modelled

JSON shapes, wording and layout; the findings of a skills report, which repeat its
status and dispositions, and the text of all findings; counts that a report copies
without deciding anything by them (a plugin's uses among them); what a semantic
version or a TOML file looks like. A request that does not fit into a pipe
(`skills.rs:684`), failing `wait` and `kill` calls beyond their early return, a
rollout that leaves the archive during the listing, a Codex that is upgraded between
two probes of one summary, edits that are undone within one verification, and the
checks of a release before its promotion reads the tap are outside the models; the
hazards and the modules' comments name most of them.

Components without a module:

- The release pipeline (`release.yml` and the scripts it calls): jobs in a fixed
  order over one pinned commit, each a sequence of builds and checks that stops at
  the first failure and writes only the artifacts of its own run. What could
  interleave with them is what GitHub does with tags, runs and artifacts, of which
  the source says little.
- The plugin's skill scripts: tables from a few texts to a word, which the
  repository's test scripts drive row by row.
- The architecture and API gates: text comparisons of cargo metadata with committed
  baselines.
- The site, fixtures and test drivers: no behaviour of the program.
