----------------------------- MODULE RolloutScan -----------------------------
(***************************************************************************)
(* The history scan behind `gr inspect codex skills`                       *)
(* (crates/gr-inspect-codex/src/skills.rs): discover_rollouts lists the    *)
(* rollout files of two directories, scan_rollouts shares them among       *)
(* worker threads under one deadline, each worker keeping partial          *)
(* evidence, and the merged evidence is assessed and reported.             *)
(*                                                                         *)
(* Meanwhile Codex may archive a rollout (move its file from one directory *)
(* to the other), files may turn out unreadable, the deadline may pass and *)
(* a worker may panic, each at any point.                                  *)
(*                                                                         *)
(* A rollout is a sequence of records, read by RolloutReader.  Counters of *)
(* files and records are the sets of what they count; PartialsDisjoint     *)
(* shows that merging the sets is adding the counters.                     *)
(***************************************************************************)
EXTENDS Assessment, RolloutReader

CONSTANTS
  Rollouts,       \* rollout ids; a greater id has a later file name
  Contents,       \* the records that a rollout may hold
  Origin,         \* skill -> its origin
  ObservedEpoch,  \* observed_epoch
  WorkerLimit,    \* available_parallelism().min(8)
  CatalogErrors,  \* the error counts that the skill catalog may come with
  Nothing         \* the report before there is one

ASSUME ScanAssumption ==
  /\ Rollouts \subseteq Nat
  /\ IsFiniteSet(Rollouts)
  /\ Contents \subseteq Seq(Records)
  /\ \A c \in Contents : \A i \in DOMAIN c : IsFiniteSet(c[i].at)
  /\ IsFiniteSet(Skills)
  /\ Origin \in [Skills -> Origins]
  /\ ObservedEpoch \in Int
  /\ WorkerLimit \in Nat \ {0}
  /\ CatalogErrors \subseteq Nat

Roots == {"sessions", "archived_sessions"}
Paths == Roots \X Rollouts
Workers == 1..WorkerLimit

\* The rollout that a path names.
Id(p) == p[2]

VARIABLES
  content,    \* rollout -> its records
  current,    \* rollouts of the current task, by their session_meta
  named,      \* those of them whose file name has the current thread id
  location,   \* rollout -> the directory that its file is in
  phase,      \* "sessions", "archived_sessions", "start", "scan", "reported"
  discovered, \* the paths listed
  discoveryErrors,
  expired,    \* the scan deadline has passed
  unclaimed,  \* candidates that next_index has not reached
  pc,         \* worker -> "unborn", "check", "claim", "open", "read", "done", "panicked"
  path,       \* worker -> the path it claimed last
  pos,        \* worker -> records read of it
  partial,    \* worker -> its partial evidence
  joined,     \* the workers joined so far are 1..joined
  evidence,   \* the merged evidence
  report      \* Nothing or the assessment, with the uses it rests on

world == <<content, current, named>>
discovery == <<discovered, discoveryErrors>>
workerVars == <<unclaimed, pc, path, pos, partial>>
mergeVars == <<joined, evidence>>
vars == <<world, location, phase, discovery, expired, workerVars, mergeVars, report>>

Uses == [rollout : Rollouts, pos : Nat, skill : Skills,
         turn : {"id", "turn-ordinal", "timestamp"} \X Int, epoch : Int]
Evidence ==
  [scanned : SUBSET Paths, excluded : SUBSET Paths, unreadable : SUBSET Paths,
   bad : SUBSET (Paths \X Nat), uses : SUBSET Uses,
   firsts : SUBSET Int, times : SUBSET Int, truncated : BOOLEAN]

NoEvidence ==
  [scanned |-> {}, excluded |-> {}, unreadable |-> {}, bad |-> {}, uses |-> {},
   firsts |-> {}, times |-> {}, truncated |-> FALSE]

TypeOK ==
  /\ content \in [Rollouts -> Contents]
  /\ current \in SUBSET Rollouts
  /\ named \in SUBSET current
  /\ location \in [Rollouts -> Roots]
  /\ phase \in {"sessions", "archived_sessions", "start", "scan", "reported"}
  /\ discovered \in SUBSET Paths
  /\ discoveryErrors \in Nat
  /\ expired \in BOOLEAN
  /\ unclaimed \in SUBSET Paths
  /\ pc \in [Workers -> {"unborn", "check", "claim", "open", "read", "done", "panicked"}]
  /\ path \in [Workers -> Paths \cup {Nothing}]
  /\ pos \in [Workers -> Nat]
  /\ partial \in [Workers -> Evidence]
  /\ joined \in 0..WorkerLimit
  /\ evidence \in Evidence

\* A rollout begins with its session_meta, which may be torn.
Marked(r) ==
  content[r] # << >> =>
    \E i \in DOMAIN content[r] : content[r][i].kind \in {"meta", "bad", "bad payload"}

Init ==
  /\ content \in [Rollouts -> Contents]
  /\ current \in SUBSET Rollouts
  /\ named \in SUBSET current
  /\ \A r \in current \ named : Marked(r)
  /\ location \in [Rollouts -> Roots]
  /\ phase = "sessions"
  /\ discovered = {}
  /\ discoveryErrors = 0
  /\ expired = FALSE
  /\ unclaimed = {}
  /\ pc = [w \in Workers |-> "unborn"]
  /\ path = [w \in Workers |-> Nothing]
  /\ pos = [w \in Workers |-> 0]
  /\ partial = [w \in Workers |-> NoEvidence]
  /\ joined = 0
  /\ evidence = NoEvidence
  /\ report = Nothing

-----------------------------------------------------------------------------
(* What the first n records of a file are evidence of.                     *)

PrefixEvidence == [c \in Contents |-> ReadPrefixes(c)]

UsesIn(r, n) ==
  {[rollout |-> r, pos |-> u.pos, skill |-> u.skill, turn |-> u.turn, epoch |-> u.epoch] :
     u \in PrefixEvidence[content[r]][n].uses}

TimesIn(r, n) == PrefixEvidence[content[r]][n].times
FirstsIn(r, n) == PrefixEvidence[content[r]][n].firsts
BadIn(p, n) == {p} \X PrefixEvidence[content[Id(p)]][n].bad

\* record_scan of a file that was read up to its record n.
RecordScan_AsScanned(e, p, n, complete) ==   \* mutant: a cut scan counts as a scan
  [e EXCEPT !.scanned = @ \cup {p}, !.bad = @ \cup BadIn(p, n),
            !.uses = @ \cup UsesIn(Id(p), n), !.firsts = @ \cup FirstsIn(Id(p), n),
            !.times = @ \cup TimesIn(Id(p), n)]

RecordScan(e, p, n, complete) ==
  [e EXCEPT !.scanned = IF complete THEN @ \cup {p} ELSE @,
            !.truncated = @ \/ ~complete,
            !.bad = @ \cup BadIn(p, n),
            !.uses = @ \cup UsesIn(Id(p), n),
            !.firsts = @ \cup FirstsIn(Id(p), n),
            !.times = @ \cup TimesIn(Id(p), n)]

\* merge_partial.
Merge(e, f) ==
  [scanned |-> e.scanned \cup f.scanned, excluded |-> e.excluded \cup f.excluded,
   unreadable |-> e.unreadable \cup f.unreadable, bad |-> e.bad \cup f.bad,
   uses |-> e.uses \cup f.uses, firsts |-> e.firsts \cup f.firsts,
   times |-> e.times \cup f.times, truncated |-> e.truncated \/ f.truncated]

-----------------------------------------------------------------------------
(* Discovery.                                                              *)

\* discover_jsonl_files of one root: entries that cannot be examined are
\* counted as errors and their files are missed.
List(root, next) ==
  /\ phase = root
  /\ \E missed \in SUBSET {r \in Rollouts : location[r] = root} :
       /\ discovered' = discovered \cup ({root} \X ({r \in Rollouts : location[r] = root} \ missed))
       /\ discoveryErrors' = discoveryErrors + Cardinality(missed)
  /\ phase' = next
  /\ UNCHANGED <<world, location, expired, workerVars, mergeVars, report>>

ListSessions == List("sessions", "archived_sessions")
ListArchived == List("archived_sessions", "start")

\* scan_rollouts up to the spawn of its workers: files named after the current
\* thread are set aside, and no more workers start than there are candidates.
StartScan ==
  LET setAside == {p \in discovered : Id(p) \in named}
      candidates == discovered \ setAside
  IN  /\ phase = "start"
      /\ phase' = "scan"
      /\ evidence' = [evidence EXCEPT !.excluded = setAside]
      /\ unclaimed' = candidates
      /\ pc' = [w \in Workers |->
                  IF w = 1 \/ w <= Cardinality(candidates) THEN "check" ELSE "done"]
      /\ UNCHANGED <<world, location, discovery, expired, path, pos, partial, joined, report>>

-----------------------------------------------------------------------------
(* The workers.                                                            *)

\* Paths are sorted by file name, latest first, then by path: "sessions" is
\* lexicographically after "archived_sessions".
Newest(paths) ==
  CHOOSE p \in paths : \A q \in paths :
    \/ Id(p) > Id(q)
    \/ Id(p) = Id(q) /\ (p[1] = "sessions" \/ q[1] = p[1])

Advance(w, to) == pc' = [pc EXCEPT ![w] = to]

CheckDeadline(w) ==
  /\ pc[w] = "check"
  /\ Advance(w, IF expired THEN "done" ELSE "claim")
  /\ UNCHANGED <<world, location, phase, discovery, expired, unclaimed, path, pos, partial,
                 mergeVars, report>>

\* fetch_add: reading the index and moving it is one step.
Claim_LoadOnly(w) ==   \* mutant: two workers may load the index before one stores it
  /\ pc[w] = "claim"
  /\ IF unclaimed = {}
     THEN Advance(w, "done") /\ UNCHANGED <<unclaimed, path, pos>>
     ELSE /\ path' = [path EXCEPT ![w] = Newest(unclaimed)]
          /\ unclaimed' \in {unclaimed, unclaimed \ {Newest(unclaimed)}}
          /\ Advance(w, "open")
          /\ UNCHANGED pos
  /\ UNCHANGED <<world, location, phase, discovery, expired, partial, mergeVars, report>>

Claim(w) ==
  /\ pc[w] = "claim"
  /\ IF unclaimed = {}
     THEN Advance(w, "done") /\ UNCHANGED <<unclaimed, path, pos>>
     ELSE /\ path' = [path EXCEPT ![w] = Newest(unclaimed)]
          /\ unclaimed' = unclaimed \ {Newest(unclaimed)}
          /\ Advance(w, "open")
          /\ UNCHANGED pos
  /\ UNCHANGED <<world, location, phase, discovery, expired, partial, mergeVars, report>>

\* File::open finds the file only where it was listed.
Open(w) ==
  /\ pc[w] = "open"
  /\ location[Id(path[w])] = path[w][1]
  /\ Advance(w, "read")
  /\ UNCHANGED <<world, location, phase, discovery, expired, unclaimed, path, pos, partial,
                 mergeVars, report>>

\* Back to the loop with the file's outcome in the partial evidence.
Finish(w, e) ==
  /\ partial' = [partial EXCEPT ![w] = e]
  /\ path' = [path EXCEPT ![w] = Nothing]
  /\ pos' = [pos EXCEPT ![w] = 0]
  /\ Advance(w, "check")
  /\ UNCHANGED <<world, location, phase, discovery, expired, unclaimed, mergeVars, report>>

\* open or read returns an error; what was read of the file is dropped.
ScanFails(w) ==
  /\ pc[w] \in {"open", "read"}
  /\ Finish(w, [partial[w] EXCEPT !.unreadable = @ \cup {path[w]}])

\* One turn of the read loop: the deadline is checked before every record.
ReadCut(w) ==
  /\ pc[w] = "read"
  /\ expired
  /\ Finish(w, RecordScan(partial[w], path[w], pos[w], FALSE))

ReadEnd(w) ==
  /\ pc[w] = "read"
  /\ ~expired
  /\ pos[w] = Len(content[Id(path[w])])
  /\ Finish(w, RecordScan(partial[w], path[w], pos[w], TRUE))

\* The next record is the session_meta of the current thread.
NamesCurrent(w) ==
  LET r == Id(path[w])
  IN  /\ r \in current
      /\ pos[w] < Len(content[r])
      /\ content[r][pos[w] + 1].kind = "meta"

\* The file is left out.
ReadCurrent(w) ==
  /\ pc[w] = "read"
  /\ ~expired
  /\ NamesCurrent(w)
  /\ Finish(w, [partial[w] EXCEPT !.excluded = @ \cup {path[w]}])

ReadRecord(w) ==
  /\ pc[w] = "read"
  /\ ~expired
  /\ pos[w] < Len(content[Id(path[w])])
  /\ ~NamesCurrent(w)
  /\ pos' = [pos EXCEPT ![w] = @ + 1]
  /\ UNCHANGED <<world, location, phase, discovery, expired, unclaimed, pc, path, partial,
                 mergeVars, report>>

Panic(w) ==
  /\ pc[w] \in {"open", "read"}
  /\ Advance(w, "panicked")
  /\ path' = [path EXCEPT ![w] = Nothing]
  /\ pos' = [pos EXCEPT ![w] = 0]
  /\ partial' = [partial EXCEPT ![w] = NoEvidence]
  /\ UNCHANGED <<world, location, phase, discovery, expired, unclaimed, mergeVars, report>>

-----------------------------------------------------------------------------
(* Joining and reporting.                                                  *)

\* join().unwrap_or_default(): a panicked worker has no evidence to give.
Join_DoneOnly(w) ==   \* mutant: a panicked worker is never joined
  /\ phase = "scan" /\ joined = w - 1 /\ pc[w] = "done"
  /\ joined' = w
  /\ evidence' = Merge(evidence, partial[w])
  /\ UNCHANGED <<world, location, phase, discovery, expired, workerVars, report>>

Join(w) ==
  /\ phase = "scan"
  /\ joined = w - 1
  /\ pc[w] \in {"done", "panicked"}
  /\ joined' = w
  /\ evidence' = Merge(evidence, partial[w])
  /\ partial' = [partial EXCEPT ![w] = NoEvidence]
  /\ UNCHANGED <<world, location, phase, discovery, expired, unclaimed, pc, path, pos, report>>

\* The counters as finalize_truncation leaves them.
Counters_NoFinalize(catalogErrors) ==   \* mutant: only a cut scan truncates
  [discovered |-> Cardinality(discovered), excluded |-> Cardinality(evidence.excluded),
   unreadable |-> Cardinality(evidence.unreadable), discoveryErrors |-> discoveryErrors,
   badRecords |-> Cardinality(evidence.bad),
   scanned |-> Cardinality(discovered) - Cardinality(evidence.excluded),
   catalogErrors |-> catalogErrors, truncated |-> evidence.truncated]

Counters(catalogErrors) ==
  LET accounted == Cardinality(evidence.scanned) + Cardinality(evidence.unreadable)
                     + Cardinality(evidence.excluded)
  IN  [discovered |-> Cardinality(discovered),
       excluded |-> Cardinality(evidence.excluded),
       unreadable |-> Cardinality(evidence.unreadable),
       discoveryErrors |-> discoveryErrors,
       badRecords |-> Cardinality(evidence.bad),
       scanned |-> Cardinality(evidence.scanned),
       catalogErrors |-> catalogErrors,
       truncated |-> evidence.truncated \/ accounted < Cardinality(discovered)]

\* build_report.
Report ==
  /\ phase = "scan"
  /\ joined = WorkerLimit
  /\ phase' = "reported"
  /\ \E catalogErrors \in CatalogErrors :
       LET a == Assess(ObservedEpoch, Counters(catalogErrors), evidence.firsts, evidence.times,
                       Origin, evidence.uses)
       IN  report' = [status |-> a.status, items |-> a.items, verdict |-> a.verdict,
                      uses |-> evidence.uses]
  /\ UNCHANGED <<world, location, discovery, expired, workerVars, mergeVars>>

-----------------------------------------------------------------------------
(* The environment.                                                        *)

Expire ==
  /\ phase = "scan"
  /\ ~expired
  /\ expired' = TRUE
  /\ UNCHANGED <<world, location, phase, discovery, workerVars, mergeVars, report>>

\* Codex archives a task while it is being inspected.
Archive(r) ==
  /\ phase # "reported"
  /\ location[r] = "sessions"
  /\ location' = [location EXCEPT ![r] = "archived_sessions"]
  /\ UNCHANGED <<world, phase, discovery, expired, workerVars, mergeVars, report>>

Worker(w) ==
  \/ CheckDeadline(w) \/ Claim(w) \/ Open(w) \/ ScanFails(w)
  \/ ReadCut(w) \/ ReadEnd(w) \/ ReadCurrent(w) \/ ReadRecord(w)

Main == ListSessions \/ ListArchived \/ StartScan \/ (\E w \in Workers : Join(w)) \/ Report

Next ==
  \/ Main
  \/ \E w \in Workers : Worker(w) \/ Panic(w)
  \/ Expire
  \/ \E r \in Rollouts : Archive(r)

\* The main thread and every worker run; nothing need fail, expire or move.
Fairness == WF_vars(Main) /\ \A w \in Workers : WF_vars(Worker(w))

Spec == Init /\ [][Next]_vars /\ Fairness

-----------------------------------------------------------------------------
(* Properties.                                                             *)

\* Every use recorded in the retained rollouts of other tasks.
TrueUses == UNION {UsesIn(r, Len(content[r])) : r \in Rollouts \ current}

\* A skill is called unobserved only if no retained rollout of another task has
\* a use of it at all: a cleanup candidate was never used in the window.
UnobservedIsTrue ==
  report # Nothing =>
    \A s \in Skills : report.items[s].signal = "unobserved" =>
      \A u \in TrueUses : u.skill # s

\* BASELINE_OK is a statement about the history, not about the evidence that
\* happened to be read: each owner-managed skill was used less than RecentDays
\* and one day ago, to the second, the last recent day being cut off when full.
BaselineMeansRecentUse ==
  report # Nothing /\ report.verdict = "baseline_ok" =>
    \A s \in Skills : Origin[s] \in {"personal", "project"} =>
      \E u \in TrueUses :
        /\ u.skill = s
        /\ ObservedEpoch - u.epoch < (RecentDays + 1) * SecondsPerDay

\* No path is accounted for twice, by two workers or under two headings, so
\* that the counters that are compared with rollouts_discovered are exact.
Accounted(e) == e.scanned \cup e.unreadable \cup e.excluded
Headings(e) == <<e.scanned, e.unreadable, e.excluded>>
PartialsDisjoint ==
  LET e == [w \in 0..WorkerLimit |-> IF w = 0 THEN evidence ELSE partial[w]]
      live == {0} \cup {w \in Workers : w > joined}
  IN  /\ \A v, w \in live : v # w => Accounted(e[v]) \cap Accounted(e[w]) = {}
      /\ \A w \in live, i, j \in 1..3 : i # j => Headings(e[w])[i] \cap Headings(e[w])[j] = {}

\* The scan ends in a report although workers panic and files fail.
AlwaysReports == <>(report # Nothing)

\* The latest use of a skill that is reported is its latest use
\* (src/README.md: items report the "latest observed skill use").
LatestUseReported ==
  report # Nothing =>
    \A s \in Skills, u \in report.uses :
      u.skill = s => u.epoch <= report.items[s].lastEpoch

\* The scan keeps the promise of UsageReport.
Contract ==
  INSTANCE UsageReport WITH
    history <- TrueUses,
    own <- UNION {UsesIn(r, Len(content[r])) : r \in current},
    published <- IF report = Nothing THEN Nothing
                 ELSE [complete |-> report.status = "complete", uses |-> report.uses]
KeepsContract == Contract!Spec
=============================================================================
