--------------------------- MODULE CodexInspection ---------------------------
(***************************************************************************)
(* `gr inspect codex`: crates/gr-inspect-codex/src/{use_case, inspection,  *)
(* report}.rs.  After `codex --version` one worker thread per probe is     *)
(* started; all are joined in a fixed order, a panic becoming an error,    *)
(* and the results are judged in the same order by handlers that return at *)
(* the first one they cannot use.  What they accept becomes the report.    *)
(*                                                                         *)
(* What a probe returns is abstracted to what the handlers tell apart; how *)
(* a command is run within its time is BoundedProcess and SkillCatalogRpc. *)
(***************************************************************************)
EXTENDS Integers, FiniteSets, SequencesExt, InspectCore

CONSTANTS
  Probes,     \* the probes, in the order of probe_inspection
  ProbeTime,  \* the time within which a probe returns
  Reports     \* doctor reports

ASSUME InspectionAssumption ==
  /\ Probes \in Seq({"doctor", "features", "plugins", "marketplaces", "mcp", "agents", "skills"})
  /\ IsInjective(Probes)
  /\ {"doctor", "skills"} \subseteq ToSet(Probes)
  /\ ProbeTime \in Nat

Names == ToSet(Probes)
Commands == Names \ {"agents", "skills"}

\* A doctor report: whether its schema is version 1, its overall status, and the
\* statuses of its checks; "terminal" is the failure that comes from not having
\* a terminal.
DoctorReport == [schema : BOOLEAN, overall : {"ok", "warning", "fail"},
                 checks : SUBSET {"ok", "terminal", "warning", "fail"}]

ASSUME ReportsAssumption == Reports \subseteq DoctorReport

NoReport == [schema |-> FALSE, overall |-> "ok", checks |-> {}]

\* What is known of a probe: it has not begun, it is running, or how it ended.
\* "error" is that it could not run, "invalid" that its output cannot be parsed.
\* code is the exit code, -1 for a signal.
Kinds == {"none", "running", "output", "invalid", "timedOut", "error", "panic"}
Result == [kind : Kinds, code : {-1, 0, 1, 2}, doctor : Reports \cup {NoReport}, errors : 0..1]
Plain(kind, code) == [kind |-> kind, code |-> code, doctor |-> NoReport, errors |-> 0]

\* The results that a probe can have.
ResultsOf(p) ==
  {Plain(kind, 0) : kind \in {"error", "panic"}} \cup
  CASE p = "agents" -> {Plain("output", 0)}
    [] p = "skills" -> {[Plain("output", 0) EXCEPT !.errors = n] : n \in 0..1}
    [] OTHER ->
         {Plain("timedOut", code) : code \in {-1, 0}}
         \cup {Plain("invalid", code) : code \in {-1, 0, 1}}
         \cup IF p = "doctor"
              THEN {[Plain("output", code) EXCEPT !.doctor = r] : code \in {-1, 0, 1, 2}, r \in Reports}
              ELSE {Plain("output", code) : code \in {-1, 0, 1}}

\* where: the probe that a failure names, "version" or "report".
Outcome == [verdict : Verdicts \cup {"none"}, where : Names \cup {"version", "report"},
            findings : SUBSET {"schema", "checks", "terminal", "warning", "fail", "overall", "catalog"}]

VARIABLES
  now,      \* time since the command began
  pc,       \* the main thread: "version", "spawn", "join", "fold", "done"
  at,       \* the probe it joins or judges next
  worker,   \* what each thread has ended with
  started,  \* when the threads were started
  probes,   \* InspectionProbes, as far as they are joined
  outcome   \* the report

vars == <<now, pc, at, worker, started, probes, outcome>>

TypeOK ==
  /\ now \in Nat
  /\ pc \in {"version", "spawn", "join", "fold", "done"}
  /\ at \in DOMAIN Probes
  /\ worker \in [Names -> Result]
  /\ started \in Nat
  /\ DOMAIN probes \subseteq Names
  /\ \A p \in DOMAIN probes : probes[p] \in Result
  /\ outcome \in Outcome

Init ==
  /\ now = 0
  /\ pc = "version"
  /\ at = 1
  /\ worker = [p \in Names |-> Plain("none", 0)]
  /\ started = 0
  /\ probes = << >>
  /\ outcome = [verdict |-> "none", where |-> "version", findings |-> {}]

-----------------------------------------------------------------------------
Conclude(verdict, where, findings) ==
  /\ outcome' = [verdict |-> verdict, where |-> where, findings |-> findings]
  /\ pc' = "done"
  /\ UNCHANGED <<now, at, worker, started, probes>>

\* `codex --version` gives a version text.
VersionOk ==
  /\ pc = "version"
  /\ pc' = "spawn"
  /\ UNCHANGED <<now, at, worker, started, probes, outcome>>

\* NotFound and PermissionDenied block; a time out, an exit code, an empty or
\* an unreadable version and any other error do not.
VersionFails ==
  /\ pc = "version"
  /\ \E verdict \in {"BLOCKED", "INCOMPLETE"} : Conclude(verdict, "version", {})

SpawnWorkers ==
  /\ pc = "spawn"
  /\ worker' = [p \in Names |-> Plain("running", 0)]
  /\ started' = now
  /\ pc' = "join"
  /\ UNCHANGED <<now, at, probes, outcome>>

WorkerEnds(p) ==
  /\ worker[p].kind = "running"
  /\ \E r \in ResultsOf(p) : worker' = [worker EXCEPT ![p] = r]
  /\ UNCHANGED <<now, pc, at, started, probes, outcome>>

\* join_worker: a panic is an error like another one.
Joined(r) == IF r.kind = "panic" THEN [r EXCEPT !.kind = "error"] ELSE r

Advance_NoReset(next) ==   \* mutant: one index for both passes
  at' = at + 1 /\ IF at = Len(Probes) THEN pc' = next ELSE UNCHANGED pc

Advance(next) ==
  IF at = Len(Probes) THEN at' = 1 /\ pc' = next ELSE at' = at + 1 /\ UNCHANGED pc

\* Mutant: ? on the joined results.
JoinNext_EarlyReturn ==
  LET p == Probes[at]
  IN /\ pc = "join"
     /\ worker[p].kind # "running"
     /\ IF worker[p].kind \in {"panic", "error"}
        THEN Conclude("INCOMPLETE", p, {})
        ELSE /\ probes' = [q \in DOMAIN probes \cup {p} |-> IF q = p THEN worker[p] ELSE probes[q]]
             /\ Advance("fold")
             /\ UNCHANGED <<now, worker, started, outcome>>

JoinNext_NoPanic ==   \* mutant: the end of a panicked thread is not noticed
  LET p == Probes[at]
  IN /\ pc = "join"
     /\ worker[p].kind \notin {"running", "panic"}
     /\ probes' = [q \in DOMAIN probes \cup {p} |-> IF q = p THEN Joined(worker[p]) ELSE probes[q]]
     /\ Advance("fold")
     /\ UNCHANGED <<now, worker, started, outcome>>

JoinNext ==
  LET p == Probes[at]
  IN /\ pc = "join"
     /\ worker[p].kind # "running"
     /\ probes' = [q \in DOMAIN probes \cup {p} |-> IF q = p THEN Joined(worker[p]) ELSE probes[q]]
     /\ Advance("fold")
     /\ UNCHANGED <<now, worker, started, outcome>>

-----------------------------------------------------------------------------
(* The handlers.                                                           *)

Succeeded(r) == r.kind = "output" /\ r.code = 0

\* doctor_exit_matches_report: exit code 1 goes with a status that is not ok.
DoctorAccepted(r) ==
  r.kind = "output" /\ (r.code = 0 \/ (r.code = 1 /\ r.doctor.overall # "ok"))

Accepted(p) == IF p = "doctor" THEN DoctorAccepted(probes[p]) ELSE Succeeded(probes[p])

JudgeAccepts_Unseen ==   \* mutant: only the last result is judged
  /\ pc = "fold"
  /\ at < Len(Probes)
  /\ at' = at + 1
  /\ UNCHANGED <<now, pc, worker, started, probes, outcome>>

JudgeAccepts ==
  /\ pc = "fold"
  /\ Accepted(Probes[at])
  /\ at < Len(Probes)
  /\ at' = at + 1
  /\ UNCHANGED <<now, pc, worker, started, probes, outcome>>

JudgeFails ==
  /\ pc = "fold"
  /\ ~Accepted(Probes[at])
  /\ Conclude("INCOMPLETE", Probes[at], {})

\* synthesize_report: the findings about the doctor's report d.
DoctorFindings_AnyTerminal(d) ==   \* mutant: every terminal finding is ignored, alone or not
  {f \in {"warning", "fail"} : f \in d.checks /\ "terminal" \notin d.checks}
  \cup {f \in {"schema"} : ~d.schema} \cup {f \in {"checks"} : d.checks = {}}

DoctorFindings(d) ==
  LET basic == {f \in {"schema"} : ~d.schema} \cup {f \in {"checks"} : d.checks = {}}
               \cup (d.checks \cap {"warning", "fail"})
      ignored == d.overall = "fail" /\ "terminal" \in d.checks
  IN IF d.overall # "ok" /\ basic = {} /\ ~ignored THEN {"overall"} ELSE basic

Findings(d, errors) == DoctorFindings(d) \cup {f \in {"catalog"} : errors > 0}

Verdict_SchemaIsReview(d, findings) ==   \* mutant: an unknown schema is only a finding
  IF d.checks = {} THEN "INCOMPLETE" ELSE IF findings = {} THEN "BASELINE_OK" ELSE "REVIEW"

Verdict(d, findings) ==
  IF ~d.schema \/ d.checks = {} THEN "INCOMPLETE"
  ELSE IF findings = {} THEN "BASELINE_OK" ELSE "REVIEW"

Synthesize ==
  /\ pc = "fold"
  /\ at = Len(Probes)
  /\ Accepted(Probes[at])
  /\ LET d == probes["doctor"].doctor
         findings == Findings(d, probes["skills"].errors)
     IN Conclude(Verdict(d, findings), "report", findings)

-----------------------------------------------------------------------------
\* What the main thread waits for has not come yet, and may still come later.
Waiting ==
  \/ pc = "version" /\ now < ProbeTime
  \/ pc = "join" /\ worker[Probes[at]].kind = "running"

Tick ==
  /\ Waiting
  /\ \A p \in Names : worker[p].kind = "running" => now < started + ProbeTime
  /\ now' = now + 1
  /\ UNCHANGED <<pc, at, worker, started, probes, outcome>>

Main ==
  \/ VersionOk \/ VersionFails \/ SpawnWorkers \/ JoinNext
  \/ JudgeAccepts \/ JudgeFails \/ Synthesize

Next == Tick \/ Main \/ \E p \in Names : WorkerEnds(p)

\* Every probe returns: its process runner does (BoundedProcess).
Fairness == WF_vars(Main) /\ \A p \in Names : WF_vars(WorkerEnds(p))

Spec == Init /\ [][Next]_vars /\ Fairness

-----------------------------------------------------------------------------
(* Properties.                                                             *)

Reported == outcome.verdict # "none"

\* Exit code 0 is evidence of the whole: every probe ended by itself with
\* usable output, the doctor's report is of a known schema and not empty, and
\* each of its checks is ok or the one limitation of having no terminal.
BaselineIsClean ==
  Reported /\ ExitCode(outcome.verdict) = 0 =>
    /\ \A p \in Names : worker[p].kind = "output"
    /\ \A p \in Commands \ {"doctor"} : worker[p].code = 0
    /\ worker["skills"].errors = 0
    /\ LET d == worker["doctor"].doctor
       IN /\ d.schema /\ d.checks # {} /\ d.checks \subseteq {"ok", "terminal"}
          /\ d.overall # "warning"
          /\ d.overall = "fail" => "terminal" \in d.checks
    /\ worker["doctor"].code \in {0, 1}

\* REVIEW says that the inspection was completed: no probe failed, and there
\* is something to look at.
ReviewIsComplete ==
  Reported /\ outcome.verdict = "REVIEW" =>
    /\ outcome.findings # {}
    /\ \A p \in Names : worker[p].kind = "output"
    /\ worker["doctor"].doctor.schema

\* A failure names the first probe, in the fixed order, that could not be used,
\* whichever thread ended first: the same results give the same report.
FailureIsFirst ==
  Reported /\ outcome.where \in Names =>
    \E i \in DOMAIN Probes :
      /\ Probes[i] = outcome.where
      /\ ~Accepted(Probes[i])
      /\ \A j \in 1..(i - 1) : Accepted(Probes[j])

\* The probes run at the same time, so the command takes the time of two, but
\* there is no report while one of them runs: its process would be left behind.
JoinsInTime ==
  /\ now <= 2 * ProbeTime
  /\ Reported => \A p \in Names : worker[p].kind # "running"

\* Whatever hangs, fails or panics, there is a report.
AlwaysReports == <>Reported
=============================================================================
