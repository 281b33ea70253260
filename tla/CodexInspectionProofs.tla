------------------------ MODULE CodexInspectionProofs ------------------------
(***************************************************************************)
(* The safety of `gr inspect codex` for every order of the probes, every   *)
(* time they take and every set of doctor reports.                         *)
(***************************************************************************)
EXTENDS CodexInspection, SequenceTheorems, TLAPS

\* Threads run from the spawn of all of them; what is joined is the prefix of
\* the probes before `at`, and a joined thread has ended for good.
JoinInv ==
  /\ pc \in {"version", "spawn"} =>
       /\ \A p \in Names : worker[p].kind = "none"
       /\ at = 1 /\ started = 0 /\ DOMAIN probes = {}
  /\ pc \in {"join", "fold"} => \A p \in Names : worker[p].kind # "none"
  /\ pc = "join" => DOMAIN probes = {Probes[i] : i \in 1..(at - 1)}
  /\ pc = "fold" => DOMAIN probes = Names
  /\ \A p \in DOMAIN probes :
       worker[p].kind \notin {"none", "running"} /\ probes[p] = Joined(worker[p])

\* What has been judged before `at` was accepted.
FoldInv ==
  pc = "fold" => \A j \in 1..(at - 1) : Accepted(Probes[j])

\* A report stands at the end only: it is about the version, about the first
\* result that is refused, or about all of them, every one accepted.
ReportInv ==
  /\ Reported <=> pc = "done"
  /\ Reported => \A p \in Names : worker[p].kind # "running"
  /\ Reported /\ outcome.where = "version" => outcome.verdict \in {"BLOCKED", "INCOMPLETE"}
  /\ Reported /\ outcome.where \in Names => outcome.verdict = "INCOMPLETE" /\ FailureIsFirst
  /\ Reported /\ outcome.where = "report" =>
       /\ DOMAIN probes = Names
       /\ \A j \in DOMAIN Probes : Accepted(Probes[j])
       /\ LET d == probes["doctor"].doctor
          IN /\ outcome.findings = Findings(d, probes["skills"].errors)
             /\ outcome.verdict = Verdict(d, outcome.findings)

\* The version and the probes have each their time.
TimeInv ==
  /\ pc \in {"version", "spawn"} => now <= ProbeTime
  /\ started <= ProbeTime
  /\ pc \in {"join", "fold"} => now <= started + ProbeTime
  /\ now <= 2 * ProbeTime

IInv == TypeOK /\ JoinInv /\ FoldInv /\ ReportInv /\ TimeInv

\* The probes' names, each at one place of the order.
LEMMA NamesOfProbes ==
  /\ Len(Probes) \in Nat \ {0}
  /\ DOMAIN Probes = 1..Len(Probes)
  /\ Names = {Probes[i] : i \in DOMAIN Probes}
  /\ \A i \in DOMAIN Probes : Probes[i] \in Names
  /\ \A i, j \in DOMAIN Probes : Probes[i] = Probes[j] => i = j
  /\ {"doctor", "skills"} \subseteq Names
  /\ "report" \notin Names /\ "version" \notin Names
  <1>1. Names = {Probes[i] : i \in DOMAIN Probes} /\ {"doctor", "skills"} \subseteq Names
    BY InspectionAssumption DEF Names, ToSet
  <1>2. Len(Probes) \in Nat /\ DOMAIN Probes = 1..Len(Probes)
    BY InspectionAssumption, LenProperties
  <1>3. Len(Probes) # 0
    BY <1>1, <1>2
  <1>4. \A i, j \in DOMAIN Probes : Probes[i] = Probes[j] => i = j
    BY InspectionAssumption DEF IsInjective
  <1>5. \A i \in DOMAIN Probes :
          Probes[i] \in {"doctor", "features", "plugins", "marketplaces", "mcp", "agents", "skills"}
    BY InspectionAssumption, ElementOfSeq, <1>2
  <1>6. "report" \notin Names /\ "version" \notin Names
    BY <1>1, <1>5
  <1> QED
    BY <1>1, <1>2, <1>3, <1>4, <1>6

\* A result is a record of its four fields.
LEMMA PlainType ==
  ASSUME NEW kind \in Kinds, NEW code \in {-1, 0, 1, 2}
  PROVE  /\ Plain(kind, code) \in Result
         /\ Plain(kind, code).kind = kind
  BY DEF Plain, Result

\* A probe ends with a result, and not with one of the kinds of a thread that
\* has not ended.
LEMMA ResultsOfType ==
  ASSUME NEW p, NEW r \in ResultsOf(p)
  PROVE  r \in Result /\ r.kind \notin {"none", "running"}
  <1>1. CASE p = "agents"
    BY <1>1, PlainType DEF ResultsOf, Kinds
  <1>2. CASE p = "skills"
    BY <1>2 DEF ResultsOf, Kinds, Result, Plain
  <1>3. CASE p \notin {"agents", "skills"}
    BY <1>3 DEF ResultsOf, Kinds, Result, Plain
  <1> QED
    BY <1>1, <1>2, <1>3

LEMMA JoinedType ==
  ASSUME NEW r \in Result
  PROVE  Joined(r) \in Result
  BY DEF Joined, Result, Kinds

LEMMA InitIInv == Init => IInv
  <1> SUFFICES ASSUME Init PROVE IInv
    OBVIOUS
  <1>1. Plain("none", 0) \in Result /\ Plain("none", 0).kind = "none"
    BY PlainType DEF Kinds
  <1>2. worker \in [Names -> Result] /\ \A p \in Names : worker[p].kind = "none"
    BY <1>1 DEF Init
  <1>3. DOMAIN probes = {}
    BY DEF Init
  <1>4. TypeOK
    <2>1. at \in DOMAIN Probes
      BY NamesOfProbes DEF Init
    <2>2. outcome \in Outcome
      BY DEF Init, Outcome
    <2> QED
      BY <1>2, <1>3, <2>1, <2>2 DEF Init, TypeOK
  <1>5. JoinInv
    BY <1>2, <1>3 DEF Init, JoinInv
  <1>6. FoldInv /\ ReportInv
    BY DEF Init, FoldInv, ReportInv, Reported
  <1>7. TimeInv
    BY InspectionAssumption DEF Init, TimeInv
  <1> QED
    BY <1>4, <1>5, <1>6, <1>7 DEF IInv

\* A failed inspection keeps the invariant if the report names the version, or
\* the first of the results that cannot be used.
LEMMA FailureStep ==
  ASSUME IInv, NEW verdict \in {"BLOCKED", "INCOMPLETE"}, NEW where \in Names \cup {"version"},
         Conclude(verdict, where, {}),
         \/ pc = "version" /\ where = "version"
         \/ pc = "fold" /\ verdict = "INCOMPLETE" /\ where = Probes[at] /\ ~Accepted(Probes[at])
  PROVE  IInv'
  <1>1. /\ outcome' = [verdict |-> verdict, where |-> where, findings |-> {}]
        /\ pc' = "done"
        /\ UNCHANGED <<now, at, worker, started, probes>>
    BY DEF Conclude
  <1>2. TypeOK'
    BY <1>1 DEF IInv, TypeOK, Outcome, Verdicts
  <1>3. JoinInv' /\ FoldInv'
    BY <1>1 DEF IInv, JoinInv, FoldInv
  <1>4. TimeInv'
    BY <1>1 DEF IInv, TimeInv
  <1>5. Reported' /\ outcome'.where = where /\ outcome'.verdict = verdict
    BY <1>1 DEF Reported
  <1>6. \A p \in Names : worker'[p].kind # "running"
    BY <1>1 DEF IInv, JoinInv
  <1>8. CASE pc = "version" /\ where = "version"
    <2>1. where \notin Names /\ where # "report"
      BY <1>8, NamesOfProbes
    <2>2. ReportInv'
      BY <1>1, <1>5, <1>6, <2>1 DEF ReportInv
    <2> QED
      BY <1>2, <1>3, <1>4, <2>2 DEF IInv
  <1>9. CASE pc = "fold" /\ verdict = "INCOMPLETE" /\ where = Probes[at] /\ ~Accepted(Probes[at])
    <2>1. at \in DOMAIN Probes /\ Probes[at] \in Names
      BY NamesOfProbes DEF IInv, TypeOK
    <2>2. ~Accepted(Probes[at])' /\ \A j \in 1..(at - 1) : Accepted(Probes[j])'
      BY <1>1, <1>9 DEF IInv, FoldInv, Accepted, DoctorAccepted, Succeeded
    <2>3. FailureIsFirst'
      BY <1>1, <1>5, <1>9, <2>1, <2>2 DEF FailureIsFirst, Accepted, DoctorAccepted, Succeeded
    <2>4. where # "report" /\ where # "version"
      BY <1>9, <2>1, NamesOfProbes
    <2>5. ReportInv'
      BY <1>1, <1>5, <1>6, <1>9, <2>3, <2>4 DEF ReportInv
    <2> QED
      BY <1>2, <1>3, <1>4, <2>5 DEF IInv
  <1> QED
    BY <1>2, <1>3, <1>4, <1>8, <1>9 DEF IInv

\* Joining the next thread keeps the invariant.
LEMMA JoinStep ==
  ASSUME IInv, JoinNext
  PROVE  IInv'
  <1> DEFINE p == Probes[at]
  <1>1. /\ pc = "join"
        /\ worker[p].kind # "running"
        /\ probes' = [q \in DOMAIN probes \cup {p} |-> IF q = p THEN Joined(worker[p]) ELSE probes[q]]
        /\ Advance("fold")
        /\ UNCHANGED <<now, worker, started, outcome>>
    BY DEF JoinNext
  <1>2. at \in DOMAIN Probes /\ p \in Names /\ worker[p] \in Result
    BY NamesOfProbes DEF IInv, TypeOK
  <1>3. DOMAIN probes' = DOMAIN probes \cup {p}
    BY <1>1
  <1>4. \/ at = Len(Probes) /\ at' = 1 /\ pc' = "fold"
        \/ at < Len(Probes) /\ at' = at + 1 /\ pc' = "join"
    BY <1>1, <1>2, NamesOfProbes DEF Advance
  <1>5. TypeOK'
    <2>1. at' \in DOMAIN Probes
      BY <1>2, <1>4, NamesOfProbes
    <2>2. DOMAIN probes' \subseteq Names /\ \A q \in DOMAIN probes' : probes'[q] \in Result
      BY <1>1, <1>2, <1>3, JoinedType DEF IInv, TypeOK
    <2> QED
      BY <1>1, <1>4, <2>1, <2>2 DEF IInv, TypeOK
  <1>6. DOMAIN probes = {Probes[i] : i \in 1..(at - 1)}
    BY <1>1 DEF IInv, JoinInv
  <1>7. DOMAIN probes' = {Probes[i] : i \in 1..at}
    <2>1. at \in Nat /\ 1..at = (1..(at - 1)) \cup {at}
      BY <1>2, NamesOfProbes
    <2> QED
      BY <1>3, <1>6, <2>1
  <1>8. pc' = "join" => DOMAIN probes' = {Probes[i] : i \in 1..(at' - 1)}
    <2>1. at \in Nat
      BY <1>2, NamesOfProbes
    <2> QED
      BY <1>4, <1>7, <2>1
  <1>9. pc' = "fold" => DOMAIN probes' = Names
    BY <1>2, <1>4, <1>7, NamesOfProbes
  <1>10. \A q \in DOMAIN probes' :
           worker'[q].kind \notin {"none", "running"} /\ probes'[q] = Joined(worker'[q])
    BY <1>1, <1>2, <1>3 DEF IInv, JoinInv
  <1>11. JoinInv'
    BY <1>1, <1>4, <1>8, <1>9, <1>10 DEF IInv, JoinInv
  <1>12. FoldInv'
    BY <1>4 DEF FoldInv
  <1>13. ReportInv'
    BY <1>1, <1>4 DEF IInv, ReportInv, Reported
  <1>14. TimeInv'
    BY <1>1, <1>4 DEF IInv, TimeInv
  <1> QED
    BY <1>5, <1>11, <1>12, <1>13, <1>14 DEF IInv

\* The report of a whole inspection keeps the invariant.
LEMMA SynthesizeStep ==
  ASSUME IInv, Synthesize
  PROVE  IInv'
  <1> DEFINE d == probes["doctor"].doctor
             findings == Findings(d, probes["skills"].errors)
  <1>1. /\ pc = "fold" /\ at = Len(Probes) /\ Accepted(Probes[at])
        /\ outcome' = [verdict |-> Verdict(d, findings), where |-> "report", findings |-> findings]
        /\ pc' = "done"
        /\ UNCHANGED <<now, at, worker, started, probes>>
    BY DEF Synthesize, Conclude
  <1>2. TypeOK'
    <2>1. findings \in SUBSET {"schema", "checks", "terminal", "warning", "fail", "overall", "catalog"}
      BY DEF Findings, DoctorFindings
    <2>2. Verdict(d, findings) \in Verdicts
      BY DEF Verdict, Verdicts
    <2> QED
      BY <1>1, <2>1, <2>2 DEF IInv, TypeOK, Outcome
  <1>3. JoinInv' /\ FoldInv' /\ TimeInv'
    BY <1>1 DEF IInv, JoinInv, FoldInv, TimeInv
  <1>4. Reported'
    BY <1>1 DEF Reported, Verdict
  <1>5. \A p \in Names : worker'[p].kind # "running"
    BY <1>1 DEF IInv, JoinInv
  <1>6. \A j \in DOMAIN Probes : Accepted(Probes[j])
    <2>1. \A j \in DOMAIN Probes : j \in 1..(at - 1) \/ j = at
      BY <1>1, NamesOfProbes
    <2> QED
      BY <1>1, <2>1 DEF IInv, FoldInv
  <1>7. \A j \in DOMAIN Probes : Accepted(Probes[j])'
    BY <1>1, <1>6 DEF Accepted, DoctorAccepted, Succeeded
  <1>8. DOMAIN probes' = Names
    BY <1>1 DEF IInv, JoinInv
  <1>9. ReportInv'
    BY <1>1, <1>4, <1>5, <1>7, <1>8, NamesOfProbes
    DEF ReportInv, Accepted, DoctorAccepted, Succeeded
  <1> QED
    BY <1>2, <1>3, <1>9 DEF IInv

\* A thread that ends was not joined before, and no report was made.
LEMMA WorkerStep ==
  ASSUME IInv, NEW p \in Names, WorkerEnds(p)
  PROVE  IInv'
  <1>1. PICK r \in ResultsOf(p) : worker' = [worker EXCEPT ![p] = r]
    BY DEF WorkerEnds
  <1>2. /\ worker[p].kind = "running"
        /\ UNCHANGED <<now, pc, at, started, probes, outcome>>
    BY DEF WorkerEnds
  <1>3. r \in Result /\ r.kind \notin {"none", "running"}
    BY ResultsOfType
  <1>4. /\ worker' \in [Names -> Result] /\ worker'[p] = r
        /\ \A q \in Names \ {p} : worker'[q] = worker[q]
    BY <1>1, <1>3 DEF IInv, TypeOK
  <1>5. pc \notin {"version", "spawn", "fold", "done"} /\ p \notin DOMAIN probes
    BY <1>2 DEF IInv, JoinInv, ReportInv
  <1>6. TypeOK'
    BY <1>2, <1>4 DEF IInv, TypeOK
  <1>7. JoinInv'
    BY <1>2, <1>3, <1>4, <1>5 DEF IInv, TypeOK, JoinInv
  <1>8. FoldInv' /\ ReportInv' /\ TimeInv'
    BY <1>2, <1>5 DEF IInv, FoldInv, ReportInv, Reported, TimeInv
  <1> QED
    BY <1>6, <1>7, <1>8 DEF IInv

\* The invariant is inductive.
LEMMA StepIInv == IInv /\ [Next]_vars => IInv'
  <1> SUFFICES ASSUME IInv, [Next]_vars PROVE IInv'
    OBVIOUS
  <1>1. CASE Tick
    <2>1. now' = now + 1 /\ UNCHANGED <<pc, at, worker, started, probes, outcome>>
      BY <1>1 DEF Tick
    <2>2. \/ pc = "version" /\ now < ProbeTime
          \/ pc = "join" /\ now < started + ProbeTime
      BY <1>1, NamesOfProbes DEF Tick, Waiting, IInv, TypeOK
    <2>3. TimeInv'
      BY <2>1, <2>2, InspectionAssumption DEF IInv, TypeOK, TimeInv
    <2>4. TypeOK' /\ JoinInv'
      BY <2>1 DEF IInv, TypeOK, JoinInv
    <2>5. FoldInv' /\ ReportInv'
      BY <2>1, <2>2 DEF IInv, FoldInv, ReportInv, Reported
    <2> QED
      BY <2>3, <2>4, <2>5 DEF IInv
  <1>2. CASE VersionOk
    <2>1. pc = "version" /\ pc' = "spawn" /\ UNCHANGED <<now, at, worker, started, probes, outcome>>
      BY <1>2 DEF VersionOk
    <2>2. TypeOK' /\ JoinInv' /\ TimeInv'
      BY <2>1 DEF IInv, TypeOK, JoinInv, TimeInv
    <2>3. FoldInv' /\ ReportInv'
      BY <2>1 DEF IInv, FoldInv, ReportInv, Reported
    <2> QED
      BY <2>2, <2>3 DEF IInv
  <1>3. CASE VersionFails
    BY <1>3, FailureStep DEF VersionFails
  <1>4. CASE SpawnWorkers
    <2>1. /\ pc = "spawn" /\ pc' = "join" /\ started' = now
          /\ worker' = [p \in Names |-> Plain("running", 0)]
          /\ UNCHANGED <<now, at, probes, outcome>>
      BY <1>4 DEF SpawnWorkers
    <2>2. Plain("running", 0) \in Result /\ Plain("running", 0).kind = "running"
      BY PlainType DEF Kinds
    <2>3. TypeOK'
      BY <2>1, <2>2 DEF IInv, TypeOK
    <2>4. JoinInv'
      BY <2>1, <2>2 DEF IInv, JoinInv
    <2>5. TimeInv'
      BY <2>1, InspectionAssumption DEF IInv, TypeOK, TimeInv
    <2>6. FoldInv' /\ ReportInv'
      BY <2>1 DEF IInv, FoldInv, ReportInv, Reported
    <2> QED
      BY <2>3, <2>4, <2>5, <2>6 DEF IInv
  <1>5. CASE JoinNext
    BY <1>5, JoinStep
  <1>6. CASE JudgeAccepts
    <2>1. /\ pc = "fold" /\ Accepted(Probes[at]) /\ at < Len(Probes) /\ at' = at + 1
          /\ UNCHANGED <<now, pc, worker, started, probes, outcome>>
      BY <1>6 DEF JudgeAccepts
    <2>2. at \in Nat \ {0} /\ at' \in DOMAIN Probes
      BY <2>1, NamesOfProbes DEF IInv, TypeOK
    <2>3. TypeOK' /\ JoinInv' /\ TimeInv'
      BY <2>1, <2>2 DEF IInv, TypeOK, JoinInv, TimeInv
    <2>4. \A j \in 1..(at' - 1) : Accepted(Probes[j])
      <3>1. \A j \in 1..(at' - 1) : j \in 1..(at - 1) \/ j = at
        BY <2>1, <2>2
      <3> QED
        BY <2>1, <3>1 DEF IInv, FoldInv
    <2>5. FoldInv'
      BY <2>1, <2>4 DEF FoldInv, Accepted, DoctorAccepted, Succeeded
    <2>6. ReportInv'
      BY <2>1 DEF IInv, ReportInv, Reported
    <2> QED
      BY <2>3, <2>5, <2>6 DEF IInv
  <1>7. CASE JudgeFails
    <2>1. Probes[at] \in Names
      BY NamesOfProbes DEF IInv, TypeOK
    <2> QED
      BY <1>7, <2>1, FailureStep DEF JudgeFails
  <1>8. CASE Synthesize
    BY <1>8, SynthesizeStep
  <1>9. CASE \E p \in Names : WorkerEnds(p)
    BY <1>9, WorkerStep
  <1>10. CASE UNCHANGED vars
    <2>1. UNCHANGED <<now, pc, at, worker, started, probes, outcome>>
      BY <1>10 DEF vars
    <2> QED
      BY <2>1
      DEF IInv, TypeOK, JoinInv, FoldInv, ReportInv, Reported, FailureIsFirst, TimeInv,
          Accepted, DoctorAccepted, Succeeded
  <1> QED
    BY <1>1, <1>2, <1>3, <1>4, <1>5, <1>6, <1>7, <1>8, <1>9, <1>10 DEF Next, Main

LEMMA SpecIInv == Spec => []IInv
  BY InitIInv, StepIInv, PTL DEF Spec

\* The variables of the inspection keep their types.
THEOREM TypeCorrect == Spec => []TypeOK
  BY SpecIInv, PTL DEF IInv

\* The probes of a report about all of them ended by themselves, with results
\* that the handlers accepted.
LEMMA ReportedResults ==
  ASSUME IInv, Reported, outcome.where = "report"
  PROVE  \A p \in Names :
           /\ worker[p] \in Result
           /\ probes[p] = worker[p]
           /\ worker[p].kind = "output"
           /\ IF p = "doctor" THEN DoctorAccepted(worker[p]) ELSE worker[p].code = 0
  <1> SUFFICES ASSUME NEW p \in Names
               PROVE  /\ worker[p] \in Result
                      /\ probes[p] = worker[p]
                      /\ worker[p].kind = "output"
                      /\ IF p = "doctor" THEN DoctorAccepted(worker[p]) ELSE worker[p].code = 0
    OBVIOUS
  <1>1. PICK i \in DOMAIN Probes : p = Probes[i]
    BY NamesOfProbes
  <1>2. Accepted(p)
    BY <1>1 DEF IInv, ReportInv
  <1>3. worker[p] \in Result /\ probes[p] = Joined(worker[p])
    BY DEF IInv, TypeOK, JoinInv, ReportInv
  <1>4. probes[p].kind = "output"
    BY <1>2 DEF Accepted, DoctorAccepted, Succeeded
  <1>5. probes[p] = worker[p]
    BY <1>3, <1>4 DEF Joined, Result
  <1> QED
    BY <1>2, <1>3, <1>4, <1>5 DEF Accepted, Succeeded

\* Exit code 0 rests on every probe: all of them ended by themselves and were
\* usable, and the doctor's report has nothing but the missing terminal.
THEOREM BaselineIsEvidence == Spec => []BaselineIsClean
  <1>1. IInv => BaselineIsClean
    <2> SUFFICES ASSUME IInv, Reported, ExitCode(outcome.verdict) = 0
                 PROVE  /\ \A p \in Names : worker[p].kind = "output"
                        /\ \A p \in Commands \ {"doctor"} : worker[p].code = 0
                        /\ worker["skills"].errors = 0
                        /\ LET d == worker["doctor"].doctor
                           IN /\ d.schema /\ d.checks # {} /\ d.checks \subseteq {"ok", "terminal"}
                              /\ d.overall # "warning"
                              /\ d.overall = "fail" => "terminal" \in d.checks
                        /\ worker["doctor"].code \in {0, 1}
      BY DEF BaselineIsClean
    <2> DEFINE d == worker["doctor"].doctor
    <2>1. outcome.verdict = "BASELINE_OK"
      BY DEF IInv, TypeOK, Outcome, Verdicts, Reported, ExitCode
    <2>2. outcome.where = "report"
      BY <2>1 DEF IInv, TypeOK, Outcome, ReportInv
    <2>3. /\ \A p \in Names : worker[p].kind = "output"
          /\ \A p \in Names \ {"doctor"} : worker[p].code = 0
          /\ DoctorAccepted(worker["doctor"])
          /\ worker["doctor"] \in Result /\ worker["skills"] \in Result
          /\ probes["doctor"] = worker["doctor"] /\ probes["skills"] = worker["skills"]
      BY <2>2, ReportedResults, NamesOfProbes
    <2>4. /\ d.schema /\ d.checks # {}
          /\ Findings(d, worker["skills"].errors) = {}
      BY <2>1, <2>2, <2>3 DEF IInv, ReportInv, Verdict
    <2>5. d \in DoctorReport
      <3>1. NoReport \in DoctorReport
        BY DEF NoReport, DoctorReport
      <3>2. d \in Reports \cup {NoReport}
        BY <2>3 DEF Result
      <3> QED
        BY <3>1, <3>2, ReportsAssumption
    <2>6. worker["skills"].errors = 0
      <3>1. worker["skills"].errors \in 0..1 /\ ~(worker["skills"].errors > 0)
        BY <2>3, <2>4 DEF Result, Findings
      <3> QED
        BY <3>1
    <2>7. /\ d.checks \cap {"warning", "fail"} = {}
          /\ d.overall = "ok" \/ (d.overall = "fail" /\ "terminal" \in d.checks)
      <3>1. DoctorFindings(d) = {}
        BY <2>4 DEF Findings
      <3>2. CASE d.overall = "ok" \/ (d.overall = "fail" /\ "terminal" \in d.checks)
        BY <3>1, <3>2 DEF DoctorFindings
      <3>3. CASE ~(d.overall = "ok" \/ (d.overall = "fail" /\ "terminal" \in d.checks))
        <4> DEFINE basic == {f \in {"schema"} : ~d.schema} \cup {f \in {"checks"} : d.checks = {}}
                              \cup (d.checks \cap {"warning", "fail"})
        <4>1. CASE basic = {}
          BY <3>1, <3>3, <4>1 DEF DoctorFindings
        <4>2. CASE basic # {}
          BY <3>1, <4>2 DEF DoctorFindings
        <4> QED
          BY <4>1, <4>2
      <3> QED
        BY <3>2, <3>3
    <2>8. d.checks \subseteq {"ok", "terminal"}
      BY <2>5, <2>7 DEF DoctorReport
    <2> QED
      BY <2>3, <2>4, <2>6, <2>7, <2>8 DEF Commands, DoctorAccepted
  <1> QED
    BY <1>1, SpecIInv, PTL

\* REVIEW is said only of a completed inspection with something in it.
THEOREM ReviewMeansComplete == Spec => []ReviewIsComplete
  <1>1. IInv => ReviewIsComplete
    <2> SUFFICES ASSUME IInv, Reported, outcome.verdict = "REVIEW"
                 PROVE  /\ outcome.findings # {}
                        /\ \A p \in Names : worker[p].kind = "output"
                        /\ worker["doctor"].doctor.schema
      BY DEF ReviewIsComplete
    <2>1. outcome.where = "report"
      BY DEF IInv, TypeOK, Outcome, ReportInv
    <2>2. /\ \A p \in Names : worker[p].kind = "output"
          /\ probes["doctor"] = worker["doctor"]
      BY <2>1, ReportedResults, NamesOfProbes
    <2>3. outcome.findings # {} /\ probes["doctor"].doctor.schema
      BY <2>1 DEF IInv, ReportInv, Verdict
    <2> QED
      BY <2>2, <2>3
  <1> QED
    BY <1>1, SpecIInv, PTL

\* A failure is the first one in the fixed order, whichever thread ended first.
THEOREM FirstFailureIsNamed == Spec => []FailureIsFirst
  <1>1. IInv => FailureIsFirst
    BY DEF IInv, ReportInv, FailureIsFirst
  <1> QED
    BY <1>1, SpecIInv, PTL

\* The inspection takes the time of two probes, and reports with none running.
THEOREM JoinsAreInTime == Spec => []JoinsInTime
  <1>1. IInv => JoinsInTime
    BY DEF IInv, ReportInv, TimeInv, JoinsInTime
  <1> QED
    BY <1>1, SpecIInv, PTL
=============================================================================
