----------------------------- MODULE Assessment -----------------------------
(***************************************************************************)
(* crates/gr-skill-assessment/src/assessment.rs: the pure policy that      *)
(* turns usage evidence into a coverage status, one signal and one cleanup *)
(* disposition per skill, and a verdict.                                   *)
(*                                                                         *)
(* A use is a record with at least the fields skill, rollout, turn, pos    *)
(* and epoch.  <<rollout, turn>> is its ObservedUseKey (thread and turn),  *)
(* pos its place in the rollout: the uses of one key come from one file,   *)
(* so pos is their order in the observed vector.                           *)
(***************************************************************************)
EXTENDS Integers, FiniteSets

CONSTANTS SecondsPerDay, RecentDays, UnobservedHistoryDays

ASSUME PolicyAssumption ==
  /\ SecondsPerDay \in Nat \ {0}
  /\ RecentDays \in Nat
  /\ UnobservedHistoryDays \in Nat
  /\ RecentDays <= UnobservedHistoryDays

Origins == {"system", "plugin", "personal", "project", "admin", "unknown"}
Signals == {"recent", "aging", "unobserved", "insufficient_history"}
Dispositions ==
  {"keep", "manual_review", "managed_no_manual_cleanup", "defer", "investigate_origin"}
Statuses == {"complete", "partial", "none"}

\* c holds the counters of one scan.
CoverageStatus(c) ==
  LET candidates == IF c.discovered >= c.excluded THEN c.discovered - c.excluded ELSE 0
      partial == \/ c.unreadable > 0 \/ c.discoveryErrors > 0 \/ c.badRecords > 0
                 \/ c.truncated \/ c.catalogErrors > 0
                 \/ c.scanned # candidates
  IN  CASE partial -> "partial"
        [] ~partial /\ candidates = 0 -> "none"
        [] OTHER -> "complete"

\* firsts holds the epochs that history_from is the least of, times those that
\* history_through is the greatest of.
HistoryIsSufficient(observedEpoch, firsts, times) ==
  /\ \E t \in firsts : t <= observedEpoch - UnobservedHistoryDays * SecondsPerDay
  /\ \E t \in times : t >= observedEpoch - RecentDays * SecondsPerDay

AgeDays_Exclusive(observedEpoch, epoch) ==   \* mutant: a day is full a second late
  (IF observedEpoch > epoch THEN observedEpoch - epoch - 1 ELSE 0) \div SecondsPerDay

\* Whole days, cut off; an epoch to come has the age 0.
AgeDays(observedEpoch, epoch) ==
  (IF observedEpoch > epoch THEN observedEpoch - epoch ELSE 0) \div SecondsPerDay

\* observed.retain keeps the first use of every key.
Retained(uses) ==
  {u \in uses : \A v \in uses :
     v.rollout = u.rollout /\ v.turn = u.turn => u.pos <= v.pos}

LastEpoch(kept) ==
  CHOOSE e \in {u.epoch : u \in kept} : \A u \in kept : u.epoch <= e

Signal(observedEpoch, kept, sufficient) ==
  CASE kept = {} /\ sufficient -> "unobserved"
    [] kept = {} /\ ~sufficient -> "insufficient_history"
    [] kept # {} /\ AgeDays(observedEpoch, LastEpoch(kept)) <= RecentDays -> "recent"
    [] OTHER -> "aging"

CleanupDisposition(origin, signal) ==
  CASE origin \in {"plugin", "system", "admin"} -> "managed_no_manual_cleanup"
    [] origin = "unknown" -> "investigate_origin"
    [] origin \in {"personal", "project"} ->
         CASE signal = "recent" -> "keep"
           [] signal \in {"aging", "unobserved"} -> "manual_review"
           [] signal = "insufficient_history" -> "defer"

IsActionable(disposition) ==
  disposition \in {"manual_review", "defer", "investigate_origin"}

Item(observedEpoch, origin, uses, sufficient) ==
  LET kept == Retained(uses)
      signal == Signal(observedEpoch, kept, sufficient)
  IN  [signal |-> signal,
       disposition |-> CleanupDisposition(origin, signal),
       count |-> Cardinality(kept),
       lastEpoch |-> IF kept = {} THEN 0 ELSE LastEpoch(kept)]

\* BASELINE_OK needs complete coverage and no item that asks for an action.
AssessmentVerdict(status, items) ==
  IF status = "complete" /\ \A s \in DOMAIN items : ~IsActionable(items[s].disposition)
  THEN "baseline_ok" ELSE "review"

\* origin maps every skill to its origin, uses is the merged evidence.
Assess(observedEpoch, c, firsts, times, origin, uses) ==
  LET status == CoverageStatus(c)
      sufficient == status = "complete" /\ HistoryIsSufficient(observedEpoch, firsts, times)
      items == [s \in DOMAIN origin |->
                  Item(observedEpoch, origin[s], {u \in uses : u.skill = s}, sufficient)]
  IN  [status |-> status, items |-> items, verdict |-> AssessmentVerdict(status, items)]
=============================================================================
