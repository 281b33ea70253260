------------------------------ MODULE SkillUse ------------------------------
(***************************************************************************)
(* `gr inspect codex skills` on one rollout, against what Codex did:       *)
(* task turns are recorded in whichever way Codex records them, and are    *)
(* recognised again from the records alone (RolloutReader, SkillsReport).  *)
(* The threads, deadlines and failures of the scan are RolloutScan.        *)
(***************************************************************************)
EXTENDS SkillsReport, RolloutReader, CivilTime, InspectCore

CONSTANTS
  Elsewhere,  \* the words of a longer path that the owned skill's is a part of
  Stamps,     \* the timestamps that are parsed and formatted
  MaxTurns,   \* bound: turns of the rollout
  MaxCalls,   \* bound: tool calls of a turn
  MaxOther    \* bound: the records up to which others than a turn's occur

VARIABLES
  pc,       \* "clock", "log", "done"
  world,    \* [stamp, turns, calls, bare, readIn]: turns begun, calls of the last
            \* one, whether it has a task_started alone, the turns that read a skill
  seen,     \* what is known of the records so far
  outcome

NoStamp == [year |-> 1970, month |-> 1, day |-> 1, hour |-> 0, minute |-> 0, second |-> 0,
            sign |-> 0, oh |-> 0, om |-> 0]

Init ==
  /\ pc = "clock"
  /\ world \in [stamp : Stamps, turns : {0}, calls : {0}, bare : {FALSE}, readIn : {{}}]
  /\ seen = BeforeRecords
  /\ outcome = NoOutcome

TypeOK ==
  /\ pc \in {"clock", "log", "done"}
  /\ world.turns \in 0..MaxTurns /\ world.calls \in 0..MaxCalls
  /\ world.readIn \subseteq 0..world.turns
  /\ seen.ordinal <= world.turns
  /\ seen.bad \subseteq 1..seen.pos

\* current_epoch_seconds and format_rfc3339: the time of the report, which is not
\* looked at again (ages are counted in records here) and so is forgotten.
ReadClock ==
  /\ pc = "clock"
  /\ pc' = "log"
  /\ world' = [world EXCEPT !.stamp = NoStamp]
  /\ UNCHANGED <<seen, outcome>>

Record(type, id, words) ==
  [kind |-> type, at |-> {seen.pos + 1}, id |-> id, words |-> words]

\* How Codex may mark a turn's beginning: with an event, a context, or both,
\* each with the turn's id or without it.  A context may be torn.
LoneMarks == {"started", "context", "bad context"}
Marks(turn) ==
  LET ids == {turn, NoTurn}
  IN  {<<Record("started", i, << >>), Record("context", j, << >>)>> : i, j \in ids}
      \cup {<<Record(kind, i, << >>)>> : kind \in LoneMarks, i \in ids}

\* A context without an id is taken for the context of the event before it.
Mistaken(mark) ==
  /\ world.bare
  /\ mark[1].kind = "bad context" \/ (mark[1].kind = "context" /\ mark[1].id = NoTurn)

BeginTurn ==
  /\ pc = "log"
  /\ world.turns < MaxTurns
  /\ \E mark \in Marks(world.turns + 1) :
       /\ ~Mistaken(mark)
       /\ seen' = IF Len(mark) = 1 THEN ReadNext(seen, mark[1])
                  ELSE ReadNext(ReadNext(seen, mark[1]), mark[2])
       /\ world' = [world EXCEPT !.turns = @ + 1, !.calls = 0,
                                 !.bare = Len(mark) = 1 /\ mark[1].kind = "started"]
  /\ UNCHANGED <<pc, outcome>>

\* A tool call of the turn: it reads the skill's manifest, or only one that the
\* manifest's path is a part of.
CallTool ==
  /\ pc = "log"
  /\ world.turns > 0 /\ world.calls < MaxCalls
  /\ \E reads \in BOOLEAN :
       LET path == IF reads THEN Manifest["owned"] ELSE Elsewhere
       IN  /\ seen' = ReadNext(seen, Record("call", NoTurn, <<"cat">> \o path))
           /\ world' = [world EXCEPT !.calls = @ + 1,
                                     !.readIn = IF reads THEN @ \cup {world.turns} ELSE @]
  /\ UNCHANGED <<pc, outcome>>

\* What else a rollout holds: lines nothing is read of but perhaps a date, a
\* call that is not dated, and a line or payload that is torn.
OtherRecord ==
  /\ pc = "log"
  /\ seen.pos < MaxOther
  /\ \E rec \in {Record("meta", NoTurn, << >>), Record("plain", NoTurn, << >>),
                 Record("other", NoTurn, << >>), Record("bad", NoTurn, << >>),
                 Record("bad payload", NoTurn, << >>),
                 [Record("call", NoTurn, Manifest["owned"]) EXCEPT !.at = {}]} :
       seen' = ReadNext(seen, rec)
  /\ UNCHANGED <<pc, world, outcome>>

Counters ==
  [discovered |-> 1, excluded |-> 0, unreadable |-> 0, discoveryErrors |-> 0,
   badRecords |-> Cardinality(seen.bad), scanned |-> 1, catalogErrors |-> 0, truncated |-> FALSE]

Assessed ==
  Assess(seen.pos + 1, Counters, seen.firsts, seen.times, [s \in {"owned"} |-> "personal"],
         {[rollout |-> 1, pos |-> u.pos, skill |-> u.skill, turn |-> u.turn, epoch |-> u.epoch] :
            u \in seen.uses})

Report ==
  /\ pc = "log"
  /\ outcome' = Concluded(IF Assessed.verdict = "baseline_ok" THEN "BASELINE_OK" ELSE "REVIEW",
                          "report")
  /\ pc' = "done"
  /\ UNCHANGED <<world, seen>>

Next == ReadClock \/ BeginTurn \/ CallTool \/ OtherRecord \/ Report

-----------------------------------------------------------------------------
(* Properties.                                                             *)

\* "Counts at most one observation per task turn", and one for every turn: the
\* count is the number of turns of the task in which the skill's manifest was
\* read, however the turns are marked, unless a record was torn.  Two things
\* are known to differ: a turn that has no mark at all, and a context without
\* an id right after a turn of an event alone.
CountsAreTurns ==
  seen.bad = {} => Assessed.items["owned"].count = Cardinality(world.readIn)

\* The dates that reports carry and that ages are counted from.
DatesAgree == pc = "clock" => DateAgrees(world.stamp)

\* The exit code says that the skill was used, if that is all there is to say.
BaselineIsEvidence ==
  outcome.verdict = "BASELINE_OK" => world.readIn # {} /\ seen.bad = {}
=============================================================================
