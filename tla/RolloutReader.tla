---------------------------- MODULE RolloutReader ----------------------------
(***************************************************************************)
(* scan_rollout (crates/gr-inspect-codex/src/skills.rs): how the records   *)
(* of one rollout become observed uses, one record after the other, and    *)
(* how the uses of one task turn are recognised as one.                    *)
(*                                                                         *)
(* A record is [kind, at, id, words]: at is the set of its timestamp, or   *)
(* {} if it has none that can be parsed; id the turn id it carries, or     *)
(* NoTurn; words what a tool call's input is made of, split at the         *)
(* characters that cannot belong to a path.  "other" is an envelope that   *)
(* only its timestamp is read of, "plain" a line that none of the finders  *)
(* matches, "bad" a line that does not parse, "bad payload" and "bad       *)
(* context" an envelope that does with a payload that does not.            *)
(***************************************************************************)
EXTENDS Integers, Sequences

CONSTANTS
  Skills,      \* the active skills
  Manifest,    \* skill -> its manifest path, as a sequence of words
  NoTurn       \* no turn id

ASSUME ManifestAssumption == Manifest \in [Skills -> Seq(STRING)]

RecordKinds ==
  {"meta", "context", "started", "call", "other", "plain", "bad", "bad payload", "bad context"}
Records == [kind : RecordKinds, at : SUBSET Int, id : Int \cup {NoTurn}, words : Seq(STRING)]

\* contains_exact_manifest_path: the path, and no longer one it is a part of.
Mentions_AnyPart(words, s) ==   \* mutant: a longer path counts as well
  \E i \in DOMAIN words, j \in DOMAIN Manifest[s] : words[i] = Manifest[s][j]

Mentions(words, s) ==
  LET n == Len(Manifest[s])
  IN  n > 0 /\ \E i \in 1..(Len(words) - n + 1) : SubSeq(words, i, i + n - 1) = Manifest[s]

-----------------------------------------------------------------------------
(* What is known after some records: the turn id, the turn's ordinal, that *)
(* a task_started waits for its context, and the evidence so far.  pos is  *)
(* the number of records read.                                             *)

BeforeRecords ==
  [pos |-> 0, turnId |-> NoTurn, ordinal |-> 0, pending |-> FALSE,
   uses |-> {}, firsts |-> {}, times |-> {}, bad |-> {}]

\* Every record that is parsed counts in history_through, the first of the file
\* in history_from.
Timed(st, rec) ==
  IF rec.kind = "bad" \/ (rec.kind = "plain" /\ st.pos > 1) THEN st
  ELSE [st EXCEPT !.times = @ \cup rec.at,
                  !.firsts = IF st.pos = 1 THEN @ \cup rec.at ELSE @]

TurnContext_AlwaysNew(st, rec) ==   \* mutant: a context always begins a turn
  [st EXCEPT !.pending = FALSE, !.ordinal = @ + 1, !.turnId = rec.id]

\* A context that follows a task_started belongs to the turn it began.
TurnContext(st, rec) ==
  IF st.pending
  THEN [st EXCEPT !.pending = FALSE, !.turnId = IF rec.id = NoTurn THEN @ ELSE rec.id]
  ELSE [st EXCEPT !.ordinal = @ + 1, !.turnId = rec.id]

TaskStarted(st, rec) ==
  [st EXCEPT !.ordinal = @ + 1, !.pending = TRUE, !.turnId = rec.id]

TurnKey_IdOnly(st, t) == <<"id", st.turnId>>   \* mutant: every use is taken to have an id

\* turn_or_event of a use at time t.
TurnKey(st, t) ==
  CASE st.turnId # NoTurn -> <<"id", st.turnId>>
    [] st.turnId = NoTurn /\ st.ordinal > 0 -> <<"turn-ordinal", st.ordinal>>
    [] OTHER -> <<"timestamp", t>>

\* records_unreadable.
Unreadable(st) == [st EXCEPT !.bad = @ \cup {st.pos}]

\* A tool call that reads a manifest, if it can be dated.
ToolCall(st, rec) ==
  IF rec.at = {} THEN Unreadable(st)
  ELSE [st EXCEPT !.uses = @ \cup
          {[pos |-> st.pos, skill |-> s, turn |-> TurnKey(st, t), epoch |-> t] :
             s \in {x \in Skills : Mentions(rec.words, x)}, t \in rec.at}]

ReadNext(before, rec) ==
  LET st == Timed([before EXCEPT !.pos = @ + 1], rec)
  IN  CASE rec.kind = "context" -> TurnContext(st, rec)
        [] rec.kind = "bad context" -> Unreadable(TurnContext(st, [rec EXCEPT !.id = NoTurn]))
        [] rec.kind = "started" -> TaskStarted(st, rec)
        [] rec.kind = "call" -> ToolCall(st, rec)
        [] rec.kind \in {"bad", "bad payload"} -> Unreadable(st)
        [] OTHER -> st

\* What each prefix of a rollout is evidence of.
ReadPrefixes(records) ==
  LET after[n \in 0..Len(records)] ==
        IF n = 0 THEN BeforeRecords ELSE ReadNext(after[n - 1], records[n])
  IN  after
=============================================================================
