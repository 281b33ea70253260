------------------------------ MODULE GrCommand ------------------------------
(***************************************************************************)
(* crates/gr-cli/src/main.rs: one `gr inspect` command.  The subcommand    *)
(* that was named runs its inspection, a component of its own, and then    *)
(* the outcome is rendered once and the process exits.                     *)
(*                                                                         *)
(* part is what runs: "skills", "plugins" and "updates" of `gr inspect     *)
(* codex`, "claude", and of the two summaries the files they read:         *)
(* "instructions" for codex and "local" for claude.  The rest of these     *)
(* summaries is CodexInspection and ClaudeInspection.                      *)
(***************************************************************************)
EXTENDS Integers, Sequences, InspectCore

CONSTANTS
  SecondsPerDay, RecentDays, UnobservedHistoryDays,             \* Assessment
  Skills, Manifest, Elsewhere, NoTurn, Stamps,                  \* SkillUse
  MaxTurns, MaxCalls, MaxOther,
  Installations,                                                \* PluginDrilldown
  MaxVersion,                                                   \* CodexUpdates
  ClaudePlugins,                                                \* ClaudeInspection
  Depth, DefaultMaxBytes, SeparatorBytes, Absent, Denied, Bad,  \* Instructions and
  FallbackNames, InstructionTrees, Edits,                       \* ClaudeLocal
  ClaudeTrees, ClaudeEdits

VARIABLES
  part,                     \* the inspection that runs
  pc, world, seen, outcome, \* its variables
  exit                      \* how the process exited

vars == <<part, pc, world, seen, outcome, exit>>

Use == INSTANCE SkillUse
Plugins == INSTANCE PluginDrilldown
Updates == INSTANCE CodexUpdates
Claude == INSTANCE ClaudeInspection
Local == INSTANCE ClaudeLocal
Agents == INSTANCE Instructions

\* Elsewhere differs from the manifest's path where that begins.  No file is both
\* an instruction file and a root marker or a configuration.
ASSUME CommandAssumption ==
  /\ SecondsPerDay \in Nat \ {0} /\ RecentDays \in Nat /\ UnobservedHistoryDays \in Nat
  /\ RecentDays <= UnobservedHistoryDays
  /\ MaxTurns \in Nat \ {0} /\ MaxCalls \in Nat /\ MaxOther \in Nat /\ "owned" \in Skills
  /\ NoTurn \notin Nat
  /\ Manifest \in [Skills -> Seq(STRING)] /\ Elsewhere \in Seq(STRING)
  /\ Manifest["owned"] # << >> /\ Head(Manifest["owned"]) # "cat"
  /\ \A i \in DOMAIN Elsewhere : Elsewhere[i] # Head(Manifest["owned"])
  /\ Stamps \subseteq Use!StampSet
  /\ \A i \in Installations : Plugins!IsInstallation(i)
  /\ MaxVersion \in Nat \ {0}
  /\ Depth \in Nat \ {0} /\ DefaultMaxBytes \in Nat /\ SeparatorBytes \in Nat
  /\ Absent # Denied /\ Denied # Bad /\ Bad # Absent
  /\ FallbackNames \cap {"config", "marker", "layer"} = {}
  /\ \A t \in InstructionTrees : Agents!IsTree(t)
  /\ \A e \in Edits : Agents!IsContent(e[1], e[2])
  /\ \A t \in ClaudeTrees : Local!IsTree(t)
  /\ \A e \in ClaudeEdits : Local!IsContent(e[1], e[2])

NotExited ==
  [code |-> -1, stdout |-> "nothing", stderr |-> "nothing", flags |-> {}, items |-> {}]

Init ==
  /\ exit = NotExited
  /\ \/ part = "skills" /\ Use!Init
     \/ part = "plugins" /\ Plugins!Init
     \/ part = "updates" /\ Updates!Init
     \/ part = "claude" /\ Claude!Init
     \/ part = "local" /\ Local!Init
     \/ part = "instructions" /\ Agents!Init

Inspect ==
  /\ UNCHANGED <<part, exit>>
  /\ \/ part = "skills" /\ Use!Next
     \/ part = "plugins" /\ Plugins!Next
     \/ part = "updates" /\ Updates!Next
     \/ part = "claude" /\ Claude!Next
     \/ part = "local" /\ Local!Next
     \/ part = "instructions" /\ Agents!Next

-----------------------------------------------------------------------------
(* Rendering.  --json may be given before and after a section's name; the  *)
(* summaries have no section.  No flag alters what is inspected, not even  *)
(* --actionable, which narrows the list of the skills.                     *)

Flags ==
  CASE part = "skills" -> {"outer", "inner", "actionable"}
    [] part \in {"plugins", "updates"} -> {"outer", "inner"}
    [] OTHER -> {"outer"}

AsksJson_Outer(flags) == "outer" \in flags   \* mutant: the section's flag is lost
AsksJson(flags) == flags \cap {"outer", "inner"} # {}

\* What the files of a summary let it conclude, everything else being read.
Conclusions ==
  IF outcome.verdict = "accepted"
  THEN {Concluded(v, "report") : v \in {"BASELINE_OK", "REVIEW"}}
  ELSE {outcome}

\* A path of a summary may not be UTF-8, which JSON cannot hold.  The other
\* reports have no path but those that Codex gave as JSON.
Serializable(conclusion) ==
  IF part \in {"claude", "local", "instructions"} /\ conclusion.where = "report"
  THEN BOOLEAN ELSE {TRUE}

\* is_failure: whatever `updates` concludes is a report.
IsFailure(conclusion) == part # "updates" /\ conclusion.where # "report"

\* The skills that are listed: apply_item_view.
Listed(flags) ==
  IF part = "skills" THEN Use!ItemView(Use!Assessed.items, "actionable" \in flags).returned
  ELSE {}

\* render_outcome and its two variants: JSON goes to stdout whatever it says, a
\* failure in words to stderr.  println! and eprintln! panic on a broken pipe.
Rendered(flags, conclusion, serializable, broken) ==
  LET json == AsksJson(flags)
      unserializable == json /\ ~serializable
      toStdout == ~unserializable /\ (json \/ ~IsFailure(conclusion))
      stream == IF toStdout THEN "stdout" ELSE "stderr"
      text == IF unserializable THEN "error" ELSE IF json THEN "json" ELSE "human"
      verdict == IF unserializable THEN "INCOMPLETE" ELSE conclusion.verdict
  IN  IF stream \in broken THEN [NotExited EXCEPT !.code = 101, !.flags = flags]
      ELSE [code |-> ExitCode(verdict), flags |-> flags, items |-> Listed(flags),
            stdout |-> IF toStdout THEN text ELSE "nothing",
            stderr |-> IF toStdout THEN "nothing" ELSE text]

Render ==
  /\ pc = "done" /\ exit = NotExited
  /\ \E flags \in SUBSET Flags, conclusion \in Conclusions,
        broken \in SUBSET {"stdout", "stderr"} :
       \E serializable \in Serializable(conclusion) :
         exit' = Rendered(flags, conclusion, serializable, broken)
  /\ UNCHANGED <<part, pc, world, seen, outcome>>

Next == Inspect \/ Render
Spec == Init /\ [][Next]_vars

-----------------------------------------------------------------------------
(* Properties: those of the components, and one of the whole.              *)

TypeOK ==
  /\ part \in {"skills", "plugins", "updates", "claude", "local", "instructions"}
  /\ exit \in [code : {-1, 0, 1, 3, 4, 101}, stdout : {"nothing", "json", "human"},
               stderr : {"nothing", "json", "human", "error"},
               flags : SUBSET {"outer", "inner", "actionable"}, items : SUBSET {"owned"}]
  /\ outcome.verdict \in Verdicts \cup {"none", "accepted"}
  /\ part = "skills" => Use!TypeOK
  /\ part = "plugins" => Plugins!TypeOK
  /\ part = "updates" => Updates!TypeOK
  /\ part = "claude" => Claude!TypeOK
  /\ part = "local" => Local!TypeOK
  /\ part = "instructions" => Agents!TypeOK

\* Neither BASELINE_OK nor how a version compares is said without the evidence
\* for it, although all of it is read piece by piece while skills, plugins and
\* versions come and go.
VerdictIsEvidence ==
  /\ part = "skills" => Use!BaselineIsEvidence
  /\ part = "plugins" => Plugins!BaselineIsEvidence
  /\ part = "updates" => Updates!BaselineIsEvidence /\ Updates!AvailabilityIsTrue
  /\ part = "claude" => Claude!BaselineIsEvidence

\* The files that a summary reads one after the other, while one of them
\* changes, give the report of a tree that there was.
LooksAtOnce ==
  /\ part = "local" => Local!LooksAtOnce
  /\ part = "instructions" => Agents!LooksAtOnce

\* A skill's count is the number of task turns that read its manifest.
CountsAreTurns == part = "skills" => Use!CountsAreTurns

\* Dates are counted by the calendar.
DatesAgree == part = "skills" => Use!DatesAgree

\* No skill is linked to a plugin that is listed as invalid.
InvalidIsNotLinked == part = "plugins" => Plugins!InvalidIsNotLinked

\* What a script sees: 0 and 1 come with a whole report on stdout and with
\* nothing else, 4 with BLOCKED; 0 means BASELINE_OK; whichever --json is given,
\* nothing but JSON is on stdout.  The skills that --actionable lists are none
\* at 0, and some at 1 unless the history is partial.  By then no thread runs.
ExitTellsVerdict ==
  exit # NotExited =>
    /\ exit.code \in {0, 1} => exit.stdout # "nothing" /\ exit.stderr = "nothing"
    /\ exit.code = 0 => outcome.verdict \in {"BASELINE_OK", "accepted"}
    /\ exit.code = 4 => outcome.verdict = "BLOCKED"
    /\ exit.flags \cap {"outer", "inner"} # {} => exit.stdout # "human" /\ exit.stderr # "human"
    /\ part = "skills" /\ "actionable" \in exit.flags =>
         /\ exit.code = 0 => exit.items = {}
         /\ exit.code = 1 => exit.items # {} \/ Use!Assessed.status # "complete"
    /\ part = "claude" => Claude!NothingLeftRunning
=============================================================================
