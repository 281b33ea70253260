----------------------------- MODULE InspectCore -----------------------------
(***************************************************************************)
(* What every `gr inspect` command shares (crates/gr-inspect-core/src/     *)
(* lib.rs and the first error arms of both use_case.rs): the verdicts and  *)
(* their exit codes, and how the end of a native command is judged.        *)
(***************************************************************************)
Verdicts == {"BASELINE_OK", "REVIEW", "INCOMPLETE", "BLOCKED"}

ExitCode(verdict) ==
  CASE verdict = "BASELINE_OK" -> 0
    [] verdict = "REVIEW" -> 1
    [] verdict = "INCOMPLETE" -> 3
    [] verdict = "BLOCKED" -> 4

\* How a native command ends: with output that can be used, with none, with
\* some that cannot be parsed, with another exit code, in its time out, or not
\* at all, NotFound and PermissionDenied being told from the other errors.
ProbeEnds == {"output", "empty", "invalid", "failed", "timedOut", "unavailable", "error"}

\* The verdict on an end that is not "output".
FailureVerdict(end) == IF end = "unavailable" THEN "BLOCKED" ELSE "INCOMPLETE"

\* What a command has concluded: its verdict, and the part that a failure is
\* about or "report".
Concluded(verdict, where) == [verdict |-> verdict, where |-> where]
NoOutcome == Concluded("none", "none")
=============================================================================
