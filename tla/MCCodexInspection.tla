-------------------------- MODULE MCCodexInspection --------------------------
(***************************************************************************)
(* The handlers of features, plugins, marketplaces and mcp differ in their *)
(* codes only, so one of them stands for the four; doctor, agents and      *)
(* skills have each their own.                                             *)
(***************************************************************************)
EXTENDS CodexInspection

MCProbes == <<"doctor", "plugins", "agents", "skills">>
MCProbeTime == 1

\* Every report with a known schema, and some with another one.
MCReports ==
  {r \in DoctorReport : r.schema \/ r.checks \in {{"ok"}, {}}}
=============================================================================
