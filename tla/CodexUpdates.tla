---------------------------- MODULE CodexUpdates ----------------------------
(***************************************************************************)
(* `gr inspect codex updates`: crates/gr-inspect-codex/src/updates.rs and  *)
(* app.rs.  The installed version is read, then the app's, and only if the *)
(* former can be used the registry is asked for the latest one, while      *)
(* releases are published and the CLI is upgraded.                         *)
(*                                                                         *)
(* Versions are numbers in their semantic order: the even ones are         *)
(* released, an odd one is a pre-release of the next.  0 is no version.    *)
(***************************************************************************)
EXTENDS Integers, InspectCore

CONSTANT MaxVersion   \* bound: the last version

VARIABLES
  pc,       \* "installed", "app", "latest", "done"
  world,    \* [installed, latest, app]: what is installed and released now
  seen,     \* [installed, app, latest, availability, fresh]: what was read of it
  outcome

Availabilities ==
  {"NO_CHANGE", "UPDATE_AVAILABLE", "INSTALLED_NEWER", "NOT_INSTALLED", "UNKNOWN"}

Init ==
  /\ pc = "installed"
  /\ world \in [installed : 2..MaxVersion, latest : {2}, app : BOOLEAN]
  /\ world.installed <= world.latest + 1
  /\ seen = [installed |-> 0, app |-> "NOT_INSTALLED", latest |-> 0,
             availability |-> "UNKNOWN", fresh |-> FALSE]
  /\ outcome = NoOutcome

TypeOK ==
  /\ pc \in {"installed", "app", "latest", "done"}
  /\ world \in [installed : 2..MaxVersion, latest : 2..MaxVersion, app : BOOLEAN]
  /\ seen \in [installed : 0..MaxVersion, app : {"NOT_INSTALLED", "UNKNOWN"},
               latest : 0..MaxVersion, availability : Availabilities, fresh : BOOLEAN]

\* codex --version, of which nothing can be used if it fails: installed_cli_version.
ReadInstalled ==
  /\ pc = "installed"
  /\ seen' = [seen EXCEPT !.installed = world.installed]
  /\ pc' = "app"
  /\ UNCHANGED <<world, outcome>>

ReadInstalledFails ==
  /\ pc = "installed"
  /\ \E end \in ProbeEnds \ {"output"} : outcome' = Concluded(FailureVerdict(end), "version")
  /\ pc' = "app"
  /\ UNCHANGED <<world, seen>>

\* probe_app_version: whatever goes wrong, the app counts as not installed; the
\* registry is not asked after a failure.
ReadApp ==
  /\ pc = "app"
  /\ \E answers \in BOOLEAN :
       seen' = [seen EXCEPT !.app = IF world.app /\ answers THEN "UNKNOWN" ELSE "NOT_INSTALLED"]
  /\ pc' = IF outcome = NoOutcome THEN "latest" ELSE "done"
  /\ UNCHANGED <<world, outcome>>

Compare(installed, available) ==
  CASE installed < available -> "UPDATE_AVAILABLE"
    [] installed = available -> "NO_CHANGE"
    [] installed > available -> "INSTALLED_NEWER"

ReadLatest ==
  /\ pc = "latest"
  /\ seen' = [seen EXCEPT !.latest = world.latest, !.fresh = TRUE,
                          !.availability = Compare(seen.installed, world.latest)]
  /\ outcome' = Concluded(IF seen.installed > world.latest THEN "REVIEW" ELSE "BASELINE_OK",
                          "report")
  /\ pc' = "done"
  /\ UNCHANGED world

\* available_cli_version, and a curl that cannot be run.
ReadLatestFails ==
  /\ pc = "latest"
  /\ outcome' = Concluded("INCOMPLETE", "source")
  /\ pc' = "done"
  /\ UNCHANGED <<world, seen>>

\* A version is published, which supersedes every earlier one.
Publish ==
  /\ pc # "done"
  /\ world.latest + 2 <= MaxVersion
  /\ world' = [world EXCEPT !.latest = @ + 2]
  /\ UNCHANGED <<pc, seen, outcome>>

\* The CLI is upgraded to the latest version, or to a pre-release of the next.
Upgrade ==
  /\ pc # "done"
  /\ \E v \in {world.latest, world.latest + 1} :
       /\ world.installed < v /\ v <= MaxVersion
       /\ world' = [world EXCEPT !.installed = v]
  /\ UNCHANGED <<pc, seen, outcome>>

Next ==
  \/ ReadInstalled \/ ReadInstalledFails \/ ReadApp \/ ReadLatest \/ ReadLatestFails
  \/ Publish \/ Upgrade

-----------------------------------------------------------------------------
(* Properties.                                                             *)

\* No false alarm: since the latest version is read after the installed one,
\* INSTALLED_NEWER means a version that was not published, and what is called
\* up to date or outdated was so when the registry answered.
AvailabilityIsTrue ==
  /\ seen.availability = "INSTALLED_NEWER" => seen.installed % 2 = 1 /\ outcome.verdict = "REVIEW"
  /\ seen.availability = "UPDATE_AVAILABLE" => seen.installed < world.latest
  /\ seen.availability = "NO_CHANGE" => seen.installed = world.latest

\* BASELINE_OK rests on both versions.
BaselineIsEvidence ==
  outcome.verdict = "BASELINE_OK" =>
    /\ seen.fresh /\ seen.installed # 0
    /\ seen.installed <= seen.latest
=============================================================================
