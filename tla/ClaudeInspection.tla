-------------------------- MODULE ClaudeInspection --------------------------
(***************************************************************************)
(* `gr inspect claude`: crates/gr-inspect-claude/src/use_case.rs and       *)
(* report.rs.  After `claude --version` two threads list the plugins and   *)
(* the marketplaces; both are joined, then judged in that order, and only  *)
(* then the local configuration is read (ClaudeLocal) and the install path *)
(* of every plugin examined, while plugins come and go.                    *)
(***************************************************************************)
EXTENDS Integers, FiniteSets, InspectCore

CONSTANTS
  ClaudePlugins  \* the plugins there may be, [id, scope, path]: path is empty or holds
                 \* the install path

VARIABLES
  pc,       \* "version", "spawn", "join", "judge", "local", "examine", "done"
  world,    \* [installed, denied]: the plugins whose install path exists and cannot be
            \* examined
  seen,     \* [listing, marketplaces, listed, examined, findings], and the ghost since:
            \* the plugins whose path existed at the listing or at some time after it
  outcome

Init ==
  /\ pc = "version"
  /\ world \in [installed : SUBSET ClaudePlugins, denied : SUBSET ClaudePlugins]
  /\ seen = [listing |-> "none", marketplaces |-> "none", listed |-> {}, examined |-> {},
             findings |-> {}, since |-> {}]
  /\ outcome = NoOutcome

WorkerStates == {"none", "running", "panic"} \cup ProbeEnds

TypeOK ==
  /\ pc \in {"version", "spawn", "join", "judge", "local", "examine", "done"}
  /\ world \in [installed : SUBSET ClaudePlugins, denied : SUBSET ClaudePlugins]
  /\ seen.listing \in WorkerStates /\ seen.marketplaces \in WorkerStates
  /\ seen.examined \subseteq seen.listed /\ seen.since \subseteq ClaudePlugins

Conclude(verdict, where) ==
  /\ outcome' = Concluded(verdict, where)
  /\ pc' = "done"
  /\ UNCHANGED <<world, seen>>

VersionOk == pc = "version" /\ pc' = "spawn" /\ UNCHANGED <<world, seen, outcome>>
VersionFails ==
  /\ pc = "version"
  /\ \E end \in ProbeEnds \ {"output"} : Conclude(FailureVerdict(end), "version")

\* probe_inspection.
Spawn ==
  /\ pc = "spawn"
  /\ seen' = [seen EXCEPT !.listing = "running", !.marketplaces = "running"]
  /\ pc' = "join"
  /\ UNCHANGED <<world, outcome>>

Ends == (ProbeEnds \ {"empty"}) \cup {"panic"}

\* `claude plugin list --json`: the plugins recorded, whose paths may be gone.
ListingEnds ==
  /\ seen.listing = "running"
  /\ \E end \in Ends, recorded \in SUBSET ClaudePlugins :
       /\ end = "output" => world.installed \subseteq recorded
       /\ end # "output" => recorded = {}
       /\ seen' = [seen EXCEPT !.listing = end, !.listed = recorded,
                               !.since = world.installed]
  /\ UNCHANGED <<pc, world, outcome>>

MarketplacesEnds ==
  /\ seen.marketplaces = "running"
  /\ \E end \in Ends : seen' = [seen EXCEPT !.marketplaces = end]
  /\ UNCHANGED <<pc, world, outcome>>

\* Both threads are joined whatever the first has ended with.
Join ==
  /\ pc = "join"
  /\ seen.listing # "running" /\ seen.marketplaces # "running"
  /\ pc' = "judge"
  /\ UNCHANGED <<world, seen, outcome>>

\* inspect_plugins and inspect_marketplaces: neither blocks, since claude has
\* answered before.
Judge ==
  /\ pc = "judge"
  /\ CASE seen.listing # "output" -> Conclude("INCOMPLETE", "plugins")
       [] seen.listing = "output" /\ seen.marketplaces # "output" ->
            Conclude("INCOMPLETE", "marketplaces")
       [] OTHER -> pc' = "local" /\ UNCHANGED <<world, seen, outcome>>

\* inspect_local_configuration.
ReadLocal == pc = "local" /\ pc' = "examine" /\ UNCHANGED <<world, seen, outcome>>
LocalFails == pc = "local" /\ Conclude("INCOMPLETE", "local")

\* synthesize_report: try_exists of one install path.
Examine(p) ==
  /\ pc = "examine"
  /\ p \in seen.listed \ seen.examined
  /\ seen' = [seen EXCEPT
       !.examined = @ \cup {p},
       !.findings = @ \cup
         (IF p.path = {} THEN {}
          ELSE IF p \in world.denied THEN {<<"unreadable", p.id>>}
          ELSE IF p \notin world.installed THEN {<<"missing", p.id>>} ELSE {})]
  /\ UNCHANGED <<pc, world, outcome>>

Duplicates == {p.id : p \in {x \in seen.listed : \E y \in seen.listed : y # x /\ y.id = x.id}}

Synthesize ==
  LET findings == seen.findings \cup ({"duplicate"} \X Duplicates)
  IN  /\ pc = "examine"
      /\ seen.examined = seen.listed
      /\ outcome' = Concluded(IF findings = {} THEN "BASELINE_OK" ELSE "REVIEW", "report")
      /\ pc' = "done"
      /\ seen' = [seen EXCEPT !.findings = findings]
      /\ UNCHANGED world

\* A plugin's directory is removed.
Uninstall(p) ==
  /\ pc # "done"
  /\ p \in world.installed
  /\ world' = [world EXCEPT !.installed = @ \ {p}]
  /\ UNCHANGED <<pc, seen, outcome>>

\* A plugin's directory is created, for the first time or again.
Install(p) ==
  /\ pc # "done"
  /\ p \notin world.installed
  /\ world' = [world EXCEPT !.installed = @ \cup {p}]
  /\ seen' = [seen EXCEPT !.since = @ \cup {p}]
  /\ UNCHANGED <<pc, outcome>>

Next ==
  \/ VersionOk \/ VersionFails \/ Spawn \/ ListingEnds \/ MarketplacesEnds \/ Join \/ Judge
  \/ ReadLocal \/ LocalFails \/ Synthesize
  \/ \E p \in ClaudePlugins : Examine(p) \/ Uninstall(p) \/ Install(p)

-----------------------------------------------------------------------------
(* Properties.                                                             *)

\* BASELINE_OK is evidence that every plugin recorded has one record and had its
\* directory, at the listing or since: one that was missing all that time is not
\* overlooked, whatever came and went around it.
BaselineIsEvidence ==
  outcome.verdict = "BASELINE_OK" =>
    /\ seen.listing = "output" /\ seen.marketplaces = "output"
    /\ \A p \in seen.listed : p.path # {} => p \in seen.since /\ p \notin world.denied
    /\ \A p, q \in seen.listed : p.id = q.id => p = q

\* No thread, and no claude process that it supervises, is left running.
NothingLeftRunning ==
  outcome # NoOutcome => seen.listing # "running" /\ seen.marketplaces # "running"
=============================================================================
