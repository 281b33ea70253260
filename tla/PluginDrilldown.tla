--------------------------- MODULE PluginDrilldown ---------------------------
(***************************************************************************)
(* `gr inspect codex plugins`: crates/gr-inspect-codex/src/plugins.rs and  *)
(* inspect_plugin_inventory_probe_with of use_case.rs.  The inventory is   *)
(* read first, then the skill catalog, then the rollouts for up to 15 s;   *)
(* only then are the skills classified by their paths and linked to the    *)
(* plugins.  Codex may upgrade or remove a plugin at any point of this but *)
(* between that classification and that linking, which resolve the paths   *)
(* one right after the other and are one step here, Build.                 *)
(***************************************************************************)
EXTENDS SkillsReport, InspectCore

CONSTANT Installations  \* what may be installed: [home, plugins], see below

VARIABLES
  pc,       \* "list", "catalog", "scan", "build", "done"
  world,    \* [home, plugins, removed]: what is installed now
  seen,     \* [plugins, catalog, status, report]: what the command knows
  outcome

\* A plugin is [id, market, name, version, enabled, source, at]: source is empty
\* or holds [type, absolute, path], and at is where its files are, below
\* <codex home>/plugins.  The home is [absolute, path, resolved]: resolved says
\* whether the catalog gives paths with symbolic links resolved.
ManifestOf(home, plugin) ==
  (IF home.resolved THEN Real(home.path) ELSE home.path)
    \o <<"plugins">> \o plugin.at \o <<"SKILL.md">>
OwnSkill == [name |-> "mine", path |-> <<"home", "skills", "mine", "SKILL.md">>,
             scope |-> "user", enabled |-> TRUE]

\* The catalog that codex app-server would answer with, and what is on disk.
CatalogOf(w) ==
  {OwnSkill} \cup {[name |-> p.name, path |-> ManifestOf(w.home, p), scope |-> "user",
                    enabled |-> p.enabled] : p \in w.plugins}
OnDisk(w) == {OwnSkill.path} \cup {Real(ManifestOf(w.home, p)) : p \in w.plugins}

-----------------------------------------------------------------------------
(* The report, of an inventory and of assessed skills.                     *)

\* comparable_path.
Comparable(path, existing) == IF Exists(path, existing) THEN Real(path) ELSE path

ValidAbsoluteRoot(p) == p.absolute /\ p.path # << >> /\ ".." \notin ToSet(p.path)
ValidRelativePath(p) == ~p.absolute /\ p.path # << >> /\ ".." \notin ToSet(p.path)
ValidComponent(name) == name \notin {"", ".", "..", "nested/value", "/absolute"}

IdentityValid(plugin, home) ==
  /\ ValidAbsoluteRoot([home EXCEPT !.path = @ \o <<"plugins", "cache">>])
  /\ \A name \in {plugin.market, plugin.name, plugin.version} : ValidComponent(name)

IsInvalid(plugin, home) ==
  \/ ~IdentityValid(plugin, home)
  \/ \E s \in plugin.source :
       ~ValidAbsoluteRoot(s) /\ ~(s.type = "git-subdir" /\ ValidRelativePath(s))

LinkRoots(plugin, home, existing) ==
  LET cacheRoot == Comparable(home.path \o <<"plugins", "cache">>, existing)
      identity == cacheRoot \o <<plugin.market, plugin.name, plugin.version>>
  IN  (IF IdentityValid(plugin, home) THEN {Comparable(identity, existing)} ELSE {})
      \cup {Comparable(s.path, existing) : s \in {x \in plugin.source : ValidAbsoluteRoot(x)}}

DuplicateIds(plugins) ==
  {p.id : p \in {x \in plugins : \E y \in plugins : y # x /\ y.id = x.id}}

\* link_plugin_skills: the plugins that a skill lies under the root of.
Matches(skill, plugins, home, existing) ==
  {p \in plugins : \E root \in LinkRoots(p, home, existing) :
     IsPrefix(root, Comparable(skill.path, existing))}

\* plugin_skill_findings.
PluginFindings(status, r) ==
  {f \in {"invalid", "duplicate", "unlinked", "ambiguous"} : r[f] # {}}
  \cup ({status} \ {"complete"})

\* The plugin that a skill is linked to, if it is.
LinkOf(matches, duplicates) ==
  {p \in matches : Cardinality(matches) = 1 /\ p.id \notin duplicates}

\* build_plugin_inspection_report; its items repeat the links by plugin.
BuildReport(plugins, skills, status, home, existing) ==
  LET duplicates == DuplicateIds(plugins)
      of == [s \in skills |-> Matches(s, plugins, home, existing)]
      links == UNION {{<<p.id, s>> : p \in LinkOf(of[s], duplicates)} : s \in skills}
      r == [links |-> links,
            unlinked |-> {s \in skills : of[s] = {}},
            ambiguous |-> {s \in skills : of[s] # {} /\ LinkOf(of[s], duplicates) = {}},
            invalid |-> {p.id : p \in {x \in plugins : IsInvalid(x, home)}},
            duplicate |-> duplicates]
  IN  [findings |-> PluginFindings(status, r), report |-> r]

\* The next version of a plugin, which Codex puts into the cache beside it.
NextVersion(p) == [p EXCEPT !.version = "2", !.at = Front(@) \o <<"2">>]
NextVersions(plugins) == {NextVersion(p) : p \in {x \in plugins : x.at[1] = "cache"}}

\* What is assumed of an installation: of links, only the home may be one; files
\* that lie in the root of any plugin lie in a root of their own, and those of a
\* next version that is not listed in no root of a plugin that is.
Roots(home, plugin) ==
  (IF IdentityValid(plugin, home)
   THEN {home.path \o <<"plugins", "cache">> \o <<plugin.market, plugin.name, plugin.version>>}
   ELSE {})
  \cup {s.path : s \in {x \in plugin.source : ValidAbsoluteRoot(x)}}

LiesIn(p, q, home) ==
  \E root \in Roots(home, q) : IsPrefix(Real(root), Real(ManifestOf(home, p)))

AllOf(i) == i.plugins \cup NextVersions(i.plugins)
IsSeparate(i) ==
  /\ \A p, q \in AllOf(i) : LiesIn(p, q, i.home) => LiesIn(p, p, i.home)
  /\ \A p \in AllOf(i) \ i.plugins, q \in i.plugins : ~LiesIn(p, q, i.home)

IsInstallation(i) ==
  /\ IsFiniteSet(AllOf(i)) /\ i.home.path \in Seq(STRING)
  /\ \A p \in AllOf(i) :
       /\ {p.market, p.name, p.version} \subseteq STRING
       /\ p.at \in Seq(STRING) /\ Real(p.at) = p.at
       /\ \A root \in Roots(i.home, p) :
            root \in Seq(STRING) /\ (i.home.path = Real(i.home.path) => Real(root) = root)
  /\ IsSeparate(i)

-----------------------------------------------------------------------------
NoReport == [links |-> {}, unlinked |-> {}, ambiguous |-> {}, invalid |-> {}, duplicate |-> {}]

Init ==
  /\ pc = "list"
  /\ world \in {[home |-> i.home, plugins |-> i.plugins, removed |-> FALSE] : i \in Installations}
  /\ seen = [plugins |-> {}, catalog |-> {}, status |-> "none", report |-> NoReport]
  /\ outcome = NoOutcome

TypeOK ==
  /\ pc \in {"list", "catalog", "scan", "build", "done"}
  /\ DOMAIN world = {"home", "plugins", "removed"}
  /\ world.removed \in BOOLEAN
  /\ seen.status \in Statuses

Fail(end, where) ==
  /\ outcome' = Concluded(FailureVerdict(end), where)
  /\ pc' = "done"
  /\ UNCHANGED <<world, seen>>

List ==
  /\ pc = "list"
  /\ seen' = [seen EXCEPT !.plugins = world.plugins]
  /\ pc' = "catalog"
  /\ UNCHANGED <<world, outcome>>

ListFails ==
  /\ pc = "list"
  /\ \E end \in ProbeEnds \ {"output", "empty"} : Fail(end, "plugins")

\* probe_skill_catalog within inspect_codex_skills_inner.
ReadCatalog ==
  /\ pc = "catalog"
  /\ seen' = [seen EXCEPT !.catalog = CatalogOf(world)]
  /\ pc' = "scan"
  /\ UNCHANGED <<world, outcome>>

\* plugin_skill_failure.
SkillsFail ==
  /\ pc = "catalog"
  /\ \E end \in {"unavailable", "timedOut", "error"} : Fail(end, "plugins.skills")

Scan ==
  /\ pc = "scan"
  /\ \E status \in Statuses : seen' = [seen EXCEPT !.status = status]
  /\ pc' = "build"
  /\ UNCHANGED <<world, outcome>>

\* build_report classifies; into_assessed_plugin_skills keeps the skills of
\* plugins, which build_plugin_inspection_report links.
PluginSkills ==
  {s \in UniqueActive(seen.catalog) : Classify(s, world.home.path, OnDisk(world)) = "plugin"}

Build ==
  LET built == BuildReport(seen.plugins, PluginSkills, seen.status, world.home, OnDisk(world))
  IN  /\ pc = "build"
      /\ seen' = [seen EXCEPT !.report = built.report]
      /\ outcome' = Concluded(IF built.findings = {} THEN "BASELINE_OK" ELSE "REVIEW", "report")
      /\ pc' = "done"
      /\ UNCHANGED world

\* Codex removes a plugin, or puts its next version into the cache beside it.
Replace(p) ==
  /\ pc # "done" /\ ~world.removed
  /\ \E new \in {{}} \cup {{n} : n \in NextVersions({p})} :
       world' = [world EXCEPT !.plugins = (@ \ {p}) \cup new, !.removed = TRUE]
  /\ UNCHANGED <<pc, seen, outcome>>

Next ==
  \/ List \/ ListFails \/ ReadCatalog \/ SkillsFail \/ Scan \/ Build
  \/ \E p \in world.plugins : Replace(p)

-----------------------------------------------------------------------------
(* Properties.                                                             *)

\* BASELINE_OK accounts for the skills: the history was read completely, and
\* each active skill of a plugin in the catalog is linked to the one plugin of
\* the inventory whose files hold it.  Where the Codex home is a symbolic link
\* this is claimed only if no plugin was removed meanwhile: the paths of a
\* removed plugin cannot be resolved any more (SkillOriginClassifier).
Owned(s, p) == p.enabled /\ s.path = ManifestOf(world.home, p)
BaselineIsEvidence ==
  outcome.verdict = "BASELINE_OK" =>
    /\ seen.status = "complete"
    /\ world.home.path = Real(world.home.path) \/ ~world.removed =>
         \A s \in UniqueActive(seen.catalog) :
           s.name # "mine" =>
             \E p \in seen.plugins :
               /\ Owned(s, p)
               /\ {l \in seen.report.links : l[2] = s} = {<<p.id, s>>}
               /\ \A q \in seen.plugins : q.id = p.id => q = p

\* A plugin whose identity or source is invalid is listed as such and no skill
\* is linked to it (README.md: "Invalid path components or duplicate plugin IDs
\* produce REVIEW and are listed instead of being linked optimistically").
InvalidIsNotLinked ==
  \A l \in seen.report.links : l[1] \notin seen.report.invalid
=============================================================================
