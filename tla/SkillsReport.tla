---------------------------- MODULE SkillsReport ----------------------------
(***************************************************************************)
(* What `gr inspect codex skills` makes of the catalog and the assessment  *)
(* (crates/gr-inspect-codex/src/skills.rs): which of two catalog entries   *)
(* are one skill, who owns it, and the view of the items.                  *)
(*                                                                         *)
(* A path is a sequence of names.  Codex may be reached through a symbolic *)
(* link: RealName resolves it.  canonicalize succeeds only for a path that *)
(* exists, and existing is the set of the paths that do.                   *)
(***************************************************************************)
EXTENDS Assessment, SequencesExt

RealName(name) == IF name = "link" THEN "home" ELSE name
Real(path) == [i \in DOMAIN path |-> RealName(path[i])]

\* The paths that can be resolved, with everything that they lie in.
Exists(path, existing) == \E q \in existing : IsPrefix(Real(path), Real(q))

\* unique_active_skills.
UniqueActive(catalog) ==
  {[name |-> s.name, path |-> s.path, scope |-> s.scope] : s \in {x \in catalog : x.enabled}}

\* SkillOriginClassifier: a path under <codex home>/plugins, as it is written or
\* as it is resolved at the time of the call, and the scope otherwise.
ScopeOrigin(scope) ==
  CASE scope = "system" -> "system"
    [] scope = "user" -> "personal"
    [] scope \in {"repo", "project"} -> "project"
    [] scope = "admin" -> "admin"
    [] OTHER -> "unknown"

UnderPlugins_Textual(path, codexHome, existing) ==   \* mutant: links are not resolved
  IsPrefix(codexHome \o <<"plugins">>, path)

UnderPlugins(path, codexHome, existing) ==
  LET root == codexHome \o <<"plugins">>
  IN  \/ IsPrefix(root, path)
      \/ /\ Exists(root, existing) /\ Exists(path, existing)
         /\ IsPrefix(Real(root), Real(path))

Classify(skill, codexHome, existing) ==
  IF UnderPlugins(skill.path, codexHome, existing) THEN "plugin" ELSE ScopeOrigin(skill.scope)

\* apply_item_view: the items returned, and how many are left out.
ItemView(items, actionable) ==
  LET shown == {s \in DOMAIN items : actionable => IsActionable(items[s].disposition)}
  IN  [returned |-> shown, omitted |-> Cardinality(DOMAIN items) - Cardinality(shown)]
=============================================================================
