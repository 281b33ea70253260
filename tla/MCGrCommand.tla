----------------------------- MODULE MCGrCommand -----------------------------
(***************************************************************************)
(* Dates around the ends of months, leap years and centuries; three task   *)
(* turns; a Codex home that is what it seems, a link, or not normalised,   *)
(* with plugins of every kind of identity and source; versions up to two   *)
(* releases ahead; three Claude plugins, two with one id; two directories. *)
(***************************************************************************)
EXTENDS GrCommand, FiniteSets

CONSTANT none

MCSecondsPerDay == 86400
MCRecentDays == 30
MCUnobservedHistoryDays == 60

-----------------------------------------------------------------------------
(* Skills and dates.                                                       *)

MCSkills == {"owned"}
MCManifest == [s \in MCSkills |-> <<"/skills", "owned", "SKILL.md">>]
MCElsewhere == <<"/elsewhere/skills", "owned", "SKILL.md">>
MCMaxTurns == 3
MCMaxCalls == 2
MCMaxOther == 1

Stamp(year, date, time, sign, offset) ==
  [year |-> year, month |-> date[1], day |-> date[2], hour |-> time[1], minute |-> time[2],
   second |-> time[3], sign |-> sign, oh |-> offset[1], om |-> offset[2]]

MCStamps ==
  {Stamp(y, d, t, s, o) :
     y \in {0, 1968, 1969, 1970, 1972, 1999, 2000, 2001, 2023, 2024, 2100, 9999},
     d \in {<<1, 1>>, <<2, 28>>, <<2, 29>>, <<3, 1>>, <<4, 31>>, <<12, 31>>, <<13, 1>>},
     t \in {<<0, 0, 0>>, <<23, 59, 60>>, <<24, 0, 0>>},
     s \in {-1, 1}, o \in {<<0, 0>>, <<5, 30>>, <<24, 0>>}}

-----------------------------------------------------------------------------
(* Codex plugins.                                                          *)

Home(absolute, path, resolved) == [absolute |-> absolute, path |-> path, resolved |-> resolved]

Cached(id, name, version) ==
  [id |-> id, market |-> "m", name |-> name, version |-> version, enabled |-> TRUE,
   source |-> {}, at |-> <<"cache", "m", name, version>>]
Sourced(plugin, type, absolute, path) ==
  [plugin EXCEPT !.source = {[type |-> type, absolute |-> absolute, path |-> path]}]

PluginSets ==
  LET a == Cached("a@m", "a", "1")
      b == [Cached("b@m", "b", "1") EXCEPT !.at = <<"dev", "b">>]
      local == Sourced(b, "local", TRUE, <<"home", "plugins", "dev", "b">>)
      outer == Sourced(Cached("c@m", "c", "1"), "local", TRUE, <<"home", "plugins", "dev">>)
  IN  {{a}, {a, local}, {local, outer}, {a, Cached("a@m", "a", "2")},
       {[a EXCEPT !.enabled = FALSE]},
       {[local EXCEPT !.version = ".."]},
       {Sourced(a, "git-subdir", FALSE, <<"sub">>)},
       {Sourced(a, "git-subdir", FALSE, <<"..", "sub">>)},
       {Sourced(a, "local", FALSE, <<"sub">>)}, {b}}

MCInstallations ==
  {[home |-> h, plugins |-> p] :
     h \in {Home(TRUE, <<"home">>, FALSE), Home(TRUE, <<"link">>, FALSE),
            Home(TRUE, <<"link">>, TRUE), Home(TRUE, <<"..", "home">>, FALSE)},
     p \in PluginSets}

-----------------------------------------------------------------------------
MCMaxVersion == 6

MCClaudePlugins ==
  {[id |-> "a", scope |-> "user", path |-> {"/a"}], [id |-> "a", scope |-> "local", path |-> {}],
   [id |-> "b", scope |-> "managed", path |-> {"/b"}]}

-----------------------------------------------------------------------------
(* Files: a few choices for every kind of file, and one of them changes.   *)

MCDepth == 2
MCDefaultMaxBytes == 10
MCSeparatorBytes == 2
MCFallbackNames == {"default", "fallback"}

With(tree, files) == [l \in DOMAIN tree |-> IF l \in DOMAIN files THEN files[l] ELSE tree[l]]
At(location, content) == [l \in {location} |-> content]
Only(files) == {At(l, files[l]) : l \in DOMAIN files}
Markers(name) == {<< >>, At(<<1, name>>, 0), At(<<2, name>>, 0), At(<<1, name>>, Denied)}

Config == [valid |-> TRUE, max |-> {}, fallbacks |-> {}, markers |-> TRUE,
           exact |-> "none", canonical |-> "none"]
Fallback == {<<"default", "fallback">>}

NoInstructions ==
  [l \in {<<0, "config">>} \cup ({1, 2} \X {"marker", "layer"})
         \cup ({0, 1, 2} \X {"override", "default", "fallback"}) |-> Absent]

UserConfigs ==
  {Absent, [Config EXCEPT !.valid = FALSE], [Config EXCEPT !.markers = FALSE],
   [Config EXCEPT !.exact = "trusted"],
   [Config EXCEPT !.canonical = "trusted", !.max = {8}],
   [Config EXCEPT !.exact = "untrusted", !.canonical = "trusted", !.fallbacks = Fallback]}

LayerSets ==
  {<< >>,
   [l \in {<<1, "layer">>, <<2, "layer">>} |->
      IF l[1] = 1 THEN [Config EXCEPT !.max = {3}, !.fallbacks = Fallback]
      ELSE [Config EXCEPT !.max = {20}]],
   At(<<2, "layer">>, [Config EXCEPT !.valid = FALSE])}

InstructionSets ==
  {[l \in {<<0, "default">>, <<1, "default">>, <<2, "default">>} |-> 3],
   [l \in {<<0, "default">>, <<1, "override">>, <<2, "default">>} |-> IF l[1] = 1 THEN 9 ELSE 1],
   [l \in {<<1, "override">>, <<1, "default">>, <<2, "fallback">>} |->
      IF l[2] = "override" THEN 0 ELSE 4]}

MCInstructionTrees ==
  {With(With(With(With(NoInstructions, At(<<0, "config">>, c)), m), l), f) :
     c \in UserConfigs, m \in Markers("marker"), l \in LayerSets, f \in InstructionSets}

MCEdits ==
  ({0, 1, 2} \X {"default"}) \X {Absent, Denied, 5}
  \cup {<<<<1, "override">>, 2>>, <<<<2, "marker">>, 0>>, <<<<1, "marker">>, Absent>>,
        <<<<0, "config">>, [Config EXCEPT !.exact = "trusted"]>>,
        <<<<2, "layer">>, [Config EXCEPT !.fallbacks = Fallback]>>,
        <<<<1, "layer">>, Absent>>}

-----------------------------------------------------------------------------
NoClaudeFiles ==
  [l \in {<<0, ".claude.json">>} \cup ({1, 2} \X {".git", ".mcp.json"})
         \cup ({0, 1, 2} \X {"skills", "CLAUDE.md"})
         \cup ({1, 2} \X {".claude/CLAUDE.md", "CLAUDE.local.md"}) |-> Absent]

GlobalConfigs ==
  {Absent, Bad} \cup [user : {1}, exact : {{}, {2}}, canonical : {{}, {3}}]

MCClaudeTrees ==
  {With(With(With(With(NoClaudeFiles, At(<<0, ".claude.json">>, c)), m), p), s) :
     c \in GlobalConfigs, m \in Markers(".git"),
     p \in {<< >>, At(<<1, ".mcp.json">>, 4), At(<<2, ".mcp.json">>, Bad)},
     s \in {[l \in {<<0, "skills">>, <<2, "skills">>} |-> {"manifest", "stray"}],
            [l \in {<<1, "skills">>, <<2, "skills">>} |->
               IF l[1] = 1 THEN {"manifest", "other manifest"} ELSE {Denied}],
            [l \in {<<0, "CLAUDE.md">>, <<1, "CLAUDE.md">>, <<2, "CLAUDE.local.md">>} |-> 5]}}

MCClaudeEdits ==
  {<<<<0, ".claude.json">>, Bad>>, <<<<0, ".claude.json">>, Absent>>,
   <<<<2, ".git">>, 0>>, <<<<1, ".git">>, Absent>>, <<<<1, ".mcp.json">>, 2>>,
   <<<<2, "skills">>, {"manifest"}>>, <<<<1, "skills">>, Absent>>, <<<<0, "skills">>, {"manifest"}>>,
   <<<<1, "CLAUDE.md">>, 6>>, <<<<1, "CLAUDE.md">>, Denied>>, <<<<2, ".claude/CLAUDE.md">>, 1>>}
=============================================================================
