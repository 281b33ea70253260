----------------------------- MODULE ClaudeLocal -----------------------------
(***************************************************************************)
(* crates/gr-inspect-claude/src/local.rs: the configuration, skills and    *)
(* instruction files that `gr inspect claude` finds on disk, one read      *)
(* after the other, while a file may change.                               *)
(*                                                                         *)
(* Directory 0 is the Claude home, 1..Depth are the current directory's    *)
(* ancestors from the outermost and, last, itself; none of them is the     *)
(* home.  Absent is a path that resolves to nothing, Denied one that       *)
(* cannot be examined, Bad a file that does not parse.                     *)
(***************************************************************************)
EXTENDS Integers, FiniteSets, Sequences, FiniteSetsExt, SequencesExt, InspectCore

CONSTANTS
  Depth, Absent, Denied, Bad,
  ClaudeTrees,  \* the trees that the inspection starts with
  ClaudeEdits   \* what a file may be changed to: a set of <<location, content>>

VARIABLES
  pc,       \* "root", "config", "mcp", "skills", "instructions", "done"
  world,    \* [now, before, edited]: the files, as they were, whether they changed
  seen,     \* LocalEvidence so far
  outcome

\* The global configuration is [user, exact, canonical]: its MCP servers, and
\* those of the entries of the current directory by its path as written and as
\* resolved, each empty if there is none.  A skills root is the set of its
\* entries, which are "manifest", "stray" or Denied.
NoGlobal == [user |-> 0, exact |-> {}, canonical |-> {}]

File(d, name) == world.now[<<d, name>>]
InstructionNames == <<"CLAUDE.md", ".claude/CLAUDE.md", "CLAUDE.local.md">>

\* The files, and what they may hold: instruction files and directories are not
\* parsed.
Files == {<<0, ".claude.json">>, <<0, "CLAUDE.md">>} \cup ((0..Depth) \X {"skills"})
           \cup ((1..Depth) \X ({".git", ".mcp.json"} \cup ToSet(InstructionNames)))

IsContent(location, content) ==
  /\ location[2] \in ToSet(InstructionNames) \cup {"skills"} => content # Bad
  /\ location[2] = "skills" => content \in {Absent, Denied} \/ IsFiniteSet(content)

IsTree(tree) == Files \subseteq DOMAIN tree /\ \A l \in Files : IsContent(l, tree[l])

NothingSeen ==
  [dir |-> Depth, file |-> 1, root |-> 0, user |-> 0, local |-> 0, key |-> "none",
   project |-> 0, personalSkills |-> 0, projectSkills |-> 0, sources |-> << >>]

Init ==
  /\ pc = "root"
  /\ world \in {[now |-> t, before |-> t, edited |-> FALSE] : t \in ClaudeTrees}
  /\ seen = NothingSeen
  /\ outcome = NoOutcome

TypeOK ==
  /\ pc \in {"root", "config", "mcp", "skills", "instructions", "done"}
  /\ seen.dir \in 0..(Depth + 1) /\ seen.root \in 0..Depth
  /\ seen.key \in {"none", "exact", "canonical"}
  /\ world.edited \/ world.now = world.before

-----------------------------------------------------------------------------
\* project_directories.
FirstDirectory(root) == IF root = 0 THEN Depth ELSE root
NextDirectory(d) == IF d = 0 THEN FirstDirectory(seen.root) ELSE d + 1

\* find_project_root.
FindRoot ==
  LET m == File(seen.dir, ".git")
  IN  /\ pc = "root"
      /\ m # Denied
      /\ IF m = Absent /\ seen.dir > 1
         THEN seen' = [seen EXCEPT !.dir = @ - 1] /\ UNCHANGED pc
         ELSE /\ seen' = [seen EXCEPT !.root = IF m = Absent THEN 0 ELSE seen.dir]
              /\ pc' = "config"
      /\ UNCHANGED <<world, outcome>>

\* matching_project_key: the exact path first.
MatchingKey(config) ==
  IF config.exact # {} THEN "exact" ELSE IF config.canonical # {} THEN "canonical" ELSE "none"

LocalServers(config) ==
  LET entries == CASE MatchingKey(config) = "exact" -> config.exact
                   [] MatchingKey(config) = "canonical" -> config.canonical
                   [] OTHER -> {0}
  IN  CHOOSE n \in entries : TRUE

\* read_global_config.
ReadConfig ==
  LET c == File(0, ".claude.json")
      config == IF c = Absent THEN NoGlobal ELSE c
  IN  /\ pc = "config"
      /\ c \notin {Denied, Bad}
      /\ seen' = [seen EXCEPT !.user = config.user, !.key = MatchingKey(config),
                              !.local = LocalServers(config)]
      /\ pc' = "mcp"
      /\ UNCHANGED <<world, outcome>>

\* read_project_mcp_server_count, at the project root.
ReadMcp ==
  LET n == File(FirstDirectory(seen.root), ".mcp.json")
  IN  /\ pc = "mcp"
      /\ n \notin {Denied, Bad}
      /\ seen' = [seen EXCEPT !.project = IF n = Absent THEN 0 ELSE n, !.dir = 0]
      /\ pc' = "skills"
      /\ UNCHANGED <<world, outcome>>

\* count_skill_manifests.
Manifests(entries) == IF entries = Absent THEN 0 ELSE Cardinality(entries \ {"stray"})
CannotCount(entries) == entries = Denied \/ (entries # Absent /\ Denied \in entries)

ReadSkills ==
  LET entries == File(seen.dir, "skills")
  IN  /\ pc = "skills"
      /\ ~CannotCount(entries)
      /\ seen' = [seen EXCEPT
           !.personalSkills = IF seen.dir = 0 THEN Manifests(entries) ELSE @,
           !.projectSkills = IF seen.dir = 0 THEN @ ELSE @ + Manifests(entries),
           !.dir = IF seen.dir = Depth THEN 0 ELSE NextDirectory(@)]
      /\ pc' = IF seen.dir = Depth THEN "instructions" ELSE "skills"
      /\ UNCHANGED <<world, outcome>>

\* push_instruction_source: the home has one file, a project directory three.
ReadInstruction ==
  LET name == InstructionNames[seen.file]
      size == File(seen.dir, name)
      last == seen.dir = 0 \/ seen.file = 3
  IN  /\ pc = "instructions"
      /\ seen.dir <= Depth
      /\ size # Denied
      /\ seen' = [seen EXCEPT !.sources = IF size = Absent THEN @ ELSE Append(@, <<seen.dir, name>>),
                              !.file = IF last THEN 1 ELSE @ + 1,
                              !.dir = IF last THEN NextDirectory(@) ELSE @]
      /\ UNCHANGED <<pc, world, outcome>>

End ==
  /\ pc = "instructions"
  /\ seen.dir > Depth
  /\ outcome' = Concluded("accepted", "local")
  /\ pc' = "done"
  /\ UNCHANGED <<world, seen>>

\* Every error but NotFound ends the inspection, and so does a file that does
\* not parse: local_failure.
CannotRead ==
  CASE pc = "root" -> File(seen.dir, ".git") = Denied
    [] pc = "config" -> File(0, ".claude.json") \in {Denied, Bad}
    [] pc = "mcp" -> File(FirstDirectory(seen.root), ".mcp.json") \in {Denied, Bad}
    [] pc = "skills" -> CannotCount(File(seen.dir, "skills"))
    [] pc = "instructions" ->
         seen.dir <= Depth /\ File(seen.dir, InstructionNames[seen.file]) = Denied

ReadFails ==
  /\ pc # "done"
  /\ CannotRead
  /\ outcome' = Concluded("INCOMPLETE", "local")
  /\ pc' = "done"
  /\ UNCHANGED <<world, seen>>

\* One file changes while it is inspected.
Edit ==
  /\ pc # "done" /\ ~world.edited
  /\ \E e \in ClaudeEdits :
       /\ e[2] # world.now[e[1]]
       /\ world' = [world EXCEPT !.now[e[1]] = e[2], !.edited = TRUE]
  /\ UNCHANGED <<pc, seen, outcome>>

Next ==
  \/ FindRoot \/ ReadConfig \/ ReadMcp \/ ReadSkills \/ ReadInstruction \/ End \/ ReadFails \/ Edit

-----------------------------------------------------------------------------
(* The reference: what a tree says, without an order of reading.           *)

Readable(x) == x \notin {Absent, Denied, Bad}
RootOf(tree) == Max({0} \cup {d \in 1..Depth : tree[<<d, ".git">>] # Absent})
Project(tree) == FirstDirectory(RootOf(tree))..Depth
SkillsIn(tree, d) == IF Readable(tree[<<d, "skills">>]) THEN tree[<<d, "skills">>] ELSE {}

\* The sources are ordered by directory and then by name.
Before(l, m) ==
  LET at(n) == CHOOSE i \in 1..3 : InstructionNames[i] = n
  IN  l[1] < m[1] \/ (l[1] = m[1] /\ at(l[2]) <= at(m[2]))

SourcesOf(tree) ==
  LET found == {l \in {<<0, "CLAUDE.md">>} \cup (Project(tree) \X ToSet(InstructionNames)) :
                  Readable(tree[l])}
  IN  [i \in 1..Cardinality(found) |->
         CHOOSE l \in found : Cardinality({m \in found : Before(m, l)}) = i]

ReportOf(tree) ==
  LET c == IF Readable(tree[<<0, ".claude.json">>]) THEN tree[<<0, ".claude.json">>] ELSE NoGlobal
      mcp == tree[<<FirstDirectory(RootOf(tree)), ".mcp.json">>]
  IN  [root |-> RootOf(tree),
       user |-> c.user,
       local |-> CHOOSE n \in IF c.exact # {} THEN c.exact
                              ELSE IF c.canonical # {} THEN c.canonical ELSE {0} : TRUE,
       project |-> IF Readable(mcp) THEN mcp ELSE 0,
       personalSkills |-> Cardinality(SkillsIn(tree, 0) \ {"stray"}),
       projectSkills |-> Cardinality(UNION {{d} \X (SkillsIn(tree, d) \ {"stray"}) :
                                              d \in Project(tree)}),
       sources |-> SourcesOf(tree)]

-----------------------------------------------------------------------------
(* Properties.                                                             *)

\* The report is what one look at the whole tree would have said, before or
\* after a file changed: nothing is counted twice or left out, the directory's
\* own entry is found, and absent files count as zero.  A failure has a file
\* that cannot be examined or does not parse.
LooksAtOnce ==
  pc = "done" =>
    IF outcome.verdict = "INCOMPLETE"
    THEN \E t \in {world.now, world.before}, l \in DOMAIN world.now :
           t[l] \in {Denied, Bad} \/ (l[2] = "skills" /\ CannotCount(t[l]))
    ELSE \E t \in {world.now, world.before} :
           ReportOf(t) = [f \in DOMAIN ReportOf(t) |-> seen[f]]
=============================================================================
