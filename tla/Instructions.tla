---------------------------- MODULE Instructions ----------------------------
(***************************************************************************)
(* The project and instruction evidence of `gr inspect codex`:             *)
(* crates/gr-inspect-codex/src/agents.rs reads the user's configuration,   *)
(* finds the project root, layers the configurations of a trusted project, *)
(* and lists the instruction files that Codex would load, one file after   *)
(* the other, while a file may change.                                     *)
(*                                                                         *)
(* Directory 0 is the Codex home, 1..Depth are the current directory's     *)
(* ancestors from the outermost and, last, itself.  world gives each       *)
(* <<directory, file>> what it holds: Absent, Denied if it cannot be       *)
(* examined, and else a size or a configuration.                           *)
(***************************************************************************)
EXTENDS Integers, FiniteSets, Sequences, FiniteSetsExt, SequencesExt, InspectCore

CONSTANTS
  Depth,           \* directories from the outermost to the current one
  DefaultMaxBytes, \* DEFAULT_MAX_BYTES
  SeparatorBytes,  \* SEPARATOR_BYTES
  Absent, Denied,  \* what cannot be read
  FallbackNames,   \* the names that configurations give to further instruction files
  InstructionTrees,\* the trees that the inspection starts with
  Edits            \* what a file may be changed to: a set of <<location, content>>

\* A configuration is [valid, max, fallbacks, markers, exact, canonical]: whether
\* it parses; project_doc_max_bytes and project_doc_fallback_filenames, empty if
\* they are not set; whether project_root_markers is the default list or empty;
\* the trust level of directory 1, by its path as written and as resolved.
NoConfig == [valid |-> TRUE, max |-> {}, fallbacks |-> {}, markers |-> TRUE,
             exact |-> "none", canonical |-> "none"]

\* The files, and what they may hold: the budget that a configuration sets is a
\* u64, its fallbacks are names, and an instruction file has a size.
InstructionNames == {"override", "default"} \cup FallbackNames
Files == {<<0, "config">>} \cup ((1..Depth) \X {"marker", "layer"})
           \cup ((0..Depth) \X InstructionNames)

IsContent(location, content) ==
  \/ content \in {Absent, Denied}
  \/ IF location[2] \in {"config", "layer"}
     THEN content.max \subseteq Nat /\ content.fallbacks \subseteq Seq(FallbackNames)
     ELSE location[2] \in InstructionNames => content \in Nat

IsTree(tree) == Files \subseteq DOMAIN tree /\ \A l \in Files : IsContent(l, tree[l])

VARIABLES
  pc,       \* "config", "root", "layers", "files", "done"
  world,    \* [now, before, edited]: the files, as they were, whether they changed
  seen,     \* what is resolved and discovered so far
  outcome

File(d, name) == world.now[<<d, name>>]

NothingSeen ==
  [user |-> NoConfig, dir |-> Depth, file |-> 1, root |-> 0, max |-> DefaultMaxBytes,
   fallbacks |-> << >>, layers |-> << >>, sources |-> << >>, bytes |-> 0]

Init ==
  /\ pc = "config"
  /\ world \in {[now |-> t, before |-> t, edited |-> FALSE] : t \in InstructionTrees}
  /\ seen = NothingSeen
  /\ outcome = NoOutcome

TypeOK ==
  /\ pc \in {"config", "root", "layers", "files", "done"}
  /\ seen.dir \in 0..(Depth + 1) /\ seen.root \in 0..Depth
  /\ seen.bytes <= seen.max
  /\ world.edited \/ world.now = world.before

Fail ==
  /\ outcome' = Concluded("INCOMPLETE", "agents")
  /\ pc' = "done"
  /\ UNCHANGED <<world, seen>>

-----------------------------------------------------------------------------
\* The first value that is set.
OrElse(values, default) == IF values = {} THEN default ELSE CHOOSE v \in values : TRUE

\* find_project_trust.
Trust(config, root) ==
  CASE root # 1 -> "none"
    [] root = 1 /\ config.exact # "none" -> config.exact
    [] OTHER -> config.canonical

\* The directories of project_directories, as the first and the last one.
FirstDirectory(root) == IF root = 0 THEN Depth ELSE root

\* resolve_agent_discovery_at up to find_project_root.
ReadConfig ==
  LET c == File(0, "config")
      user == IF c = Absent THEN NoConfig ELSE c
  IN  /\ pc = "config"
      /\ c # Denied /\ user.valid
      /\ seen' = [seen EXCEPT !.user = user, !.max = OrElse(user.max, DefaultMaxBytes),
                              !.fallbacks = OrElse(user.fallbacks, << >>),
                              !.root = IF user.markers THEN 0 ELSE Depth]
      /\ pc' = IF user.markers THEN "root" ELSE "layers"
      /\ UNCHANGED <<world, outcome>>

\* find_project_root: the nearest directory with a marker.
FindRoot ==
  LET m == File(seen.dir, "marker")
  IN  /\ pc = "root"
      /\ m # Denied
      /\ IF m = Absent /\ seen.dir > 1
         THEN seen' = [seen EXCEPT !.dir = @ - 1] /\ UNCHANGED pc
         ELSE /\ seen' = [seen EXCEPT !.root = IF m = Absent THEN 0 ELSE seen.dir,
                                      !.dir = FirstDirectory(IF m = Absent THEN 0 ELSE seen.dir)]
              /\ pc' = "layers"
      /\ UNCHANGED <<world, outcome>>

\* Mutant: the project's configurations count whether it is trusted or not.
ReadLayer_AnyTrust ==
  LET c == File(seen.dir, "layer")
      layer == IF c = Absent THEN NoConfig ELSE c
  IN  /\ pc = "layers"
      /\ seen.dir <= Depth
      /\ c # Denied /\ layer.valid
      /\ seen' = [seen EXCEPT !.dir = @ + 1, !.max = OrElse(layer.max, @),
                              !.fallbacks = OrElse(layer.fallbacks, @),
                              !.layers = IF c = Absent THEN @ ELSE Append(@, seen.dir)]
      /\ UNCHANGED <<pc, world, outcome>>

\* The configuration of one directory of a trusted project: the nearest wins.
ReadLayer ==
  LET c == File(seen.dir, "layer")
      layer == IF c = Absent THEN NoConfig ELSE c
  IN  /\ pc = "layers"
      /\ Trust(seen.user, seen.root) = "trusted" /\ seen.dir <= Depth
      /\ c # Denied /\ layer.valid
      /\ seen' = [seen EXCEPT !.dir = @ + 1, !.max = OrElse(layer.max, @),
                              !.fallbacks = OrElse(layer.fallbacks, @),
                              !.layers = IF c = Absent THEN @ ELSE Append(@, seen.dir)]
      /\ UNCHANGED <<pc, world, outcome>>

EndLayers ==
  /\ pc = "layers"
  /\ Trust(seen.user, seen.root) # "trusted" \/ seen.dir > Depth
  /\ seen' = [seen EXCEPT !.dir = 0]
  /\ pc' = "files"
  /\ UNCHANGED <<world, outcome>>

\* The files that first_instruction_file tries in a directory.
Candidates(d, fallbacks) ==
  <<"override", "default">> \o (IF d = 0 THEN << >> ELSE fallbacks)

NextDirectory(d) == IF d = 0 THEN FirstDirectory(seen.root) ELSE d + 1

\* discover_agents: the next candidate of a directory is examined, and what is
\* found is added unless it exceeds the budget, which ends the list.
Examine ==
  LET names == Candidates(seen.dir, seen.fallbacks)
      size == File(seen.dir, names[seen.file])
      found == size \notin {Absent, 0}
      bytes == seen.bytes + size + (IF seen.sources = << >> THEN 0 ELSE SeparatorBytes)
  IN  /\ pc = "files"
      /\ seen.dir <= Depth
      /\ size # Denied
      /\ UNCHANGED <<world, outcome>>
      /\ \/ /\ found /\ bytes > seen.max
            /\ seen' = [seen EXCEPT !.dir = Depth + 1]
            /\ UNCHANGED pc
         \/ /\ found /\ bytes <= seen.max
            /\ seen' = [seen EXCEPT !.dir = NextDirectory(@), !.file = 1, !.bytes = bytes,
                                    !.sources = Append(@, <<seen.dir, names[seen.file]>>)]
            /\ UNCHANGED pc
         \/ /\ ~found
            /\ seen' = IF seen.file < Len(names) THEN [seen EXCEPT !.file = @ + 1]
                       ELSE [seen EXCEPT !.dir = NextDirectory(@), !.file = 1]
            /\ UNCHANGED pc

EndFiles ==
  /\ pc = "files"
  /\ seen.dir > Depth
  /\ outcome' = Concluded("accepted", "agents")
  /\ pc' = "done"
  /\ UNCHANGED <<world, seen>>

\* What is read next cannot be: any error but NotFound ends the inspection.
CannotRead ==
  LET c == CASE pc = "config" -> File(0, "config")
             [] pc = "layers" /\ Trust(seen.user, seen.root) = "trusted" /\ seen.dir <= Depth ->
                  File(seen.dir, "layer")
             [] OTHER -> Absent
  IN  \/ c = Denied
      \/ c # Absent /\ ~c.valid
      \/ pc = "root" /\ File(seen.dir, "marker") = Denied
      \/ /\ pc = "files" /\ seen.dir <= Depth
         /\ File(seen.dir, Candidates(seen.dir, seen.fallbacks)[seen.file]) = Denied

ReadFails == pc # "done" /\ CannotRead /\ Fail

\* One file changes while it is inspected.
Edit ==
  /\ pc # "done" /\ ~world.edited
  /\ \E e \in Edits :
       /\ e[2] # world.now[e[1]]
       /\ world' = [world EXCEPT !.now[e[1]] = e[2], !.edited = TRUE]
  /\ UNCHANGED <<pc, seen, outcome>>

Next ==
  \/ ReadConfig \/ FindRoot \/ ReadLayer \/ EndLayers \/ Examine \/ EndFiles \/ ReadFails \/ Edit

-----------------------------------------------------------------------------
(* The reference: what a tree says, without an order of reading.           *)

ConfigOf(tree, d, name) == IF tree[<<d, name>>] \in {Absent, Denied} THEN NoConfig
                           ELSE tree[<<d, name>>]

RootOf(tree) ==
  IF ~ConfigOf(tree, 0, "config").markers THEN Depth
  ELSE Max({0} \cup {d \in 1..Depth : tree[<<d, "marker">>] # Absent})

LayersOf(tree) ==
  {d \in FirstDirectory(RootOf(tree))..Depth :
     /\ Trust(ConfigOf(tree, 0, "config"), RootOf(tree)) = "trusted"
     /\ tree[<<d, "layer">>] # Absent}

\* The setting of the nearest layer that has one, the user's, or the default.
SettingOf(tree, field, default) ==
  LET setting == {d \in LayersOf(tree) : ConfigOf(tree, d, "layer")[field] # {}}
  IN  IF setting # {} THEN OrElse(ConfigOf(tree, Max(setting), "layer")[field], default)
      ELSE OrElse(ConfigOf(tree, 0, "config")[field], default)

MaxOf(tree) == SettingOf(tree, "max", DefaultMaxBytes)
FallbacksOf(tree) == SettingOf(tree, "fallbacks", << >>)

\* The candidates of a directory that are files and not empty; the first counts.
FoundIn(tree, d) ==
  LET names == Candidates(d, FallbacksOf(tree))
  IN  {i \in DOMAIN names : tree[<<d, names[i]>>] \notin {Absent, 0}}

ChosenIn(tree, d) == <<d, Candidates(d, FallbacksOf(tree))[Min(FoundIn(tree, d))]>>

\* The chosen files in the order that they are loaded in.
WithFile(tree) == {d \in {0} \cup (FirstDirectory(RootOf(tree))..Depth) : FoundIn(tree, d) # {}}
AllOf(tree) ==
  [i \in 1..Cardinality(WithFile(tree)) |->
     ChosenIn(tree, CHOOSE d \in WithFile(tree) :
                      Cardinality({e \in WithFile(tree) : e <= d}) = i)]

Size(tree, file) == IF tree[file] = Denied THEN 0 ELSE tree[file]

\* What the first of them take together, with a separator between any two.
BytesOf(tree) ==
  LET all == AllOf(tree)
      bytes[n \in 0..Len(all)] ==
        IF n = 0 THEN 0
        ELSE bytes[n - 1] + Size(tree, all[n]) + (IF n = 1 THEN 0 ELSE SeparatorBytes)
  IN  bytes

\* The sources loaded: as many as fit into the budget together.
SourcesOf(tree) ==
  SubSeq(AllOf(tree), 1,
         Max({n \in 0..Len(AllOf(tree)) : BytesOf(tree)[n] <= MaxOf(tree)}))

ReportOf(tree) ==
  [root |-> RootOf(tree), layers |-> LayersOf(tree), sources |-> SourcesOf(tree)]

-----------------------------------------------------------------------------
(* Properties.                                                             *)

\* The report is what one look at the whole tree would have said, before or
\* after a file changed: the sources are those that the nearest trusted layer's
\* budget and fallback names admit, and an untrusted project changes nothing.
\* A failure has a file that cannot be read.
LooksAtOnce ==
  pc = "done" =>
    IF outcome.verdict = "INCOMPLETE"
    THEN \E t \in {world.now, world.before}, l \in DOMAIN world.now :
           t[l] = Denied \/ (l[2] \in {"config", "layer"} /\ t[l] # Absent /\ ~t[l].valid)
    ELSE \E t \in {world.now, world.before} :
           /\ ReportOf(t) = [root |-> seen.root, layers |-> ToSet(seen.layers),
                             sources |-> seen.sources]
           /\ \A file \in ToSet(seen.sources) : t[file] # Denied
=============================================================================
