----------------------------- MODULE ToolFiles ------------------------------
(***************************************************************************)
(* Which tools a process has, and which of them a conversation is offered: *)
(* loaders/tool_paths.py, loaders/task_tool_loader.py,                     *)
(* loaders/llm_tool_loader.py and tools.sets of core/config.py.            *)
(*                                                                         *)
(* A tool is declared by a YAML file; its name is the stem of that file.   *)
(* The type of the YAML says where the code is: beside it ("self"), in an  *)
(* installed package (a sequence of names), or in a file of that name      *)
(* below one of the tool roots.                                            *)
(***************************************************************************)
EXTENDS Extensions

CONSTANTS
    Files,         \* Files[root]: the .py files below a tool root
    ToolRoot,      \* paths.tool_root
    SameDirectory, \* SameDirectory[root]: the directory it resolves to
    EscapingFiles, \* the files that are links to outside the tool roots
    ModuleTypes,   \* the types that are import paths
    ImportableTools, \* those of them that can be imported
    BuiltinFiles,  \* the files of lilla_core/builtin_tools
    CoreContextKeys  \* _CORE_RUNTIME_CONTEXT_KEYS

BuiltinRoot == "builtin_tools"

-----------------------------------------------------------------------------
(* Roots and YAML files.                                                   *)

\* paths.tool_root, the roots of the extensions, the built-in tools; of two
\* names of a directory the first stays.
resolve_tool_roots(L) ==
    LET all == << ToolRoot >> \o FlattenSeq([i \in DOMAIN L |-> Decl[L[i]].tool_roots])
                 \o << BuiltinRoot >>
        keep == {i \in DOMAIN all :
                    \A j \in 1 .. i - 1 : SameDirectory[all[j]] # SameDirectory[all[i]]}
    IN  [n \in 1 .. Cardinality(keep) |->
            all[CHOOSE i \in keep : Cardinality({j \in keep : j <= i}) = n]]

Bundled(L) == UNION {DOMAIN Decl[L[i]].tool_configs : i \in DOMAIN L}

\* Two extensions do not bundle a YAML of the same name.
ValidToolConfigs(L) ==
    \A i, j \in DOMAIN L :
        DOMAIN Decl[L[i]].tool_configs \cap DOMAIN Decl[L[j]].tool_configs # {} => i = j

\* The user's YAML takes the place of the bundled one.
resolve_tool_config_files(L, user) ==
    [stem \in Bundled(L) \cup DOMAIN user |->
        IF stem \in DOMAIN user THEN user[stem]
        ELSE LET i == CHOOSE i \in DOMAIN L : stem \in DOMAIN Decl[L[i]].tool_configs
             IN  Decl[L[i]].tool_configs[stem]]

\* Only "enabled: false" switches a tool off.
is_tool_enabled(config) == config.enabled # "false"

-----------------------------------------------------------------------------
(* Finding the code of a tool.                                             *)

Holders(type, roots) ==
    {i \in DOMAIN roots : roots[i] # BuiltinRoot /\ type \in Files[roots[i]]}

\* Which file wins is never left to the order of the roots.
Ambiguous(type, roots) == Cardinality(Holders(type, roots)) > 1

Nowhere == << "nowhere", "" >>

\* A built-in tool is replaced by a file of the same name.
find_tool_file(type, roots) ==
    CASE Holders(type, roots) # {} ->
             << roots[CHOOSE i \in Holders(type, roots) : TRUE], type >>
      [] Holders(type, roots) = {} /\ type \in BuiltinFiles -> << BuiltinRoot, type >>
      [] OTHER -> Nowhere

\* is_within_tool_dirs: a link that leads out of the roots is not loaded.
Loadable(code) == code # Nowhere /\ code \notin EscapingFiles

\* Only tools of the model know "self"; a task of that type is a file.
IsBeside(config) == config.type = "self" /\ config.trigger = "llm"
IsFileType(config) ==
    config.type # "" /\ ~IsBeside(config) /\ config.type \notin ModuleTypes

\* What the loaders take: the file, the module, or nothing (a warning, and the
\* tool is not there).
CodeOf(config, roots) ==
    CASE IsBeside(config) -> IF config.beside THEN << "beside", "self" >> ELSE Nowhere
      [] config.type \in ModuleTypes ->
             IF config.type \in ImportableTools THEN << "package", config.type >> ELSE Nowhere
      [] IsFileType(config) -> find_tool_file(config.type, roots)
      [] OTHER -> Nowhere

\* load_all_tools, load_llm_tools: the tools there are, each with where its code
\* was found.  Roots are looked at for enabled tools only.
UnambiguousTools(L, user) ==
    LET configs == resolve_tool_config_files(L, user) IN
    \A stem \in DOMAIN configs :
        is_tool_enabled(configs[stem]) /\ IsFileType(configs[stem]) =>
            ~Ambiguous(configs[stem].type, resolve_tool_roots(L))

LoadedTools(L, user) ==
    LET configs == resolve_tool_config_files(L, user)
        code == [stem \in DOMAIN configs |-> CodeOf(configs[stem], resolve_tool_roots(L))]
    IN  [stem \in {s \in DOMAIN configs : is_tool_enabled(configs[s]) /\ Loadable(code[s])} |->
            code[stem]]

\* The keys of a tool's YAML are not those every tool is given when it runs.
_validate_no_runtime_key_collision(L, user) ==
    LET configs == resolve_tool_config_files(L, user) IN
    \A stem \in DOMAIN LoadedTools(L, user) :
        configs[stem].trigger = "llm" =>
            configs[stem].keys \cap (CoreContextKeys \cup Provided(L, "context")) = {}

-----------------------------------------------------------------------------
(* Sets of tools.  An entry is << "tool", stem >> or << "set", name >>.    *)

Main == "main"

\* The sets being expanded, each for the one before it; none twice.
Stacks(names) == {s \in SeqOf(names, Cardinality(names)) : s # << >> /\ IsInjective(s)}

\* _expand_entries: the entries of the last set of the stack, those of other sets
\* replaced in their place by what expand makes of them.  Where the code raises, an
\* entry that is not the name of any tool is left.
Expanded(sets, expand, stack, e) ==
    CASE e[1] = "tool" -> << e[2] >>
      [] e[1] = "set" /\ e[2] \in ToSet(stack) -> << "cycle" >>
      [] e[1] = "set" /\ e[2] \notin ToSet(stack) \cup DOMAIN sets ->
             IF e[2] = Main THEN << >> ELSE << "unknown set" >>
      [] OTHER -> expand[Append(stack, e[2])]

_expand_entries(sets, expand, stack) ==
    LET entries == sets[Last(stack)]
    IN  FlattenSeq([i \in DOMAIN entries |-> Expanded(sets, expand, stack, entries[i])])

Expansions(sets) ==
    LET expand[stack \in Stacks(DOMAIN sets)] == _expand_entries(sets, expand, stack)
    IN  [name \in DOMAIN sets |-> expand[<< name >>]]

\* resolve_available_tools: the set may be offered; it is what it expands to.
Resolves(sets, name, loaded) == ToSet(Expansions(sets)[name]) \subseteq loaded

\* Mutant of validate_tool_sets: only the set of ordinary conversations is checked.
ValidatesMain(sets, loaded) == Main \in DOMAIN sets => Resolves(sets, Main, loaded)

validate_tool_sets(sets, loaded) ==
    \A name \in DOMAIN sets : Resolves(sets, name, loaded)

\* resolve_available_tools of "$main", build_tools_param: what a conversation of a
\* client is offered.
Offered(sets, loaded, client) ==
    {stem \in IF Main \in DOMAIN sets THEN ToSet(Expansions(sets)[Main]) ELSE {} :
        loaded[stem] \in {"all", client}}
=============================================================================
