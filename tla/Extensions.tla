----------------------------- MODULE Extensions -----------------------------
(***************************************************************************)
(* What extensions declare, how it is checked and merged                   *)
(* (core/extension.py) and how it is composed into the settings            *)
(* (core/config.py).  The operators are pure; Startup applies them.        *)
(*                                                                         *)
(* Decl[e] is what the methods of extension e return.  Names of fields,    *)
(* context keys and client types are members of small sets; a path of the  *)
(* dashboard is the sequence of its segments, so "/api/foobar" is not      *)
(* under "/api/foo".                                                       *)
(***************************************************************************)
EXTENDS Naturals, Sequences, FiniteSets, SequencesExt

CONSTANTS
    Decl,            \* Decl[e]: what extension e declares
    Installed,       \* import path -> the extension it exports, or a failure
    ReservedNames,   \* RESERVED_EXTENSION_NAMES
    Reserved,        \* Reserved[k]: the keys of kind k the core keeps
    CatalogKeys,     \* the top-level keys of the core's message catalog
    CoreSections,    \* the sections of lilla.yaml the core defines
    ReservedProviders,  \* RESERVED_LLM_PROVIDER_NAMES
    CommandsOf,      \* CommandsOf[p]: the commands that package p registers
    Upper            \* Upper[m]: the method m as routes keep it

Exts == DOMAIN Decl

\* Contributions with one value for each key, and those of them that may be
\* asked for by an extension that does not provide them.
UniqueKinds == {"env", "context", "delivery"}
NeededKinds == {"env", "context"}

Failures == {"broken", "bare", "not_an_extension"}
AuthModes == {"bearer", "public", "deferred"}

\* class Extension: what an extension of name n declares when it overrides nothing.
Extension(n) ==
    [name |-> n, well_formed |-> TRUE, digit_first |-> FALSE, api_version |-> "supported",
     removed_methods |-> FALSE, requires |-> {}, section |-> "none",
     provides |-> [k \in UniqueKinds |-> {}], needs |-> [k \in NeededKinds |-> {}],
     hooks |-> {}, page |-> "none", static_dir |-> FALSE, dashboard_routes |-> {},
     dashboard_public_routes |-> {}, http_routes |-> << >>, locale_dirs |-> FALSE,
     texts |-> {}, tool_roots |-> << >>, tool_configs |-> << >>,
     command_packages |-> {}, repos |-> 0]

CORE_HTTP_ROUTES ==
    {[method |-> "GET", path |-> "/"], [method |-> "GET", path |-> "/api/selftest"],
     [method |-> "POST", path |-> "/api/tools/call"],
     [method |-> "POST", path |-> "/api/runtask"]}

ASSUME DeclAssumption ==
    \A e \in Exts :
        /\ Decl[e].requires \subseteq STRING
        /\ Decl[e].provides \in [UniqueKinds -> SUBSET STRING]
        /\ Decl[e].needs \in [NeededKinds -> SUBSET STRING]
        /\ Decl[e].http_routes \in Seq([method : STRING, path : STRING, auth : STRING])
ASSUME InstalledAssumption ==
    \A p \in DOMAIN Installed : Installed[p] \in Exts \cup Failures
ASSUME ReservedAssumption == Reserved \in [UniqueKinds -> SUBSET STRING]

-----------------------------------------------------------------------------
(* Importing LILLA_EXTENSIONS.  An import path is the sequence of its      *)
(* parts.                                                                  *)

OfficialPackage == << "lilla_core", "extensions" >>

\* A short name that is not there is looked for in the official package.
_import_extension_module(p) ==
    CASE p \in DOMAIN Installed -> Installed[p]
      [] p \notin DOMAIN Installed /\ Len(p) = 1
           /\ OfficialPackage \o p \in DOMAIN Installed ->
             Installed[OfficialPackage \o p]
      [] OTHER -> "missing"

Imported(spec) == [i \in DOMAIN spec |-> _import_extension_module(spec[i])]
Imports(spec) == \A i \in DOMAIN spec : Imported(spec)[i] \in Exts

-----------------------------------------------------------------------------
(* The checks of set_extensions, on the list L in load order.              *)

Name(L, i) == Decl[L[i]].name

ValidNames(L) ==
    /\ \A i \in DOMAIN L : Decl[L[i]].well_formed /\ Name(L, i) \notin ReservedNames
    /\ \A i, j \in DOMAIN L : Name(L, i) = Name(L, j) => i = j

ValidApiVersions(L) == \A i \in DOMAIN L : Decl[L[i]].api_version = "supported"

NoRemovedMethods(L) == \A i \in DOMAIN L : ~Decl[L[i]].removed_methods

\* Mutant of ValidRequires: listed anywhere will do.
RequiresListed(L) ==
    \A i \in DOMAIN L : \A name \in Decl[L[i]].requires :
        \E j \in DOMAIN L : Name(L, j) = name

\* What an extension requires is loaded, and listed before it.
ValidRequires(L) ==
    \A i \in DOMAIN L : \A name \in Decl[L[i]].requires :
        \E j \in DOMAIN L : Name(L, j) = name /\ j < i

\* A model of the settings: none, with defaults only, or with a required field.
ValidConfigModels(L) ==
    \A i \in DOMAIN L :
        \/ Decl[L[i]].section = "none"
        \/ Decl[L[i]].section \in {"optional", "required"} /\ ~Decl[L[i]].digit_first

\* _merge_unique: no key of the core's, none of two extensions'.
Provided(L, kind) == UNION {Decl[L[i]].provides[kind] : i \in DOMAIN L}

\* Mutant of ValidUnique: a later extension silently takes a key over.
OnlyReserved(L, kind) == Provided(L, kind) \cap Reserved[kind] = {}

ValidUnique(L, kind) ==
    /\ Provided(L, kind) \cap Reserved[kind] = {}
    /\ \A i, j \in DOMAIN L :
          Decl[L[i]].provides[kind] \cap Decl[L[j]].provides[kind] # {} => i = j

MergeUnique(L, kind) ==
    [key \in Provided(L, kind) |->
        L[CHOOSE i \in DOMAIN L : key \in Decl[L[i]].provides[kind]]]

\* _validate_required: provided by any extension, before or after, or the core.
ValidNeeds(L, kind) ==
    \A i \in DOMAIN L :
        Decl[L[i]].needs[kind] \subseteq Provided(L, kind) \cup Reserved[kind]

\* _merge_lists: the hooks of a client type, of every extension in load order.
MergeLists(L, client) ==
    SelectSeq(L, LAMBDA e : client \in Decl[e].hooks)

-----------------------------------------------------------------------------
(* Routes.                                                                 *)

ApiPrefix(name) == << "api", name >>
PublicPrefix(name) == << "oauth", name >>
StaticPrefix(name) == << "static", "ext", name >>

\* The prefix itself or below it.
Under(prefix, path) == IsPrefix(prefix, path)

ValidDashboard(L) ==
    \A i \in DOMAIN L :
        LET d == Decl[L[i]] IN
            /\ d.page # "none" => d.static_dir
            /\ \A path \in d.dashboard_routes : Under(ApiPrefix(d.name), path)
            /\ \A path \in d.dashboard_public_routes : Under(PublicPrefix(d.name), path)

\* DashboardPageEntry.from_page: the hash of a page in the main or admin menu.
PageHash(d) == IF d.page = "admin" THEN << "admin", d.name >> ELSE << d.name >>
Pages(L) ==
    [i \in {j \in DOMAIN L : Decl[L[j]].page # "none"} |-> PageHash(Decl[L[i]])]

\* HttpRoute.__post_init__: a known way of authentication; the method in capitals.
ValidRoute(r) == r.auth \in AuthModes /\ r.method \in DOMAIN Upper
Normalized(e, r) ==
    [method |-> Upper[r.method], path |-> r.path, auth |-> r.auth, owner |-> Decl[e].name]

\* Mutant of SameAsGet: methods are compared as they are.
SameMethod(method) == method

\* The server adds HEAD to every GET, so HEAD counts as GET.
SameAsGet(method) == IF method = "HEAD" THEN "GET" ELSE method
_http_routes_overlap(a, b) ==
    /\ a.path = b.path
    /\ \/ SameAsGet(a.method) = SameAsGet(b.method)
       \/ "*" \in {a.method, b.method}

_collect_http_routes(L) ==
    FlattenSeq([i \in DOMAIN L |->
        [n \in DOMAIN Decl[L[i]].http_routes |-> Normalized(L[i], Decl[L[i]].http_routes[n])]])

ValidHttpRoutes(L) ==
    /\ \A i \in DOMAIN L : \A n \in DOMAIN Decl[L[i]].http_routes :
          ValidRoute(Decl[L[i]].http_routes[n])
    /\ LET routes == _collect_http_routes(L) IN
       \A i \in DOMAIN routes :
          /\ \A core \in CORE_HTTP_ROUTES : ~_http_routes_overlap(routes[i], core)
          /\ \A j \in 1 .. i - 1 : ~_http_routes_overlap(routes[i], routes[j])

\* ui/messages.py: texts only under the extension's own name, which the core's
\* catalog does not use.
ValidCatalogs(L) ==
    \A i \in DOMAIN L :
        Decl[L[i]].locale_dirs =>
            /\ Name(L, i) \notin CatalogKeys
            /\ Decl[L[i]].texts \subseteq {Name(L, i)}

-----------------------------------------------------------------------------
(* Commands: load_all_commands and register_command.  A package is         *)
(* imported once, whoever names it; two do not register the same command.  *)

CommandPackages(L) ==
    {"lilla_core.commands"} \cup UNION {Decl[L[i]].command_packages : i \in DOMAIN L}

ValidCommands(L) ==
    \A p, q \in CommandPackages(L) : CommandsOf[p] \cap CommandsOf[q] # {} => p = q

-----------------------------------------------------------------------------
(* Registration.                                                           *)

Valid(L) ==
    /\ ValidNames(L)
    /\ ValidApiVersions(L)
    /\ NoRemovedMethods(L)
    /\ ValidRequires(L)
    /\ ValidConfigModels(L)
    /\ ValidUnique(L, "env") /\ ValidNeeds(L, "env")
    /\ ValidUnique(L, "context") /\ ValidNeeds(L, "context")
    /\ ValidUnique(L, "delivery")
    /\ ValidDashboard(L)
    /\ ValidHttpRoutes(L)
    /\ ValidCatalogs(L)

Clients == UNION {Decl[e].hooks : e \in Exts}

Sections(L, kinds) == {Name(L, i) : i \in {j \in DOMAIN L : Decl[L[j]].section \in kinds}}

\* The registries set_extensions fills from a list it accepted.
Registered(L) ==
    [extensions |-> L,
     unique |-> [kind \in UniqueKinds |-> MergeUnique(L, kind)],
     hooks |-> [client \in Clients |-> MergeLists(L, client)],
     sections |-> Sections(L, {"optional", "required"}),
     pages |-> Pages(L),
     routes |-> _collect_http_routes(L)]

-----------------------------------------------------------------------------
(* compose_config: lilla.yaml read against the declared sections.  A yaml  *)
(* is [extensions, top: the sections it holds there, llm: the providers].  *)

\* LlmConfig: the default exists; whatever writes or decides for another
\* provider leads to one that is asked itself.
ValidLlm(llm) ==
    /\ llm.default \in DOMAIN llm.providers
    /\ DOMAIN llm.providers \cap ReservedProviders = {}
    /\ \A p \in DOMAIN llm.providers :
          LET target == llm.providers[p].target IN
              \/ llm.providers[p].type # "resolver" /\ target = "none"
              \/ /\ target \in DOMAIN llm.providers
                 /\ llm.providers[target].type # "resolver"

Composes(L, yaml) ==
    /\ Sections(L, {"required"}) \subseteq yaml.extensions
    /\ yaml.extensions \subseteq Sections(L, {"optional", "required"})
    /\ yaml.top \cap Sections(L, {"optional", "required"}) \subseteq CoreSections
    /\ ValidLlm(yaml.llm)
=============================================================================
