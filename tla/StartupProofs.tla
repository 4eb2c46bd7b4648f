---------------------------- MODULE StartupProofs ----------------------------
(***************************************************************************)
(* The start of the process, for any extensions, lists of them, settings   *)
(* and tools: what is registered, that everything is set up before         *)
(* anything is served, which routes answer, which jobs there are and which *)
(* tools a conversation is offered.                                        *)
(*                                                                         *)
(* StartInv says that the registries hold an accepted list or nothing      *)
(* (LoadedAccepted), that nothing goes on before the last extension is set *)
(* up (QuietUntilSetUp), and which jobs there are (JobsOfTools).           *)
(***************************************************************************)
EXTENDS Startup, DataLemmas

-----------------------------------------------------------------------------
(* Lists of extensions.                                                    *)

LEMMA ImportedList ==
    ASSUME NEW spec \in Seq(Seq(STRING)), Imports(spec)
    PROVE  Imported(spec) \in Seq(Exts)
<1>1. Imported(spec) = [i \in 1 .. Len(spec) |-> _import_extension_module(spec[i])]
    BY DEF Imported
<1>2. \A i \in 1 .. Len(spec) : _import_extension_module(spec[i]) \in Exts
    <2>1. \A i \in 1 .. Len(spec) : Imported(spec)[i] \in Exts
        BY DEF Imports
    <2>. QED  BY <1>1, <2>1
<1>. QED  BY <1>1, <1>2

LEMMA NothingRegistered == Valid(<< >>) /\ << >> \in Seq(Exts)
<1>1. \A kind : Provided(<< >>, kind) = {}
    BY DEF Provided
<1>2. _collect_http_routes(<< >>) = << >>
    BY DEF _collect_http_routes, FlattenSeq
<1>3. ValidNames(<< >>) /\ ValidApiVersions(<< >>) /\ NoRemovedMethods(<< >>)
    BY DEF ValidNames, ValidApiVersions, NoRemovedMethods
<1>4. ValidRequires(<< >>) /\ ValidConfigModels(<< >>) /\ ValidCatalogs(<< >>)
    BY DEF ValidRequires, ValidConfigModels, ValidCatalogs
<1>5. \A kind : ValidUnique(<< >>, kind) /\ ValidNeeds(<< >>, kind)
    BY <1>1 DEF ValidUnique, ValidNeeds
<1>6. ValidDashboard(<< >>) /\ ValidHttpRoutes(<< >>)
    BY <1>2 DEF ValidDashboard, ValidHttpRoutes
<1>. QED  BY <1>3, <1>4, <1>5, <1>6 DEF Valid

LEMMA MergeUniqueKey ==
    ASSUME NEW L \in Seq(Exts), NEW kind, ValidUnique(L, kind),
           NEW key \in DOMAIN MergeUnique(L, kind)
    PROVE  /\ key \notin Reserved[kind]
           /\ {e \in ToSet(L) : key \in Decl[e].provides[kind]} = {MergeUnique(L, kind)[key]}
<1>1. key \in Provided(L, kind)
    BY DEF MergeUnique
<1>2. PICK i \in DOMAIN L : key \in Decl[L[i]].provides[kind]
    BY <1>1 DEF Provided
<1>3. \A j \in DOMAIN L : key \in Decl[L[j]].provides[kind] => j = i
    BY <1>2 DEF ValidUnique
<1>4. (CHOOSE j \in DOMAIN L : key \in Decl[L[j]].provides[kind]) = i
    BY <1>2, <1>3
<1>5. MergeUnique(L, kind)[key] = L[i]
    BY <1>1, <1>4 DEF MergeUnique
<1>6. {e \in ToSet(L) : key \in Decl[e].provides[kind]} = {L[i]}
    BY <1>2, <1>3 DEF ToSet
<1>7. key \notin Reserved[kind]
    BY <1>1 DEF ValidUnique
<1>. QED  BY <1>5, <1>6, <1>7

LEMMA PagesDiffer ==
    ASSUME NEW L \in Seq(Exts), ValidNames(L)
    PROVE  IsInjective(Pages(L))
<1>1. \A m, n : PageHash(Decl[L[m]]) = PageHash(Decl[L[n]]) => Name(L, m) = Name(L, n)
    BY DEF PageHash, Name
<1>2. \A i, j \in DOMAIN L : PageHash(Decl[L[i]]) = PageHash(Decl[L[j]]) => i = j
    BY <1>1 DEF ValidNames
<1>. QED  BY <1>2 DEF Pages, IsInjective

LEMMA PathsOfOne ==
    ASSUME NEW L \in Seq(Exts), ValidNames(L), ValidDashboard(L),
           NEW i \in DOMAIN L, NEW j \in DOMAIN L,
           NEW path \in Decl[L[i]].dashboard_routes \cup Decl[L[i]].dashboard_public_routes,
           Under(ApiPrefix(Name(L, j)), path) \/ Under(PublicPrefix(Name(L, j)), path)
    PROVE  i = j
<1>1. \A name : /\ Under(ApiPrefix(name), path) => path[1] = "api" /\ path[2] = name
                /\ Under(PublicPrefix(name), path) => path[1] = "oauth" /\ path[2] = name
    BY DEF Under, ApiPrefix, PublicPrefix, IsPrefix
<1>2. path[2] = Name(L, j)
    BY <1>1
<1>3. path[2] = Name(L, i)
    BY <1>1 DEF ValidDashboard, Name
<1>. QED  BY <1>2, <1>3 DEF ValidNames

-----------------------------------------------------------------------------
(* What is loaded, and that nothing goes on before the set-up is over.     *)

Early == {"import", "register"}
Loaded == IF phase \in Early \/ exit \in Early THEN << >> ELSE Imported(launch.spec)

Quiet ==
    /\ open = {} /\ hook = 0 /\ scheduler = FALSE
    /\ \A r \in 1 .. Readies : ready[r] = 0
    /\ \A t \in AllTools : runs[t] = 0

\* Only an accepted list is registered.
LoadedAccepted ==
    /\ launch \in Launches
    /\ phase # "down" => exit = "none"
    /\ phase = "register" => Imports(launch.spec)
    /\ Loaded \in Seq(Exts) /\ Valid(Loaded)
    /\ registry = Registered(Loaded)

\* Until the last extension is set up nothing is open, called or scheduled.
QuietUntilSetUp ==
    /\ setups \in 0 .. Len(Loaded)
    /\ phase \in {"import", "register", "compose", "tools"} => setups = 0
    /\ phase \in {"import", "register", "compose", "tools", "setup"} => Quiet
    /\ phase \in {"dashboard", "http", "login", "connected", "stopping"} => setups = Len(Loaded)
    /\ Quiet \/ setups = Len(Loaded)
    /\ phase \in Phases

\* The jobs are those of the tools, which no longer change.
JobsOfTools ==
    /\ tools \subseteq AllTools
    /\ jobs = IF scheduler THEN SetToSeq(Scheduled) ELSE << >>

StartInv == LoadedAccepted /\ QuietUntilSetUp /\ JobsOfTools

LEMMA ExtendedLoaded ==
    ASSUME LoadedAccepted
    PROVE  /\ Extended = Loaded
           /\ registry.unique = [kind \in UniqueKinds |-> MergeUnique(Loaded, kind)]
           /\ registry.pages = Pages(Loaded)
           /\ registry.routes = _collect_http_routes(Loaded)
    BY DEF LoadedAccepted, Registered, Extended

\* Once a list is accepted it stays.
LEMMA LoadedStays ==
    ASSUME LoadedAccepted, UNCHANGED << launch, registry >>,
           \/ UNCHANGED << phase, exit >>
           \/ /\ phase \notin Early \cup {"down"}
              /\ phase' \notin Early
              /\ exit' = IF phase' = "down" THEN phase ELSE exit
           \/ phase = "stopping" /\ phase' = "down" /\ UNCHANGED exit
    PROVE  LoadedAccepted' /\ Loaded' = Loaded
<1>1. Loaded' = Loaded
    BY DEF LoadedAccepted, Loaded, Early
<1>2. (phase' # "down" => exit' = "none") /\ (phase' = "register" => Imports(launch'.spec))
    BY DEF LoadedAccepted, Early
<1>. QED  BY <1>1, <1>2 DEF LoadedAccepted

-----------------------------------------------------------------------------
(* The steps of loading.                                                   *)

LEMMA InitStarts ==
    ASSUME Init
    PROVE  StartInv
<1>1. Loaded = << >>
    BY DEF Init, Loaded, Early
<1>2. LoadedAccepted
    BY <1>1, NothingRegistered DEF Init, LoadedAccepted
<1>3. Quiet
    BY DEF Init, Quiet
<1>4. QuietUntilSetUp
    BY <1>1, <1>3 DEF Init, QuietUntilSetUp, Phases
<1>5. JobsOfTools
    BY DEF Init, JobsOfTools
<1>. QED  BY <1>2, <1>4, <1>5 DEF StartInv

LEMMA ImportsKeeps ==
    ASSUME StartInv, ImportsExtensions
    PROVE  StartInv'
<1>. USE DEF StartInv
<1>1. Loaded = << >> /\ Loaded' = << >>
    BY DEF ImportsExtensions, Loaded, Early, Fails
<1>2. LoadedAccepted'
    BY <1>1 DEF ImportsExtensions, LoadedAccepted, Fails, loaded
<1>3. Quiet'
    BY DEF ImportsExtensions, QuietUntilSetUp, Quiet, serving
<1>4. QuietUntilSetUp'
    BY <1>1, <1>3 DEF ImportsExtensions, QuietUntilSetUp, Phases, Fails
<1>5. JobsOfTools'
    BY DEF ImportsExtensions, JobsOfTools, Scheduled, Configs, Extended, serving, loaded
<1>. QED  BY <1>2, <1>4, <1>5

LEMMA RegistersKeeps ==
    ASSUME StartInv, set_extensions
    PROVE  StartInv'
<1>. USE DEF StartInv
<1>. DEFINE L == Imported(launch.spec)
<1>1. launch' = launch /\ phase = "register" /\ exit = "none" /\ Imports(launch.spec)
    BY DEF set_extensions, LoadedAccepted, loaded
<1>2. L \in Seq(Exts)
    BY <1>1, ImportedList, LaunchesAssumption DEF LoadedAccepted
<1>3. Loaded = << >>
    BY <1>1 DEF Loaded, Early
<1>4. Loaded' \in Seq(Exts) /\ LoadedAccepted'
    <2>1. CASE Valid(L)
        <3>1. Loaded' = L
            BY <1>1, <2>1 DEF set_extensions, Loaded, Early
        <3>. QED  BY <1>1, <1>2, <2>1, <3>1 DEF set_extensions, LoadedAccepted
    <2>2. CASE ~Valid(L)
        <3>1. Loaded' = << >>
            BY <1>1, <2>2 DEF set_extensions, Loaded, Early, Fails
        <3>. QED  BY <1>1, <1>3, <2>2, <3>1, NothingRegistered
                  DEF set_extensions, LoadedAccepted, Fails
    <2>. QED  BY <2>1, <2>2
<1>5. Quiet'
    BY DEF set_extensions, QuietUntilSetUp, Quiet, serving
<1>6. QuietUntilSetUp'
    <2>1. setups' = 0 /\ phase' \in {"compose", "down"}
        BY DEF set_extensions, QuietUntilSetUp, Fails
    <2>2. Len(Loaded') \in Nat
        BY <1>4
    <2>. QED  BY <1>5, <2>1, <2>2 DEF QuietUntilSetUp, Phases
<1>7. JobsOfTools'
    BY <1>5 DEF set_extensions, JobsOfTools, QuietUntilSetUp, Quiet, serving
<1>. QED  BY <1>4, <1>6, <1>7

LEMMA ComposesKeeps ==
    ASSUME StartInv, ComposesConfig
    PROVE  StartInv'
<1>. USE DEF StartInv
<1>1. LoadedAccepted' /\ Loaded' = Loaded
    BY LoadedStays DEF ComposesConfig, Fails, loaded, Early
<1>2. Quiet'
    BY DEF ComposesConfig, QuietUntilSetUp, Quiet, serving
<1>3. QuietUntilSetUp'
    BY <1>1, <1>2 DEF ComposesConfig, QuietUntilSetUp, Phases, Fails
<1>4. JobsOfTools'
    BY DEF ComposesConfig, JobsOfTools, Scheduled, Configs, Extended, serving, loaded
<1>. QED  BY <1>1, <1>3, <1>4

LEMMA ToolsKnown ==
    ASSUME NEW L \in Seq(Exts), NEW l \in Launches
    PROVE  DOMAIN LoadedTools(L, l.user) \subseteq AllTools
<1>1. DOMAIN LoadedTools(L, l.user) \subseteq DOMAIN resolve_tool_config_files(L, l.user)
    BY DEF LoadedTools
<1>2. DOMAIN resolve_tool_config_files(L, l.user) = Bundled(L) \cup DOMAIN l.user
    BY DEF resolve_tool_config_files
<1>. DEFINE ofExts == UNION {DOMAIN Decl[e].tool_configs : e \in Exts}
            ofUsers == UNION {DOMAIN k.user : k \in Launches}
<1>3. Bundled(L) \subseteq ofExts
    BY DEF Bundled
<1>4. DOMAIN l.user \in {DOMAIN k.user : k \in Launches}
    OBVIOUS
<1>5. DOMAIN l.user \subseteq ofUsers
    BY ONLY <1>4
<1>6. AllTools = ofExts \cup ofUsers
    BY DEF AllTools
<1>. QED  BY ONLY <1>1, <1>2, <1>3, <1>5, <1>6

LEMMA LoadsToolsKeeps ==
    ASSUME StartInv, LoadsTools
    PROVE  StartInv'
<1>. USE DEF StartInv
<1>1. LoadedAccepted' /\ Loaded' = Loaded
    BY LoadedStays DEF LoadsTools, Fails, Early
<1>2. Quiet'
    BY DEF LoadsTools, QuietUntilSetUp, Quiet, serving
<1>3. QuietUntilSetUp'
    BY <1>1, <1>2 DEF LoadsTools, QuietUntilSetUp, Phases, Fails
<1>4. tools' = tools \/ tools' = DOMAIN LoadedTools(Extended, launch.user)
    BY DEF LoadsTools
<1>5. tools' \subseteq AllTools
    BY <1>4, ToolsKnown, ExtendedLoaded DEF LoadedAccepted, JobsOfTools
<1>6. jobs' = << >> /\ ~scheduler'
    BY <1>2 DEF LoadsTools, QuietUntilSetUp, Quiet, JobsOfTools, serving
<1>7. JobsOfTools'
    BY <1>5, <1>6 DEF JobsOfTools
<1>. QED  BY <1>1, <1>3, <1>7

-----------------------------------------------------------------------------
(* The steps of main(), of on_ready, of the tasks and of the messages.     *)

LEMMA MainKeeps ==
    ASSUME StartInv, MainStep
    PROVE  StartInv'
<1>. USE DEF StartInv
<1>1. UNCHANGED << launch, registry, tools, jobs, scheduler >>
    BY DEF MainStep, SetsUp, SetUpFails, SetUpDone, start_dashboard_server,
           start_http_server, ServerFails, LogsIn, BotEnds, stop_http_server, loaded, serving
<1>2. LoadedAccepted' /\ Loaded' = Loaded
    BY <1>1, LoadedStays
       DEF MainStep, SetsUp, SetUpFails, SetUpDone, start_dashboard_server, Fails, Early,
           start_http_server, ServerFails, LogsIn, BotEnds, stop_http_server, LoadedAccepted
<1>3. JobsOfTools'
    BY <1>1 DEF JobsOfTools, Scheduled, Configs, Extended
<1>4. Extended = Loaded /\ Len(Loaded) \in Nat
    BY ExtendedLoaded DEF LoadedAccepted
<1>5. QuietUntilSetUp'
    <2>1. CASE SetsUp \/ SetUpFails \/ SetUpDone
        <3>1. Quiet'
            BY <2>1 DEF SetsUp, SetUpFails, SetUpDone, QuietUntilSetUp, Quiet, serving
        <3>. QED  BY <1>2, <1>4, <2>1, <3>1
                  DEF SetsUp, SetUpFails, SetUpDone, QuietUntilSetUp, Phases, Fails
    <2>2. CASE start_dashboard_server \/ start_http_server \/ ServerFails \/ LogsIn \/ BotEnds
               \/ stop_http_server
        <3>1. setups = Len(Loaded) /\ setups' = setups
            BY <2>2 DEF start_dashboard_server, start_http_server, ServerFails, LogsIn, BotEnds,
                        stop_http_server, QuietUntilSetUp
        <3>2. phase' \in {"http", "login", "connected", "stopping", "down"}
            BY <2>2 DEF start_dashboard_server, start_http_server, ServerFails, LogsIn, BotEnds,
                        stop_http_server, Fails
        <3>. QED  BY <1>2, <1>4, <3>1, <3>2 DEF QuietUntilSetUp, Phases
    <2>. QED  BY <2>1, <2>2 DEF MainStep
<1>. QED  BY <1>2, <1>3, <1>5

\* Whatever goes on is going on only after the set-up is over.
LEMMA GoingOnKeeps ==
    ASSUME StartInv, UNCHANGED << loaded, phase, exit, setups >>, ~Quiet, JobsOfTools'
    PROVE  StartInv'
<1>1. LoadedAccepted' /\ Loaded' = Loaded
    BY LoadedStays DEF loaded, StartInv
<1>2. phase \notin {"import", "register", "compose", "tools", "setup"} /\ setups = Len(Loaded)
    BY DEF StartInv, QuietUntilSetUp
<1>3. QuietUntilSetUp'
    BY <1>1, <1>2 DEF StartInv, QuietUntilSetUp
<1>. QED  BY <1>1, <1>3 DEF StartInv

LEMMA ReadyKeeps ==
    ASSUME StartInv, NEW r \in 1 .. Readies, Ready(r) \/ ReadyStep(r)
    PROVE  StartInv'
<1>. USE DEF StartInv
<1>1. CASE Ready(r)
    <2>1. LoadedAccepted' /\ Loaded' = Loaded
        BY <1>1, LoadedStays DEF Ready, loaded
    <2>2. setups = Len(Loaded) /\ phase = "connected" /\ UNCHANGED << setups, phase >>
        BY <1>1 DEF Ready, QuietUntilSetUp
    <2>3. JobsOfTools'
        BY <1>1 DEF Ready, JobsOfTools, Scheduled, Configs, Extended, loaded
    <2>4. QuietUntilSetUp'
        BY <2>1, <2>2 DEF QuietUntilSetUp
    <2>. QED  BY <2>1, <2>3, <2>4
<1>2. CASE ReadyStep(r)
    <2>1. ~Quiet
        BY <1>2 DEF ReadyStep, FactoryRaises, InitializesRepo, RepoFails, start_scheduler, Quiet
    <2>2. UNCHANGED << loaded, phase, exit, setups >>
        BY <1>2 DEF ReadyStep, FactoryRaises, InitializesRepo, RepoFails, start_scheduler
    <2>3. Scheduled' = Scheduled /\ tools' = tools
        BY <2>2 DEF Scheduled, Configs, Extended, loaded
    <2>4. (scheduler' = scheduler /\ jobs' = jobs) \/ (scheduler' = TRUE /\ jobs' = SetToSeq(Scheduled))
        BY <1>2 DEF ReadyStep, FactoryRaises, InitializesRepo, RepoFails, start_scheduler
    <2>5. JobsOfTools'
        BY <2>3, <2>4 DEF JobsOfTools
    <2>. QED  BY <2>1, <2>2, <2>5, GoingOnKeeps
<1>. QED  BY <1>1, <1>2

LEMMA RunsKeep ==
    ASSUME StartInv, NEW t \in AllTools, _job(t) \/ handle_api_runtask(t) \/ _run_tool(t)
    PROVE  StartInv'
<1>. USE DEF StartInv
<1>1. UNCHANGED << loaded, phase, exit, setups, scheduler, jobs >>
    BY DEF _job, handle_api_runtask, _run_tool, RunStarts
<1>2. JobsOfTools'
    BY <1>1 DEF JobsOfTools, Scheduled, Configs, Extended, loaded
<1>3. ~Quiet
    BY DEF _job, handle_api_runtask, _run_tool, Quiet
<1>. QED  BY <1>1, <1>2, <1>3, GoingOnKeeps

LEMMA MessagesKeep ==
    ASSUME StartInv, MessageArrives \/ HookDeclines \/ HookClaims
    PROVE  StartInv'
<1>. USE DEF StartInv
<1>1. UNCHANGED << loaded, phase, exit, setups, scheduler, jobs >>
    BY DEF MessageArrives, HookDeclines, HookClaims, Hooks
<1>2. JobsOfTools'
    BY <1>1 DEF JobsOfTools, Scheduled, Configs, Extended, loaded
<1>3. CASE MessageArrives
    <2>1. LoadedAccepted' /\ Loaded' = Loaded
        BY <1>1, LoadedStays DEF loaded
    <2>2. setups = Len(Loaded) /\ phase = "connected"
        BY <1>3 DEF MessageArrives, QuietUntilSetUp
    <2>3. QuietUntilSetUp'
        BY <1>1, <2>1, <2>2 DEF QuietUntilSetUp
    <2>. QED  BY <1>2, <2>1, <2>3
<1>4. CASE HookDeclines \/ HookClaims
    <2>1. ~Quiet
        BY <1>4 DEF HookDeclines, HookClaims, Quiet
    <2>. QED  BY <1>1, <1>2, <2>1, GoingOnKeeps
<1>. QED  BY <1>3, <1>4

LEMMA StartKept == Spec => []StartInv
<1>1. Init => StartInv
    BY InitStarts
<1>2. StartInv /\ [Next]_vars => StartInv'
    <2>. SUFFICES ASSUME StartInv, [Next]_vars PROVE StartInv'
        OBVIOUS
    <2>1. CASE Loading
        BY <2>1, ImportsKeeps, RegistersKeeps, ComposesKeeps, LoadsToolsKeeps DEF Loading
    <2>2. CASE MainStep
        BY <2>2, MainKeeps
    <2>3. CASE \E r \in 1 .. Readies : Ready(r) \/ ReadyStep(r)
        BY <2>3, ReadyKeeps
    <2>4. CASE \E t \in AllTools : _job(t) \/ handle_api_runtask(t) \/ _run_tool(t)
        BY <2>4, RunsKeep
    <2>5. CASE MessageArrives \/ HookDeclines \/ HookClaims
        BY <2>5, MessagesKeep
    <2>6. CASE UNCHANGED vars
        BY <2>6 DEF vars, StartInv, LoadedAccepted, QuietUntilSetUp, JobsOfTools, Loaded, Quiet,
                    Scheduled, Configs, Extended
    <2>. QED  BY <2>1, <2>2, <2>3, <2>4, <2>5, <2>6 DEF Next
<1>. QED  BY <1>1, <1>2, PTL DEF Spec

-----------------------------------------------------------------------------
(* What follows from what is loaded.                                       *)

\* All of an accepted list is registered, or nothing.
LEMMA RegistryFollows ==
    ASSUME StartInv
    PROVE  RegistryConsistent
<1>. DEFINE L == Loaded
<1>1. /\ L \in Seq(Exts) /\ Extended = L
      /\ registry.unique = [kind \in UniqueKinds |-> MergeUnique(L, kind)]
      /\ registry.pages = Pages(L)
    BY ExtendedLoaded DEF StartInv, LoadedAccepted
<1>2. Valid(L)
    BY DEF StartInv, LoadedAccepted
<1>3. (phase \in {"import", "register"} \/ exit \in {"import", "register"})
            => registry = Registered(<< >>)
    BY DEF StartInv, LoadedAccepted, Loaded, Early
<1>4. \A kind \in UniqueKinds : registry.unique[kind] = MergeUnique(L, kind)
    BY <1>1
<1>5. \A kind \in UniqueKinds : ValidUnique(L, kind)
    BY <1>2 DEF Valid, UniqueKinds
<1>6. \A kind \in NeededKinds : ValidNeeds(L, kind)
    BY <1>2 DEF Valid, NeededKinds
<1>. HIDE DEF L
<1>7. \A kind \in UniqueKinds : \A key \in DOMAIN registry.unique[kind] :
          /\ key \notin Reserved[kind]
          /\ {e \in ToSet(Extended) : key \in Decl[e].provides[kind]}
                = {registry.unique[kind][key]}
    BY <1>1, <1>4, <1>5, MergeUniqueKey
<1>8. \A e \in ToSet(Extended) : \A kind \in NeededKinds :
          Decl[e].needs[kind] \subseteq DOMAIN registry.unique[kind] \cup Reserved[kind]
    <2>. SUFFICES ASSUME NEW i \in DOMAIN L, NEW kind \in NeededKinds
                  PROVE  Decl[L[i]].needs[kind] \subseteq DOMAIN registry.unique[kind] \cup Reserved[kind]
        BY <1>1 DEF ToSet
    <2>1. DOMAIN registry.unique[kind] = Provided(L, kind)
        BY <1>4 DEF NeededKinds, UniqueKinds, MergeUnique
    <2>. QED  BY <1>6, <2>1 DEF ValidNeeds
<1>9. IsInjective(registry.pages)
    BY <1>1, <1>2, PagesDiffer DEF Valid
<1>10. ValidNames(L) /\ ValidDashboard(L)
    BY <1>2 DEF Valid
<1>11. \A i, j \in DOMAIN Extended :
          LET other == Decl[Extended[j]].name
              declared == Decl[Extended[i]].dashboard_routes
                              \cup Decl[Extended[i]].dashboard_public_routes
          IN  (\E path \in declared :
                  Under(ApiPrefix(other), path) \/ Under(PublicPrefix(other), path)) => i = j
    BY <1>1, <1>10, PathsOfOne DEF Name
<1>. QED  BY <1>3, <1>7, <1>8, <1>9, <1>11 DEF RegistryConsistent

\* What a list accepted requires stands before it.
LEMMA SetUpFollows ==
    ASSUME StartInv
    PROVE  SetUpBeforeServing
<1>1. Extended = Loaded /\ Loaded \in Seq(Exts)
    BY ExtendedLoaded DEF StartInv, LoadedAccepted
<1>2. Quiet \/ setups = Len(Extended)
    BY <1>1 DEF StartInv, QuietUntilSetUp
<1>3. ValidRequires(Loaded)
    BY DEF StartInv, LoadedAccepted, Valid
<1>4. ASSUME setups > 0, NEW name \in Decl[Extended[setups]].requires
      PROVE  \E i \in 1 .. setups - 1 : Decl[Extended[i]].name = name
    <2>1. setups \in DOMAIN Loaded /\ setups \in Nat
        BY <1>1, <1>4 DEF StartInv, QuietUntilSetUp
    <2>2. PICK j \in DOMAIN Loaded : Name(Loaded, j) = name /\ j < setups
        BY <1>1, <1>3, <1>4, <2>1 DEF ValidRequires
    <2>3. j \in 1 .. setups - 1
        BY <1>1, <2>1, <2>2
    <2>. QED  BY <1>1, <2>2, <2>3 DEF Name
<1>. QED  BY <1>2, <1>4 DEF SetUpBeforeServing, Quiet

\* A finite set is listed without repetition, and completely.
LEMMA Listed ==
    ASSUME NEW S, IsFiniteSet(S)
    PROVE  IsInjective(SetToSeq(S)) /\ ToSet(SetToSeq(S)) = S
<1>. DEFINE n == Cardinality(S)
<1>1. n \in Nat /\ ExistsBijection(1 .. n, S)
    BY FS_CardinalityType
<1>2. \E f \in [1 .. n -> S] : IsInjective(f)
    BY <1>1 DEF ExistsBijection, Bijection, Injection, IsInjective
<1>3. SetToSeq(S) \in [1 .. n -> S] /\ IsInjective(SetToSeq(S))
    BY <1>2 DEF SetToSeq
<1>4. SetToSeq(S) \in Injection(1 .. n, S)
    BY <1>3 DEF Injection, IsInjective
<1>5. IsFiniteSet(1 .. n) /\ Cardinality(1 .. n) = n
    BY <1>1, FS_Interval
<1>6. SetToSeq(S) \in Surjection(1 .. n, S)
    BY <1>4, <1>5, FS_Injection
<1>7. ToSet(SetToSeq(S)) = S
    BY <1>3, <1>6 DEF Surjection, ToSet
<1>. QED  BY <1>3, <1>7

LEMMA JobsFollow ==
    ASSUME StartInv
    PROVE  JobsOnce
<1>1. Scheduled \subseteq AllTools
    BY DEF StartInv, JobsOfTools, Scheduled
<1>2. IsFiniteSet(Scheduled)
    BY <1>1, FS_Subset, ToolsAssumption
<1>3. CASE scheduler
    BY <1>2, <1>3, Listed DEF StartInv, JobsOfTools, JobsOnce
<1>4. CASE ~scheduler
    BY <1>4 DEF StartInv, JobsOfTools, JobsOnce, IsInjective, ToSet
<1>. QED  BY <1>3, <1>4

-----------------------------------------------------------------------------
(* Routes.                                                                 *)

RouteFields == [method : STRING, path : STRING, auth : STRING]
ServedRoutes ==
    ToSet(CoreRoutes) \cup {Normalized(e, r) : e \in Exts, r \in RouteFields}

LEMMA RouteRecord ==
    ASSUME NEW r \in ServedRoutes
    PROVE  r = [method |-> r.method, path |-> r.path, auth |-> r.auth, owner |-> r.owner]
<1>1. CASE r \in ToSet(CoreRoutes)
    BY <1>1 DEF CoreRoutes, ToSet
<1>2. CASE r \in {Normalized(e, f) : e \in Exts, f \in RouteFields}
    BY <1>2 DEF Normalized
<1>. QED  BY <1>1, <1>2 DEF ServedRoutes

LEMMA CoreServed == CoreRoutes \in Seq(ServedRoutes)
    BY DEF CoreRoutes, ServedRoutes, ToSet

LEMMA ElementsServed ==
    ASSUME NEW routes \in Seq(ServedRoutes), NEW r \in ToSet(CoreRoutes \o routes)
    PROVE  r \in ServedRoutes
<1>1. CoreRoutes \o routes \in Seq(ServedRoutes)
    BY CoreServed
<1>. QED  BY <1>1 DEF ToSet

\* What an extension declares is what the registry holds of it.
LEMMA CollectedRoutes ==
    ASSUME NEW L \in Seq(Exts)
    PROVE  /\ _collect_http_routes(L) \in Seq(ServedRoutes)
           /\ \A x \in ToSet(_collect_http_routes(L)) :
                 \E i \in DOMAIN L : \E n \in DOMAIN Decl[L[i]].http_routes :
                     x = Normalized(L[i], Decl[L[i]].http_routes[n])
<1>. DEFINE of(i) == [n \in DOMAIN Decl[L[i]].http_routes |->
                          Normalized(L[i], Decl[L[i]].http_routes[n])]
            ss == [i \in DOMAIN L |-> of(i)]
<1>1. \A i \in 1 .. Len(L) : of(i) \in Seq(ServedRoutes)
    <2>. SUFFICES ASSUME NEW i \in 1 .. Len(L) PROVE of(i) \in Seq(ServedRoutes)
        OBVIOUS
    <2>1. L[i] \in Exts /\ Decl[L[i]].http_routes \in Seq(RouteFields)
        BY DeclAssumption DEF RouteFields
    <2>2. \A n \in 1 .. Len(Decl[L[i]].http_routes) :
              Normalized(L[i], Decl[L[i]].http_routes[n]) \in ServedRoutes
        BY <2>1 DEF ServedRoutes
    <2>. QED  BY <2>1, <2>2
<1>2. ss \in Seq(Seq(ServedRoutes)) /\ Len(ss) = Len(L)
    BY <1>1
<1>3. _collect_http_routes(L) = FlattenSeq(ss)
    BY DEF _collect_http_routes
<1>4. \A i \in DOMAIN L : \A x \in ToSet(ss[i]) :
          \E n \in DOMAIN Decl[L[i]].http_routes : x = Normalized(L[i], Decl[L[i]].http_routes[n])
    BY DEF ToSet
<1>. HIDE DEF ss
<1>5. /\ FlattenSeq(ss) \in Seq(ServedRoutes)
      /\ \A x \in ToSet(FlattenSeq(ss)) : \E i \in 1 .. Len(L) : x \in ToSet(ss[i])
    BY <1>2, FlattenSeqElements
<1>. QED  BY <1>3, <1>4, <1>5

\* The table has the declared routes, the GETs as HEAD too, and nothing else.
LEMMA TableRows ==
    ASSUME NEW routes \in Seq(ServedRoutes)
    PROVE  /\ \E Rows : build_http_app(routes) \in Seq(Rows)
           /\ \A x : x \in ToSet(build_http_app(routes)) <=>
                 \E r \in ToSet(CoreRoutes \o routes) :
                     x = r \/ (r.method = "GET" /\ x = [r EXCEPT !.method = "HEAD"])
<1>. DEFINE all == CoreRoutes \o routes
            Rows == ServedRoutes \cup {[r EXCEPT !.method = "HEAD"] : r \in ServedRoutes}
            ss == [i \in DOMAIN all |-> _add_route(all[i])]
<1>1. all \in Seq(ServedRoutes)
    BY CoreServed
<1>. HIDE DEF all
<1>2. \A r \in ServedRoutes : _add_route(r) \in Seq(Rows)
    <2>. SUFFICES ASSUME NEW r \in ServedRoutes PROVE _add_route(r) \in Seq(Rows)
        OBVIOUS
    <2>1. r \in Rows /\ [r EXCEPT !.method = "HEAD"] \in Rows
        OBVIOUS
    <2>. HIDE DEF Rows
    <2>2. << r, [r EXCEPT !.method = "HEAD"] >> \in Seq(Rows) /\ << r >> \in Seq(Rows)
        BY <2>1
    <2>. QED  BY <2>2 DEF _add_route
<1>. HIDE DEF Rows
<1>3. ss \in Seq(Seq(Rows)) /\ Len(ss) = Len(all)
    <2>1. ss = [i \in 1 .. Len(all) |-> _add_route(all[i])]
        BY <1>1
    <2>2. \A i \in 1 .. Len(all) : all[i] \in ServedRoutes
        BY <1>1
    <2>3. \A i \in 1 .. Len(all) : _add_route(all[i]) \in Seq(Rows)
        BY <1>2, <2>2
    <2>. HIDE DEF ss
    <2>. QED  BY <1>1, <2>1, <2>3
<1>4. build_http_app(routes) = FlattenSeq(ss)
    BY DEF build_http_app, all
<1>5. \A r : \A x : x \in ToSet(_add_route(r)) <=>
                         x = r \/ (r.method = "GET" /\ x = [r EXCEPT !.method = "HEAD"])
    BY DEF _add_route, ToSet
<1>6. \A i \in 1 .. Len(all) : ss[i] = _add_route(all[i])
    BY <1>1
<1>. HIDE DEF ss
<1>7. /\ FlattenSeq(ss) \in Seq(Rows)
      /\ \A x : x \in ToSet(FlattenSeq(ss)) <=> \E i \in 1 .. Len(all) : x \in ToSet(ss[i])
    BY <1>3, FlattenSeqElements
<1>8. \A r : r \in ToSet(all) <=> \E i \in 1 .. Len(all) : r = all[i]
    BY <1>1 DEF ToSet
<1>9. \A x : x \in ToSet(build_http_app(routes)) <=>
                 \E r \in ToSet(all) : x \in ToSet(_add_route(r))
    BY <1>4, <1>6, <1>7, <1>8
<1>. QED  BY <1>4, <1>5, <1>7, <1>9 DEF all

\* A request gets a row that takes it, a literal one if there is any.
LEMMA RouteOfTakes ==
    ASSUME NEW Rows, NEW table \in Seq(Rows), NEW method, NEW target
    PROVE  LET i == RouteOf(table, method, target)
               all == Candidates(table, method, target) IN
           /\ i # 0 => i \in all
           /\ \A k \in all : Literal(table[k].path) => i \in all /\ Literal(table[i].path)
<1>. DEFINE all == Candidates(table, method, target)
            literal == {i \in all : Literal(table[i].path)}
            first == IF literal # {} THEN literal ELSE all
            i == RouteOf(table, method, target)
<1>1. all \subseteq 1 .. Len(table)
    BY DEF Candidates
<1>. HIDE DEF all
<1>2. CASE all = {}
    BY <1>2 DEF RouteOf, all
<1>3. CASE all # {}
    <2>0. literal \subseteq all
        OBVIOUS
    <2>1. first # {} /\ first \subseteq Nat
        <3>. HIDE DEF literal
        <3>. QED  BY <1>1, <1>3, <2>0
    <2>2. i = CHOOSE k \in first : \A j \in first : k <= j
        BY <1>3 DEF RouteOf, all
    <2>3. i \in first
        BY <2>1, <2>2, Least
    <2>. QED  BY <2>3 DEF all
<1>. QED  BY <1>2, <1>3

\* Of the declared routes no two overlap, so what overlaps has one owner.
LEMMA OverlapsOwn ==
    ASSUME NEW L \in Seq(Exts), ValidHttpRoutes(L),
           NEW a \in ToSet(CoreRoutes \o _collect_http_routes(L)),
           NEW b \in ToSet(CoreRoutes \o _collect_http_routes(L)),
           _http_routes_overlap(a, b)
    PROVE  a.owner = b.owner
<1>. DEFINE routes == _collect_http_routes(L)
<1>1. routes \in Seq(ServedRoutes) /\ CoreRoutes \in Seq(ServedRoutes)
    BY CollectedRoutes, CoreServed
<1>2. _http_routes_overlap(b, a)
    BY DEF _http_routes_overlap
<1>3. \A x \in ToSet(CoreRoutes) :
          x.owner = "core" /\ [method |-> x.method, path |-> x.path] \in CORE_HTTP_ROUTES
    BY DEF CoreRoutes, CORE_HTTP_ROUTES, ToSet
<1>4. \A x \in ToSet(CoreRoutes), y \in ToSet(routes) : ~_http_routes_overlap(y, x)
    <2>. SUFFICES ASSUME NEW x \in ToSet(CoreRoutes), NEW i \in DOMAIN routes
                  PROVE  ~_http_routes_overlap(routes[i], x)
        BY DEF ToSet
    <2>1. ~_http_routes_overlap(routes[i], [method |-> x.method, path |-> x.path])
        BY <1>3 DEF ValidHttpRoutes
    <2>. QED  BY <2>1 DEF _http_routes_overlap
<1>5. ASSUME a \in ToSet(routes), b \in ToSet(routes) PROVE a = b
    <2>1. PICK i \in 1 .. Len(routes), j \in 1 .. Len(routes) : a = routes[i] /\ b = routes[j]
        BY <1>1, <1>5 DEF ToSet
    <2>2. \A k \in 1 .. Len(routes) : \A m \in 1 .. k - 1 :
              ~_http_routes_overlap(routes[k], routes[m])
        BY <1>1 DEF ValidHttpRoutes
    <2>3. i \in 1 .. j - 1 \/ j \in 1 .. i - 1 \/ i = j
        BY <1>1
    <2>. QED  BY <1>2, <2>1, <2>2, <2>3
<1>6. \A x \in {a, b} : x \in ToSet(CoreRoutes) \/ x \in ToSet(routes)
    BY <1>1, ElementsOfBoth
<1>. QED  BY <1>2, <1>3, <1>4, <1>5, <1>6

\* What a handler answers, it answers for a declared route that is open.
LEMMA OpenAnswers ==
    ASSUME NEW routes \in Seq(ServedRoutes), NEW method, NEW target,
           Answer(build_http_app(routes), method, target, FALSE)
                \notin {"preflight", "unauthorized"}
    PROVE  \E route \in ToSet(CoreRoutes \o routes) :
              /\ Stands(route, method, target)
              /\ route.owner = Answer(build_http_app(routes), method, target, FALSE)
              /\ route.auth # "bearer"
<1>. DEFINE table == build_http_app(routes)
            i == RouteOf(table, method, target)
<1>1. i # 0 /\ table[i].auth \in {"public", "deferred"}
          /\ Answer(table, method, target, FALSE) = table[i].owner
    BY DEF Answer
<1>. HIDE DEF table
<1>2. PICK Rows : table \in Seq(Rows)
    BY TableRows DEF table
<1>. HIDE DEF i
<1>3. i \in Candidates(table, method, target)
    BY <1>1, <1>2, RouteOfTakes DEF i
<1>4. table[i] \in ToSet(table)
    BY <1>3 DEF Candidates, ToSet
<1>5. PICK r \in ToSet(CoreRoutes \o routes) :
          table[i] = r \/ (r.method = "GET" /\ table[i] = [r EXCEPT !.method = "HEAD"])
    BY <1>4, TableRows DEF table
<1>6. r \in ServedRoutes
    BY ElementsServed
<1>7. /\ table[i].path = r.path /\ table[i].auth = r.auth /\ table[i].owner = r.owner
      /\ table[i].method = r.method \/ (r.method = "GET" /\ table[i].method = "HEAD")
    BY <1>5, <1>6, RouteRecord
<1>8. Stands(r, method, target)
    BY <1>3, <1>7 DEF Candidates, Stands
<1>. QED  BY <1>1, <1>7, <1>8 DEF table

\* A literal route gets its requests itself.
LEMMA LiteralReached ==
    ASSUME NEW L \in Seq(Exts), ValidHttpRoutes(L),
           NEW route \in ToSet(CoreRoutes \o _collect_http_routes(L)), Literal(route.path)
    PROVE  LET table == build_http_app(_collect_http_routes(L)) IN
           \E method \in Methods :
              /\ Stands(route, method, route.path)
              /\ table[RouteOf(table, method, route.path)].owner = route.owner
<1>. DEFINE routes == _collect_http_routes(L)
            table == build_http_app(routes)
            method == IF route.method = "*" THEN "GET" ELSE route.method
            i == RouteOf(table, method, route.path)
<1>1. routes \in Seq(ServedRoutes)
    BY CollectedRoutes
<1>2. method \in Methods
    <2>1. CASE route \in ToSet(CoreRoutes)
        BY <2>1 DEF CoreRoutes, ToSet, Methods
    <2>2. CASE route \in ToSet(routes)
        <3>1. PICK j \in DOMAIN L : \E n \in DOMAIN Decl[L[j]].http_routes :
                  route = Normalized(L[j], Decl[L[j]].http_routes[n])
            BY <2>2, CollectedRoutes
        <3>2. PICK n \in DOMAIN Decl[L[j]].http_routes :
                  route = Normalized(L[j], Decl[L[j]].http_routes[n])
            BY <3>1
        <3>3. route.method = Upper[Decl[L[j]].http_routes[n].method]
              /\ Decl[L[j]].http_routes[n].method \in DOMAIN Upper
            BY <3>2 DEF ValidHttpRoutes, ValidRoute, Normalized
        <3>. QED  BY <3>3 DEF Methods, Range
    <2>. QED  BY <1>1, <2>1, <2>2, ElementsOfBoth, CoreServed
<1>3. Stands(route, method, route.path)
    BY DEF Stands, Literal
<1>4. /\ route \in ToSet(table)
      /\ \A x \in ToSet(table) : \E r \in ToSet(CoreRoutes \o routes) :
             x = r \/ (r.method = "GET" /\ x = [r EXCEPT !.method = "HEAD"])
    BY <1>1, TableRows
<1>5. PICK Rows : table \in Seq(Rows)
    BY <1>1, TableRows
<1>. HIDE DEF table
<1>6. PICK k \in DOMAIN table : table[k] = route
    BY <1>4 DEF ToSet
<1>7. k \in Candidates(table, method, route.path)
    BY <1>6 DEF Candidates, Literal
<1>. HIDE DEF method
<1>8. i \in Candidates(table, method, route.path) /\ Literal(table[i].path)
    BY <1>5, <1>6, <1>7, RouteOfTakes
<1>9. table[i].path = route.path /\ table[i].method \in {method, "*"} /\ table[i] \in ToSet(table)
    BY <1>8 DEF Candidates, Literal, ToSet
<1>. HIDE DEF i
<1>10. PICK r \in ToSet(CoreRoutes \o routes) :
           table[i] = r \/ (r.method = "GET" /\ table[i] = [r EXCEPT !.method = "HEAD"])
    BY <1>4, <1>9
<1>11. /\ table[i].path = r.path /\ table[i].owner = r.owner
       /\ table[i].method = r.method \/ (r.method = "GET" /\ table[i].method = "HEAD")
    BY <1>1, <1>10, RouteRecord, ElementsServed
<1>12. _http_routes_overlap(route, r)
    BY <1>9, <1>11 DEF _http_routes_overlap, SameAsGet, method
<1>13. route.owner = r.owner
    BY <1>12, OverlapsOwn
<1>. QED  BY <1>2, <1>3, <1>11, <1>13 DEF table, i

LEMMA RoutesFollow ==
    ASSUME StartInv
    PROVE  RoutesServedAsDeclared
<1>1. /\ Loaded \in Seq(Exts) /\ ValidHttpRoutes(Loaded)
      /\ registry.routes = _collect_http_routes(Loaded)
    BY ExtendedLoaded DEF StartInv, LoadedAccepted, Valid
<1>2. registry.routes \in Seq(ServedRoutes)
    BY <1>1, CollectedRoutes
<1>3. ASSUME NEW method \in Methods, NEW target \in UNION Range(Matches)
      PROVE  LET answer == Answer(HttpTable, method, target, FALSE) IN
                  answer \in {"preflight", "unauthorized"}
                      \/ \E route \in DeclaredTable :
                            /\ Stands(route, method, target)
                            /\ route.owner = answer /\ route.auth # "bearer"
    BY <1>2, OpenAnswers DEF HttpTable, DeclaredTable
<1>4. ASSUME NEW route \in DeclaredTable, Literal(route.path)
      PROVE  \E method \in Methods :
                  /\ Stands(route, method, route.path)
                  /\ HttpTable[RouteOf(HttpTable, method, route.path)].owner = route.owner
    BY <1>1, <1>4, LiteralReached DEF HttpTable, DeclaredTable
<1>. QED  BY <1>3, <1>4 DEF RoutesServedAsDeclared

-----------------------------------------------------------------------------
(* Sets of tools: what the expansion of a set, which stops at a cycle,     *)
(* has to do with the sets that can be reached from it.                    *)

SetsGiven(sets) ==
    /\ sets \in [DOMAIN sets -> Seq({"tool", "set"} \X STRING)]
    /\ DOMAIN sets \subseteq STRING /\ IsFiniteSet(DOMAIN sets)

LEMMA StackSteps ==
    ASSUME NEW names, IsFiniteSet(names), NEW s \in Stacks(names)
    PROVE  /\ s \in Seq(names) /\ Len(s) \in 1 .. Cardinality(names) /\ Cardinality(names) \in Nat
           /\ Last(s) \in names /\ Last(s) \in ToSet(s) /\ ToSet(s) \subseteq names
           /\ \A c \in names \ ToSet(s) :
                 /\ Append(s, c) \in Stacks(names)
                 /\ Last(Append(s, c)) = c /\ Len(Append(s, c)) = Len(s) + 1
                 /\ ToSet(Append(s, c)) = ToSet(s) \cup {c}
<1>. DEFINE n == Cardinality(names)
<1>1. n \in Nat
    BY FS_CardinalityType
<1>2. PICK m \in 0 .. n : s \in [1 .. m -> names]
    BY DEF Stacks, SeqOf
<1>3. s # << >> /\ IsInjective(s)
    BY DEF Stacks
<1>4. s \in Seq(names) /\ Len(s) = m /\ m \in Nat
    BY <1>1, <1>2
<1>5. m # 0
    BY <1>3, <1>4
<1>6. Last(s) \in names /\ Last(s) \in ToSet(s) /\ ToSet(s) \subseteq names
    BY <1>2, <1>4, <1>5 DEF Last, ToSet
<1>7. ASSUME NEW c \in names \ ToSet(s)
      PROVE  /\ Append(s, c) \in Stacks(names)
             /\ Last(Append(s, c)) = c /\ Len(Append(s, c)) = Len(s) + 1
             /\ ToSet(Append(s, c)) = ToSet(s) \cup {c}
    <2>. DEFINE t == Append(s, c)
    <2>1. /\ t \in Seq(names) /\ Len(t) = m + 1 /\ t[m + 1] = c
          /\ \A i \in 1 .. m : t[i] = s[i]
        BY <1>4
    <2>2. \A i \in 1 .. m : s[i] # c
        BY <1>4 DEF ToSet
    <2>. HIDE DEF t
    <2>3. t \in [1 .. m + 1 -> names] /\ DOMAIN t = 1 .. m + 1
        BY <1>4, <2>1
    <2>4. \A i \in 1 .. m + 1 : i \in 1 .. m \/ i = m + 1
        BY <1>4
    <2>5. \A i, j \in 1 .. m : s[i] = s[j] => i = j
        BY <1>3, <1>4 DEF IsInjective
    <2>6. IsInjective(t)
        BY <2>1, <2>2, <2>3, <2>4, <2>5 DEF IsInjective
    <2>7. t \in Injection(1 .. m + 1, names)
        BY <2>3, <2>6 DEF Injection, IsInjective
    <2>8. Cardinality(1 .. m + 1) <= n
        BY <2>7, FS_Injection
    <2>9. Cardinality(1 .. m + 1) = m + 1
        BY <1>4, FS_Interval
    <2>10. m + 1 \in 0 .. n
        BY <1>1, <1>4, <2>8, <2>9
    <2>11. t \in Stacks(names)
        BY <2>1, <2>3, <2>6, <2>10, <1>4 DEF Stacks, SeqOf
    <2>12. ToSet(t) = ToSet(s) \cup {c}
        BY <2>1, <2>3, <2>4, <1>4 DEF ToSet
    <2>. QED  BY <1>4, <2>1, <2>11, <2>12 DEF Last, t
<1>. QED  BY <1>1, <1>4, <1>5, <1>6, <1>7

\* What holds of a stack once it holds of all that are one set longer holds of all.
LEMMA StackInduction ==
    ASSUME NEW names, IsFiniteSet(names), NEW Good,
           \A s \in Stacks(names) :
               (\A c \in names \ ToSet(s) : Append(s, c) \in Good) => s \in Good
    PROVE  Stacks(names) \subseteq Good
<1>. DEFINE n == Cardinality(names)
            Bad == {s \in Stacks(names) : s \notin Good}
            Room == {n - Len(s) : s \in Bad}
<1>. SUFFICES ASSUME Bad # {} PROVE FALSE
    OBVIOUS
<1>1. \A s \in Stacks(names) : n - Len(s) \in Nat
    <2>. SUFFICES ASSUME NEW s \in Stacks(names) PROVE n - Len(s) \in Nat
        OBVIOUS
    <2>1. Len(s) \in 1 .. n /\ n \in Nat
        BY StackSteps
    <2>. HIDE DEF n
    <2>. QED  BY <2>1
<1>2. Room \subseteq Nat /\ Room # {}
    BY <1>1
<1>3. PICK r \in Room : \A q \in Room : r <= q
    BY <1>2, Least
<1>4. PICK s \in Bad : r = n - Len(s)
    OBVIOUS
<1>5. ASSUME NEW c \in names \ ToSet(s) PROVE Append(s, c) \in Good
    <2>1. Append(s, c) \in Stacks(names) /\ n - Len(Append(s, c)) < r
        BY <1>4, StackSteps
    <2>2. r \in Nat /\ n - Len(Append(s, c)) \in Nat
        BY <1>1, <1>2, <2>1
    <2>3. Append(s, c) \in Bad => r <= n - Len(Append(s, c))
        BY <1>3
    <2>4. Append(s, c) \notin Bad
        BY <2>1, <2>2, <2>3
    <2>. QED  BY <2>1, <2>4
<1>. QED  BY <1>4, <1>5

LEMMA SingleStack ==
    ASSUME NEW sets, SetsGiven(sets), NEW a \in DOMAIN sets
    PROVE  /\ << a >> \in Stacks(DOMAIN sets)
           /\ Last(<< a >>) = a /\ ToSet(<< a >>) = {a}
<1>. DEFINE n == Cardinality(DOMAIN sets)
<1>1. IsFiniteSet(DOMAIN sets) /\ n \in Nat
    BY FS_CardinalityType DEF SetsGiven
<1>2. n # 0
    BY <1>1, FS_EmptySet
<1>3. 1 \in 0 .. n
    BY <1>1, <1>2
<1>. HIDE DEF n
<1>4. << a >> \in [1 .. 1 -> DOMAIN sets]
    OBVIOUS
<1>5. << a >> # << >> /\ IsInjective(<< a >>)
    BY DEF IsInjective
<1>. QED  BY <1>3, <1>4, <1>5 DEF Stacks, SeqOf, Last, ToSet, n

LEMMA SameExpansion ==
    ASSUME NEW sets, SetsGiven(sets), NEW s \in Stacks(DOMAIN sets), NEW f, NEW g,
           \A c \in DOMAIN sets \ ToSet(s) : f[Append(s, c)] = g[Append(s, c)]
    PROVE  _expand_entries(sets, f, s) = _expand_entries(sets, g, s)
<1>. DEFINE entries == sets[Last(s)]
<1>1. Last(s) \in DOMAIN sets
    BY StackSteps DEF SetsGiven
<1>2. entries \in Seq({"tool", "set"} \X STRING)
    BY <1>1 DEF SetsGiven
<1>. HIDE DEF entries
<1>3. \A e \in {"tool", "set"} \X STRING : Expanded(sets, f, s, e) = Expanded(sets, g, s, e)
    BY DEF Expanded
<1>4. \A i \in DOMAIN entries : entries[i] \in {"tool", "set"} \X STRING
    BY <1>2
<1>5. [i \in DOMAIN entries |-> Expanded(sets, f, s, entries[i])]
          = [i \in DOMAIN entries |-> Expanded(sets, g, s, entries[i])]
    BY <1>3, <1>4
<1>. QED  BY <1>5 DEF _expand_entries, entries

\* The recursion has a solution: it never leaves the stacks.
LEMMA ExpansionExists ==
    ASSUME NEW sets, SetsGiven(sets)
    PROVE  \E f : f = [s \in Stacks(DOMAIN sets) |-> _expand_entries(sets, f, s)]
<1>. DEFINE n == Cardinality(DOMAIN sets)
            Long(k) == {s \in Stacks(DOMAIN sets) : Len(s) + k > n}
            Solved(k, f) == f = [s \in Long(k) |-> _expand_entries(sets, f, s)]
            Without == {k \in Nat : ~ \E f : Solved(k, f)}
<1>1. \A s \in Stacks(DOMAIN sets) : Len(s) \in 1 .. n /\ n \in Nat
    BY StackSteps DEF SetsGiven
<1>2. Without = {}
    <2>. SUFFICES ASSUME Without # {} PROVE FALSE
        OBVIOUS
    <2>. HIDE DEF Solved
    <2>1. PICK k \in Without : \A j \in Without : k <= j
        BY Least
    <2>2. CASE k = 0
        <3>1. Long(0) = {}
            BY <1>1
        <3>. HIDE DEF Long
        <3>2. Solved(0, [s \in {} |-> 0])
            BY <3>1 DEF Solved
        <3>. QED  BY <2>1, <2>2, <3>2
    <2>3. CASE k # 0
        <3>1. k \in Nat /\ k - 1 \in Nat /\ k - 1 \notin Without
            BY <2>1, <2>3
        <3>2. PICK f : Solved(k - 1, f)
            BY <3>1
        <3>. DEFINE g == [s \in Long(k) |-> _expand_entries(sets, f, s)]
        <3>3. ASSUME NEW s \in Long(k) PROVE _expand_entries(sets, g, s) = _expand_entries(sets, f, s)
            <4>1. ASSUME NEW c \in DOMAIN sets \ ToSet(s)
                  PROVE  g[Append(s, c)] = f[Append(s, c)]
                <5>1. Append(s, c) \in Stacks(DOMAIN sets) /\ Len(Append(s, c)) = Len(s) + 1
                    BY StackSteps DEF SetsGiven
                <5>2. Len(s) + k > n /\ Len(s) \in Nat /\ n \in Nat
                    BY <1>1
                <5>3. Append(s, c) \in Long(k - 1) /\ Append(s, c) \in Long(k)
                    BY <3>1, <5>1, <5>2
                <5>. HIDE DEF Long
                <5>. QED  BY <3>2, <5>3 DEF Solved
            <4>. HIDE DEF g
            <4>. QED  BY <4>1, SameExpansion
        <3>4. Solved(k, g)
            <4>. HIDE DEF Long
            <4>. QED  BY <3>3 DEF Solved
        <3>. QED  BY <2>1, <3>4
    <2>. QED  BY <2>2, <2>3
<1>3. n \in Nat
    BY FS_CardinalityType DEF SetsGiven
<1>4. Long(n + 1) = Stacks(DOMAIN sets)
    BY <1>1, <1>3
<1>. HIDE DEF Long
<1>5. n + 1 \in Nat
    BY <1>3
<1>6. \E f : Solved(n + 1, f)
    <2>. HIDE DEF n, Solved
    <2>. QED  BY <1>2, <1>5
<1>. QED  BY <1>4, <1>6

\* The one solution the expansions are read from.
Expansion(sets) ==
    CHOOSE f : f = [s \in Stacks(DOMAIN sets) |-> _expand_entries(sets, f, s)]

LEMMA ExpansionSteps ==
    ASSUME NEW sets, SetsGiven(sets)
    PROVE  /\ \A s \in Stacks(DOMAIN sets) :
                 Expansion(sets)[s] = _expand_entries(sets, Expansion(sets), s)
           /\ \A name \in DOMAIN sets : Expansions(sets)[name] = Expansion(sets)[<< name >>]
<1>. DEFINE f == Expansion(sets)
<1>1. f = [s \in Stacks(DOMAIN sets) |-> _expand_entries(sets, f, s)]
    BY ExpansionExists DEF Expansion
<1>2. Expansions(sets) = [name \in DOMAIN sets |-> f[<< name >>]]
    BY DEF Expansions, Expansion
<1>. HIDE DEF f
<1>3. \A s \in Stacks(DOMAIN sets) : f[s] = _expand_entries(sets, f, s)
    BY <1>1
<1>. QED  BY <1>2, <1>3 DEF f

Words == STRING \cup {"cycle", "unknown set"}

\* What the expansion of the last set of a stack consists of.
LEMMA ExpansionElements ==
    ASSUME NEW sets, SetsGiven(sets), NEW s \in Stacks(DOMAIN sets)
    PROVE  /\ Expansion(sets)[s] \in Seq(Words)
           /\ \A x : x \in ToSet(Expansion(sets)[s]) <=>
                 \E e \in ToSet(sets[Last(s)]) :
                     x \in ToSet(Expanded(sets, Expansion(sets), s, e))
<1>. DEFINE f == Expansion(sets)
            Entry == {"tool", "set"} \X STRING
<1>. HIDE DEF f
<1>1. ASSUME NEW t \in Stacks(DOMAIN sets),
             \A c \in DOMAIN sets \ ToSet(t) : f[Append(t, c)] \in Seq(Words)
      PROVE  /\ f[t] \in Seq(Words)
             /\ \A x : x \in ToSet(f[t]) <=>
                   \E e \in ToSet(sets[Last(t)]) : x \in ToSet(Expanded(sets, f, t, e))
    <2>. DEFINE entries == sets[Last(t)]
                ss == [i \in DOMAIN entries |-> Expanded(sets, f, t, entries[i])]
    <2>1. entries \in Seq(Entry)
        BY StackSteps DEF SetsGiven
    <2>2. f[t] = FlattenSeq(ss)
        BY ExpansionSteps DEF _expand_entries, f
    <2>. HIDE DEF entries
    <2>3. \A e \in Entry : Expanded(sets, f, t, e) \in Seq(Words)
        <3>. SUFFICES ASSUME NEW e \in Entry PROVE Expanded(sets, f, t, e) \in Seq(Words)
            OBVIOUS
        <3>1. e[1] \in {"tool", "set"} /\ e[2] \in Words
            BY DEF Words
        <3>2. \A x \in Words : << x >> \in Seq(Words)
            OBVIOUS
        <3>3. << >> \in Seq(Words) /\ << "cycle" >> \in Seq(Words) /\ << "unknown set" >> \in Seq(Words)
            <4>1. "cycle" \in Words /\ "unknown set" \in Words
                BY DEF Words
            <4>2. << >> \in Seq(Words)
                OBVIOUS
            <4>. QED  BY ONLY <3>2, <4>1, <4>2
        <3>4. CASE e[1] = "tool" \/ e[2] \in ToSet(t) \/ e[2] \notin DOMAIN sets
            BY <3>1, <3>2, <3>3, <3>4 DEF Expanded
        <3>5. CASE e[1] = "set" /\ e[2] \in DOMAIN sets \ ToSet(t)
            <4>1. Expanded(sets, f, t, e) = f[Append(t, e[2])]
                BY <3>5 DEF Expanded
            <4>. QED  BY <1>1, <3>5, <4>1
        <3>. QED  BY <3>1, <3>4, <3>5
    <2>4. \A i \in 1 .. Len(entries) : entries[i] \in Entry
        BY <2>1
    <2>5. ss \in Seq(Seq(Words)) /\ Len(ss) = Len(entries)
        BY <2>1, <2>3, <2>4
    <2>6. \A i \in 1 .. Len(entries) : ss[i] = Expanded(sets, f, t, entries[i])
        BY <2>1
    <2>. HIDE DEF ss
    <2>7. \A x : x \in ToSet(f[t]) <=> \E i \in 1 .. Len(ss) : x \in ToSet(ss[i])
        BY <2>2, <2>5, FlattenSeqElements
    <2>8. \A e : e \in ToSet(entries) <=> \E i \in 1 .. Len(entries) : e = entries[i]
        BY <2>1 DEF ToSet
    <2>9. f[t] \in Seq(Words)
        BY <2>2, <2>5, FlattenSeqElements
    <2>10. \A x : x \in ToSet(f[t]) <=>
                   \E e \in ToSet(entries) : x \in ToSet(Expanded(sets, f, t, e))
        BY <2>5, <2>6, <2>7, <2>8
    <2>. QED  BY <2>9, <2>10 DEF entries
<1>. DEFINE Good == {t \in Stacks(DOMAIN sets) : f[t] \in Seq(Words)}
<1>2. Stacks(DOMAIN sets) \subseteq Good
    <2>1. IsFiniteSet(DOMAIN sets)
        BY DEF SetsGiven
    <2>2. ASSUME NEW t \in Stacks(DOMAIN sets), \A c \in DOMAIN sets \ ToSet(t) : Append(t, c) \in Good
          PROVE  t \in Good
        BY <1>1, <2>2
    <2>. HIDE DEF Good
    <2>. QED  BY <2>1, <2>2, StackInduction
<1>3. \A c \in DOMAIN sets \ ToSet(s) : f[Append(s, c)] \in Seq(Words)
    BY <1>2, StackSteps DEF SetsGiven
<1>. QED  BY <1>1, <1>3 DEF f

LEMMA ReachedSteps ==
    ASSUME NEW sets, NEW a \in DOMAIN sets
    PROVE  /\ Reached(sets, a) \subseteq DOMAIN sets
           /\ \A b \in Reached(sets, a) \cup {a}, c \in DOMAIN sets :
                 Refers(sets, b, c) => c \in Reached(sets, a)
           /\ \A c \in DOMAIN sets : Refers(sets, a, c) => Reached(sets, c) \subseteq Reached(sets, a)
           /\ \A b \in Reached(sets, a) : \E c \in DOMAIN sets :
                 Refers(sets, a, c) /\ (b = c \/ b \in Reached(sets, c))
<1>. DEFINE names == DOMAIN sets
            Closed(x, group) == \A b \in group \cup {x}, c \in names : Refers(sets, b, c) => c \in group
<1>1. \A x : Reached(sets, x) = {b \in names : \A group \in SUBSET names : Closed(x, group) => b \in group}
    BY DEF Reached
<1>2. \A x : Reached(sets, x) \subseteq names
    BY <1>1
<1>3. \A x : \A b \in Reached(sets, x) \cup {x}, c \in names :
          Refers(sets, b, c) => c \in Reached(sets, x)
    <2>. SUFFICES ASSUME NEW x, NEW b \in Reached(sets, x) \cup {x}, NEW c \in names,
                         Refers(sets, b, c), NEW group \in SUBSET names, Closed(x, group)
                  PROVE  c \in group
        BY <1>1
    <2>1. b \in group \cup {x}
        BY <1>1
    <2>. QED  BY <2>1
<1>4. ASSUME NEW c \in names, Refers(sets, a, c) PROVE Reached(sets, c) \subseteq Reached(sets, a)
    <2>1. c \in Reached(sets, a)
        BY <1>3, <1>4
    <2>2. Closed(c, Reached(sets, a))
        BY <1>3, <2>1
    <2>. QED  BY <1>1, <1>2, <2>2
<1>5. ASSUME NEW b \in Reached(sets, a)
      PROVE  \E c \in names : Refers(sets, a, c) /\ (b = c \/ b \in Reached(sets, c))
    <2>. DEFINE group == {d \in names :
                    \E c \in names : Refers(sets, a, c) /\ (d = c \/ d \in Reached(sets, c))}
    <2>1. Closed(a, group)
        <3>. SUFFICES ASSUME NEW d \in group \cup {a}, NEW e \in names, Refers(sets, d, e)
                      PROVE  e \in group
            OBVIOUS
        <3>1. CASE d = a
            BY <3>1
        <3>2. CASE d \in group
            <4>1. PICK c \in names : Refers(sets, a, c) /\ (d = c \/ d \in Reached(sets, c))
                BY <3>2
            <4>2. e \in Reached(sets, c)
                BY <1>3, <4>1
            <4>. QED  BY <4>1, <4>2
        <3>. QED  BY <3>1, <3>2
    <2>2. b \in group
        <3>. HIDE DEF Closed
        <3>1. group \in SUBSET names
            OBVIOUS
        <3>. HIDE DEF group
        <3>. QED  BY <1>1, <1>5, <2>1, <3>1
    <2>. QED  BY <2>2
<1>. QED  BY <1>2, <1>3, <1>4, <1>5

\* An entry of the last set of a stack, by what it is.
LEMMA EntryPair ==
    ASSUME NEW sets, SetsGiven(sets), NEW a \in DOMAIN sets, NEW e \in ToSet(sets[a])
    PROVE  e = << e[1], e[2] >> /\ e[1] \in {"tool", "set"}
<1>1. e \in {"tool", "set"} \X STRING
    BY DEF SetsGiven, ToSet
<1>. QED  BY <1>1

LEMMA ToolEntry ==
    ASSUME NEW sets, NEW f, NEW s, NEW e, e[1] = "tool"
    PROVE  ToSet(Expanded(sets, f, s, e)) = {e[2]}
<1>1. Expanded(sets, f, s, e) = << e[2] >>
    BY DEF Expanded
<1>. QED  BY <1>1 DEF ToSet

LEMMA CycleEntry ==
    ASSUME NEW sets, NEW f, NEW s, NEW e, e[1] = "set", e[2] \in ToSet(s)
    PROVE  ToSet(Expanded(sets, f, s, e)) = {"cycle"}
<1>1. Expanded(sets, f, s, e) = << "cycle" >>
    BY DEF Expanded
<1>. QED  BY <1>1 DEF ToSet

LEMMA UnknownEntry ==
    ASSUME NEW sets, NEW f, NEW s, NEW e, e[1] = "set", e[2] \notin DOMAIN sets \cup ToSet(s)
    PROVE  ToSet(Expanded(sets, f, s, e)) = IF e[2] = Main THEN {} ELSE {"unknown set"}
<1>1. CASE e[2] = Main
    <2>1. Expanded(sets, f, s, e) = << >>
        BY <1>1 DEF Expanded
    <2>. QED  BY <1>1, <2>1 DEF ToSet
<1>2. CASE e[2] # Main
    <2>1. Expanded(sets, f, s, e) = << "unknown set" >>
        BY <1>2 DEF Expanded
    <2>2. \A x : ToSet(<< x >>) = {x}
        BY DEF ToSet
    <2>3. ToSet(Expanded(sets, f, s, e)) = {"unknown set"}
        BY ONLY <2>1, <2>2
    <2>. QED  BY <1>2, <2>3
<1>. QED  BY <1>1, <1>2

LEMMA SetEntry ==
    ASSUME NEW sets, NEW f, NEW s, NEW e, e[1] = "set", e[2] \in DOMAIN sets \ ToSet(s)
    PROVE  Expanded(sets, f, s, e) = f[Append(s, e[2])]
    BY DEF Expanded

\* A set that leads back to itself does so within its expansion.
LEMMA CycleFound ==
    ASSUME NEW sets, SetsGiven(sets), NEW a \in DOMAIN sets, a \in Reached(sets, a)
    PROVE  "cycle" \in ToSet(Expansions(sets)[a])
<1>. DEFINE names == DOMAIN sets
            Good == {s \in Stacks(names) : Last(s) \in Reached(sets, Last(s))
                                            => "cycle" \in ToSet(Expansion(sets)[s])}
<1>1. ASSUME NEW s \in Stacks(names), \A c \in names \ ToSet(s) : Append(s, c) \in Good,
             Last(s) \in Reached(sets, Last(s))
      PROVE  "cycle" \in ToSet(Expansion(sets)[s])
    <2>. DEFINE b == Last(s)
    <2>1. b \in names
        BY StackSteps DEF SetsGiven
    <2>2. PICK c \in names : Refers(sets, b, c) /\ (b = c \/ b \in Reached(sets, c))
        BY <1>1, <2>1, ReachedSteps
    <2>3. c \in Reached(sets, c)
        BY <1>1, <2>2, ReachedSteps
    <2>. DEFINE e == << "set", c >>
    <2>4. e \in ToSet(sets[Last(s)]) /\ e[1] = "set" /\ e[2] = c
        BY <2>2 DEF Refers
    <2>. HIDE DEF e
    <2>5. "cycle" \in ToSet(Expanded(sets, Expansion(sets), s, e))
        <3>1. CASE c \in ToSet(s)
            BY <2>4, <3>1, CycleEntry
        <3>2. CASE c \notin ToSet(s)
            <4>1. Append(s, c) \in Good /\ Last(Append(s, c)) = c
                BY <1>1, <3>2, StackSteps DEF SetsGiven
            <4>2. "cycle" \in ToSet(Expansion(sets)[Append(s, c)])
                BY <2>3, <4>1
            <4>3. Expanded(sets, Expansion(sets), s, e) = Expansion(sets)[Append(s, c)]
                BY <2>4, <3>2, SetEntry
            <4>. QED  BY <4>2, <4>3
        <3>. QED  BY <3>1, <3>2
    <2>. QED  BY <2>4, <2>5, ExpansionElements
<1>2. Stacks(names) \subseteq Good
    <2>1. IsFiniteSet(names)
        BY DEF SetsGiven
    <2>2. \A s \in Stacks(names) : (\A c \in names \ ToSet(s) : Append(s, c) \in Good) => s \in Good
        BY <1>1
    <2>. HIDE DEF Good
    <2>. QED  BY <2>1, <2>2, StackInduction
<1>3. << a >> \in Stacks(names) /\ Last(<< a >>) = a
    BY SingleStack
<1>4. "cycle" \in ToSet(Expansion(sets)[<< a >>])
    BY <1>2, <1>3
<1>. QED  BY <1>4, ExpansionSteps

\* What validate_tool_sets lets pass is sound.
LEMMA ValidatedSound ==
    ASSUME NEW sets, SetsGiven(sets), NEW names, names \cap {"cycle", "unknown set"} = {},
           validate_tool_sets(sets, names)
    PROVE  SoundSets(sets, names)
<1>. SUFFICES ASSUME NEW a \in DOMAIN sets
              PROVE  /\ a \notin Reached(sets, a)
                     /\ \A i \in DOMAIN sets[a] :
                           \/ sets[a][i][1] = "tool" /\ sets[a][i][2] \in names
                           \/ sets[a][i][1] = "set" /\ sets[a][i][2] \in DOMAIN sets \cup {Main}
    BY DEF SoundSets
<1>1. ToSet(Expansions(sets)[a]) \subseteq names
    BY DEF validate_tool_sets, Resolves
<1>2. a \notin Reached(sets, a)
    BY <1>1, CycleFound
<1>3. ASSUME NEW e \in ToSet(sets[a])
      PROVE  \/ e[1] = "tool" /\ e[2] \in names
             \/ e[1] = "set" /\ e[2] \in DOMAIN sets \cup {Main}
    <2>1. << a >> \in Stacks(DOMAIN sets) /\ Last(<< a >>) = a /\ ToSet(<< a >>) = {a}
        BY SingleStack
    <2>2. ToSet(Expanded(sets, Expansion(sets), << a >>, e)) \subseteq names
        <3>1. Expansions(sets)[a] = Expansion(sets)[<< a >>]
            BY ExpansionSteps
        <3>2. e \in ToSet(sets[Last(<< a >>)])
            BY <2>1
        <3>3. \A x \in ToSet(Expanded(sets, Expansion(sets), << a >>, e)) :
                  x \in ToSet(Expansion(sets)[<< a >>])
            BY <2>1, <3>2, ExpansionElements
        <3>. QED  BY <1>1, <3>1, <3>3
    <2>3. e[1] = "tool" => e[2] \in names
        BY <2>2, ToolEntry
    <2>4. e[1] = "set" /\ e[2] \notin DOMAIN sets \cup {Main} => FALSE
        <3>. SUFFICES ASSUME e[1] = "set", e[2] \notin DOMAIN sets \cup {Main} PROVE FALSE
            OBVIOUS
        <3>1. e[2] \notin DOMAIN sets \cup ToSet(<< a >>) /\ e[2] # Main
            BY <2>1
        <3>2. ToSet(Expanded(sets, Expansion(sets), << a >>, e)) = {"unknown set"}
            BY <3>1, UnknownEntry
        <3>. QED  BY <2>2, <3>2
    <2>. QED  BY <2>3, <2>4, EntryPair
<1>4. \A i \in DOMAIN sets[a] : sets[a][i] \in ToSet(sets[a])
    BY DEF ToSet
<1>. QED  BY <1>2, <1>3, <1>4

\* Without a cycle the expansion of a set has the tools of the sets reached from it.
ToolsFrom(sets, a) ==
    {t \in Words : \E b \in Reached(sets, a) \cup {a} : << "tool", t >> \in ToSet(sets[b])}

LEMMA SoundExpansion ==
    ASSUME NEW sets, SetsGiven(sets), NEW names, SoundSets(sets, names), NEW a \in DOMAIN sets
    PROVE  /\ ToSet(Expansions(sets)[a]) = ToolsFrom(sets, a)
           /\ ToolsFrom(sets, a) \subseteq names
<1>. DEFINE D == DOMAIN sets
            Path(s) == \A b \in ToSet(s) : b = Last(s) \/ Last(s) \in Reached(sets, b)
            Good == {s \in Stacks(D) : Path(s) =>
                        ToSet(Expansion(sets)[s]) = ToolsFrom(sets, Last(s))}
<1>1. \A b \in D : b \notin Reached(sets, b)
    BY DEF SoundSets
<1>2. \A b \in D : \A e \in ToSet(sets[b]) :
          \/ e[1] = "tool" /\ e[2] \in names
          \/ e[1] = "set" /\ e[2] \in D \cup {Main}
    BY DEF SoundSets, ToSet
<1>3. \A b \in D, c \in D : Refers(sets, b, c) =>
          ToolsFrom(sets, c) \subseteq ToolsFrom(sets, b)
    BY ReachedSteps DEF ToolsFrom
<1>4. ASSUME NEW s \in Stacks(D), \A c \in D \ ToSet(s) : Append(s, c) \in Good, Path(s)
      PROVE  ToSet(Expansion(sets)[s]) = ToolsFrom(sets, Last(s))
    <2>. DEFINE b == Last(s)
    <2>1. b \in D /\ b \in ToSet(s) /\ ToSet(s) \subseteq D
        BY StackSteps DEF SetsGiven
    <2>2. ASSUME NEW c \in D, Refers(sets, b, c)
          PROVE  c \notin ToSet(s) /\ ToSet(Expansion(sets)[Append(s, c)]) = ToolsFrom(sets, c)
        <3>1. c \in Reached(sets, b)
            BY <2>1, <2>2, ReachedSteps
        <3>2. c \notin ToSet(s)
            <4>. SUFFICES ASSUME c \in ToSet(s) PROVE FALSE
                OBVIOUS
            <4>1. c = b \/ b \in Reached(sets, c)
                BY <1>4
            <4>2. c \in Reached(sets, c)
                BY <2>2, <3>1, <4>1, ReachedSteps
            <4>. QED  BY <1>1, <4>2
        <3>3. /\ Append(s, c) \in Good /\ Last(Append(s, c)) = c
              /\ ToSet(Append(s, c)) = ToSet(s) \cup {c}
            BY <1>4, <3>2, StackSteps DEF SetsGiven
        <3>4. \A d \in ToSet(s) : c \in Reached(sets, d)
            BY <1>4, <2>1, <2>2, <3>1, ReachedSteps
        <3>5. Path(Append(s, c))
            BY <3>3, <3>4
        <3>. QED  BY <3>2, <3>3, <3>5
    <2>3. ASSUME NEW x \in ToSet(Expansion(sets)[s]) PROVE x \in ToolsFrom(sets, b)
        <3>1. PICK e \in ToSet(sets[b]) : x \in ToSet(Expanded(sets, Expansion(sets), s, e))
            BY ExpansionElements
        <3>2. x \in Words
            BY ExpansionElements DEF ToSet
        <3>3. CASE e[1] = "tool"
            <4>1. x = e[2] /\ << "tool", x >> = e
                BY <2>1, <3>1, <3>3, ToolEntry, EntryPair
            <4>. QED  BY <3>1, <3>2, <4>1 DEF ToolsFrom
        <3>4. CASE e[1] = "set" /\ e[2] \in D
            <4>1. Refers(sets, b, e[2])
                BY <2>1, <3>1, <3>4, EntryPair DEF Refers
            <4>2. x \in ToolsFrom(sets, e[2])
                BY <2>2, <3>1, <3>4, <4>1, SetEntry
            <4>. QED  BY <1>3, <2>1, <3>4, <4>1, <4>2
        <3>5. CASE e[1] = "set" /\ e[2] \notin D
            <4>1. e[2] = Main
                BY <1>2, <2>1, <3>1, <3>5
            <4>2. ToSet(Expanded(sets, Expansion(sets), s, e)) = {}
                BY <2>1, <3>5, <4>1, UnknownEntry
            <4>. QED  BY <3>1, <4>2
        <3>. QED  BY <2>1, <3>1, <3>3, <3>4, <3>5, EntryPair
    <2>4. ASSUME NEW x \in ToolsFrom(sets, b) PROVE x \in ToSet(Expansion(sets)[s])
        <3>1. PICK d \in Reached(sets, b) \cup {b} : << "tool", x >> \in ToSet(sets[d])
            BY DEF ToolsFrom
        <3>2. CASE d = b
            <4>1. ToSet(Expanded(sets, Expansion(sets), s, << "tool", x >>)) = {x}
                BY ToolEntry
            <4>. QED  BY <3>1, <3>2, <4>1, ExpansionElements
        <3>3. CASE d \in Reached(sets, b)
            <4>1. PICK c \in D : Refers(sets, b, c) /\ (d = c \/ d \in Reached(sets, c))
                BY <2>1, <3>3, ReachedSteps
            <4>2. x \in ToolsFrom(sets, c)
                BY <3>1, <4>1 DEF ToolsFrom
            <4>. DEFINE e == << "set", c >>
            <4>3. e \in ToSet(sets[b]) /\ e[1] = "set" /\ e[2] = c
                BY <4>1 DEF Refers
            <4>. HIDE DEF e
            <4>4. x \in ToSet(Expanded(sets, Expansion(sets), s, e))
                BY <2>2, <4>1, <4>2, <4>3, SetEntry
            <4>. QED  BY <4>3, <4>4, ExpansionElements
        <3>. QED  BY <3>2, <3>3
    <2>. QED  BY <2>3, <2>4
<1>5. Stacks(D) \subseteq Good
    <2>1. IsFiniteSet(D)
        BY DEF SetsGiven
    <2>2. \A s \in Stacks(D) : (\A c \in D \ ToSet(s) : Append(s, c) \in Good) => s \in Good
        BY <1>4
    <2>. HIDE DEF Good
    <2>. QED  BY <2>1, <2>2, StackInduction
<1>6. << a >> \in Stacks(D) /\ Last(<< a >>) = a /\ ToSet(<< a >>) = {a}
    BY SingleStack
<1>7. ToSet(Expansion(sets)[<< a >>]) = ToolsFrom(sets, a)
    BY <1>5, <1>6
<1>8. ToolsFrom(sets, a) \subseteq names
    BY <1>2, ReachedSteps DEF ToolsFrom
<1>. QED  BY <1>7, <1>8, ExpansionSteps

LEMMA SoundValidated ==
    ASSUME NEW sets, SetsGiven(sets), NEW names, SoundSets(sets, names)
    PROVE  validate_tool_sets(sets, names)
    BY SoundExpansion DEF validate_tool_sets, Resolves

\* What LoadsTools asks for.
StartsWith(list, l) ==
    LET configs == resolve_tool_config_files(list, l.user)
        names == DOMAIN LoadedTools(list, l.user)
    IN  /\ l.scripts
        /\ ValidCommands(list)
        /\ ValidToolConfigs(list)
        /\ UnambiguousTools(list, l.user)
        /\ _validate_no_runtime_key_collision(list, l.user)
        /\ validate_tool_sets(l.yaml.sets, {t \in names : configs[t].trigger = "llm"})

\* A process that has come past its tools has them all, and one that stopped over
\* them had a reason.
ToolsChecked ==
    /\ phase \notin {"import", "register", "compose", "tools", "down"} =>
          tools = DOMAIN LoadedTools(Extended, launch.user) /\ StartsWith(Extended, launch)
    /\ exit = "tools" => ~StartsWith(Extended, launch)

LEMMA ToolsStep ==
    ASSUME StartInv, ToolsChecked, [Next]_vars
    PROVE  ToolsChecked'
<1>. DEFINE Past == {"setup", "dashboard", "http", "login", "connected", "stopping"}
<1>0. phase \in Phases /\ (phase # "down" => exit = "none")
    BY DEF StartInv, QuietUntilSetUp, LoadedAccepted
<1>1. CASE ImportsExtensions \/ set_extensions \/ ComposesConfig
    <2>1. phase' \in {"register", "compose", "tools", "down"} /\ exit' # "tools"
        BY <1>0, <1>1 DEF ImportsExtensions, set_extensions, ComposesConfig, Fails
    <2>. QED  BY <2>1 DEF ToolsChecked
<1>2. CASE LoadsTools
    <2>1. Extended' = Extended /\ launch' = launch
        BY <1>2 DEF LoadsTools, Extended
    <2>2. CASE StartsWith(Extended, launch)
        <3>1. phase' = "setup" /\ exit' = "none" /\ tools' = DOMAIN LoadedTools(Extended, launch.user)
            BY <1>0, <1>2, <2>2 DEF LoadsTools, StartsWith, Configs
        <3>. QED  BY <2>1, <2>2, <3>1 DEF ToolsChecked
    <2>3. CASE ~StartsWith(Extended, launch)
        <3>1. phase' = "down"
            BY <1>2, <2>3 DEF LoadsTools, StartsWith, Configs, Fails
        <3>. QED  BY <2>1, <2>3, <3>1 DEF ToolsChecked
    <2>. QED  BY <2>2, <2>3
<1>3. CASE MainStep
    <2>1. UNCHANGED << launch, registry, tools >>
        BY <1>3 DEF MainStep, SetsUp, SetUpFails, SetUpDone, start_dashboard_server,
               start_http_server, ServerFails, LogsIn, BotEnds, stop_http_server, loaded
    <2>2. phase \in Past /\ exit' # "tools"
        BY <1>0, <1>3
           DEF MainStep, SetsUp, SetUpFails, SetUpDone, start_dashboard_server, Fails,
               start_http_server, ServerFails, LogsIn, BotEnds, stop_http_server
    <2>. QED  BY <2>1, <2>2 DEF ToolsChecked, Extended
<1>4. CASE \/ \E r \in 1 .. Readies : Ready(r) \/ ReadyStep(r)
           \/ \E t \in AllTools : _job(t) \/ handle_api_runtask(t) \/ _run_tool(t)
           \/ MessageArrives \/ HookDeclines \/ HookClaims \/ UNCHANGED vars
    <2>1. UNCHANGED << launch, registry, tools, phase, exit >>
        BY <1>4 DEF Ready, ReadyStep, FactoryRaises, InitializesRepo, RepoFails, start_scheduler, _job,
               handle_api_runtask, _run_tool, RunStarts, MessageArrives, HookDeclines,
               HookClaims, Hooks, loaded, vars
    <2>. QED  BY <2>1 DEF ToolsChecked, Extended
<1>. QED  BY <1>1, <1>2, <1>3, <1>4 DEF Next, Loading

LEMMA ToolSetsFollow ==
    ASSUME StartInv, ToolsChecked
    PROVE  ToolSetsSound
<1>. DEFINE sets == launch.yaml.sets
            names == {t \in DOMAIN LoadedTools(Extended, launch.user) : Configs[t].trigger = "llm"}
<1>1. SetsGiven(sets)
    BY LaunchesAssumption DEF SetsGiven, StartInv, LoadedAccepted
<1>2. names \cap {"cycle", "unknown set"} = {}
    <2>1. DOMAIN LoadedTools(Extended, launch.user) \subseteq AllTools
        BY ToolsKnown, ExtendedLoaded DEF StartInv, LoadedAccepted
    <2>. QED  BY <2>1, ToolsAssumption
<1>3. ASSUME phase \notin {"import", "register", "compose", "tools", "down"}
      PROVE  /\ SoundSets(sets, ForModel)
             /\ Main \in DOMAIN sets =>
                   \A client \in {"discord", "task"} :
                       Offered(sets, [t \in ForModel |-> Configs[t].client], client)
                         = {t \in ToolsOf(sets, Main) : Configs[t].client \in {"all", client}}
    <2>1. ForModel = names /\ validate_tool_sets(sets, names)
        BY <1>3 DEF ToolsChecked, ForModel, StartsWith, Configs
    <2>. HIDE DEF sets, names
    <2>2. SoundSets(sets, ForModel)
        BY <1>1, <1>2, <2>1, ValidatedSound
    <2>3. ASSUME Main \in DOMAIN sets, NEW client
          PROVE  Offered(sets, [t \in ForModel |-> Configs[t].client], client)
                     = {t \in ToolsOf(sets, Main) : Configs[t].client \in {"all", client}}
        <3>1. ToSet(Expansions(sets)[Main]) = ToolsFrom(sets, Main) /\ ToolsFrom(sets, Main) \subseteq ForModel
            BY <1>1, <2>2, <2>3, SoundExpansion
        <3>2. ForModel \subseteq AllTools
            BY DEF ForModel, StartInv, JobsOfTools
        <3>3. ToolsOf(sets, Main) = ToolsFrom(sets, Main)
            <4>1. ASSUME NEW b \in Reached(sets, Main) \cup {Main}, NEW t,
                         << "tool", t >> \in ToSet(sets[b])
                  PROVE  t \in Words
                <5>1. b \in DOMAIN sets
                    BY <2>3, ReachedSteps
                <5>2. << "tool", t >> \in {"tool", "set"} \X STRING
                    BY <1>1, <4>1, <5>1 DEF SetsGiven, ToSet
                <5>. QED  BY <5>2 DEF Words
            <4>. QED  BY <3>1, <3>2, <4>1 DEF ToolsOf, ToolsFrom
        <3>. QED  BY <2>3, <3>1, <3>3 DEF Offered
    <2>. QED  BY <2>2, <2>3
<1>4. ASSUME exit = "tools"
      PROVE  \/ ~SoundSets(sets, names)
             \/ ~launch.scripts \/ ~ValidCommands(Extended)
             \/ ~ValidToolConfigs(Extended) \/ ~UnambiguousTools(Extended, launch.user)
             \/ ~_validate_no_runtime_key_collision(Extended, launch.user)
    BY <1>1, <1>4, SoundValidated DEF ToolsChecked, StartsWith, Configs
<1>. QED  BY <1>3, <1>4 DEF ToolSetsSound

-----------------------------------------------------------------------------
(* The properties.                                                         *)

(* Whatever extensions there are and however they are listed, all of an    *)
(* accepted list is registered or nothing: every key has its one provider, *)
(* whatever is needed is there, and pages and paths do not meet.           *)
THEOREM RegistryKept == Spec => []RegistryConsistent
    BY StartKept, RegistryFollows, PTL

(* Nothing is served, handled or run before the last extension is set up,  *)
(* in any interleaving of what main(), on_ready, requests and jobs do.     *)
THEOREM SetUpFirst == Spec => []SetUpBeforeServing
    BY StartKept, SetUpFollows, PTL

(* However often Discord reports ready, also while an earlier call still   *)
(* waits, each task with a schedule has one job.                           *)
THEOREM JobsKept == Spec => []JobsOnce
    BY StartKept, JobsFollow, PTL

(* With any accepted list of extensions, whatever routes they declare, a   *)
(* request without a token reaches open routes only, and every literal     *)
(* route is reached.                                                       *)
THEOREM RoutesKept == Spec => []RoutesServedAsDeclared
    BY StartKept, RoutesFollow, PTL

(* Whatever sets the settings define, however they refer to each other: a  *)
(* start passes only without a cycle and without anything undefined, it is *)
(* refused over its sets only if there is such a thing, and a conversation *)
(* is offered the tools that can be reached from the set it uses.          *)
THEOREM ToolSetsKept == Spec => []ToolSetsSound
<1>1. Init => ToolsChecked
    BY DEF Init, ToolsChecked
<1>2. StartInv /\ ToolsChecked /\ [Next]_vars => ToolsChecked'
    BY ToolsStep
<1>3. StartInv /\ ToolsChecked => ToolSetsSound
    BY ToolSetsFollow
<1>. QED  BY StartKept, <1>1, <1>2, <1>3, PTL DEF Spec

=============================================================================
