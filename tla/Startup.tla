------------------------------ MODULE Startup -------------------------------
(***************************************************************************)
(* The process from its start to its end: bot.py and                       *)
(* handlers/task_handler.py, on top of what Extensions and ToolFiles check *)
(* and HttpServer serves.                                                  *)
(*                                                                         *)
(* Loading is synchronous; its steps are actions so that a start that      *)
(* fails stops at one of them.  From SetsUp on an action is what a         *)
(* coroutine does between two awaits: main(), handlers of Discord's        *)
(* events, requests and scheduled jobs interleave.                         *)
(***************************************************************************)
EXTENDS ToolFiles, HttpServer

CONSTANTS
    Launches,      \* what a process may be started with: [spec, yaml, user]
    CoreRepos,     \* how many repositories the core itself initializes
    Readies,       \* bound: on_ready events handled by a process
    MaxRuns        \* bound: runs of one task under way at a time

VARIABLES
    launch,     \* LILLA_EXTENSIONS, lilla.yaml and the user's tools of this process
    phase,      \* what main(), or the module code before it, does next
    exit,       \* the phase the start failed in, or "none"
    registry,   \* the registries of core/extension.py
    tools,      \* the names of the loaded tools
    setups,     \* how many extensions have been set up
    open,       \* the servers that listen
    ready,      \* ready[r]: what on_ready handler r does next: 0 not started,
                \* n the n-th repository, -1 finished, -2 a factory raised
    scheduler,  \* whether _scheduler is set
    jobs,       \* the jobs added to it, in order
    runs,       \* runs[t]: runs of task t under way
    hook        \* the extension whose on_message is awaited, or 0

vars == << launch, phase, exit, registry, tools, setups, open, ready, scheduler,
           jobs, runs, hook >>
loaded == << launch, registry, tools >>
serving == << ready, scheduler, jobs, runs, hook >>

Phases == {"import", "register", "compose", "tools", "setup", "dashboard", "http",
           "login", "connected", "stopping", "down"}

ASSUME BoundsAssumption ==
    CoreRepos \in Nat /\ Readies \in Nat /\ MaxRuns \in Nat

Extended == registry.extensions
Configs == resolve_tool_config_files(Extended, launch.user)
AllTools == (UNION {DOMAIN Decl[e].tool_configs : e \in Exts})
                \cup (UNION {DOMAIN l.user : l \in Launches})

ASSUME LaunchesAssumption ==
    \A l \in Launches :
        /\ l.spec \in Seq(Seq(STRING))
        /\ l.yaml.sets \in [DOMAIN l.yaml.sets -> Seq({"tool", "set"} \X STRING)]
        /\ DOMAIN l.yaml.sets \subseteq STRING /\ IsFiniteSet(DOMAIN l.yaml.sets)
ASSUME ToolsAssumption ==
    IsFiniteSet(AllTools) /\ AllTools \cap {"cycle", "unknown set"} = {}

Init ==
    /\ launch \in Launches
    /\ phase = "import" /\ exit = "none"
    /\ registry = Registered(<< >>)
    /\ tools = {} /\ setups = 0 /\ open = {}
    /\ ready = [r \in 1 .. Readies |-> 0]
    /\ scheduler = FALSE /\ jobs = << >>
    /\ runs = [t \in AllTools |-> 0]
    /\ hook = 0

-----------------------------------------------------------------------------
(* Loading: load_extensions and the module code of bot.py.  What raises    *)
(* ends the process.                                                       *)

Fails == phase' = "down" /\ exit' = phase

ImportsExtensions ==
    /\ phase = "import"
    /\ IF Imports(launch.spec) THEN phase' = "register" /\ exit' = exit ELSE Fails
    /\ UNCHANGED << loaded, setups, open, serving >>

\* The registries change only once everything has been checked.
set_extensions ==
    /\ phase = "register"
    /\ LET list == Imported(launch.spec) IN
        IF Valid(list) THEN registry' = Registered(list) /\ phase' = "compose" /\ exit' = exit
        ELSE Fails /\ UNCHANGED registry
    /\ UNCHANGED << launch, tools, setups, open, serving >>

ComposesConfig ==
    /\ phase = "compose"
    /\ IF Composes(Extended, launch.yaml) THEN phase' = "tools" /\ exit' = exit ELSE Fails
    /\ UNCHANGED << loaded, setups, open, serving >>

\* Resolvers, the blocklist, the commands, the tools and their sets.
LoadsTools ==
    /\ phase = "tools"
    /\ LET names == DOMAIN LoadedTools(Extended, launch.user)
           forModel == {t \in names : Configs[t].trigger = "llm"}
       IN  IF /\ launch.scripts
              /\ ValidCommands(Extended)
              /\ ValidToolConfigs(Extended)
              /\ UnambiguousTools(Extended, launch.user)
              /\ _validate_no_runtime_key_collision(Extended, launch.user)
              /\ validate_tool_sets(launch.yaml.sets, forModel)
           THEN tools' = names /\ phase' = "setup" /\ exit' = exit
           ELSE Fails /\ UNCHANGED tools
    /\ UNCHANGED << launch, registry, setups, open, serving >>

-----------------------------------------------------------------------------
(* main().                                                                 *)

\* run_setup_hooks: setup() of the next extension is awaited.
SetsUp ==
    /\ phase = "setup"
    /\ setups < Len(Extended)
    /\ setups' = setups + 1
    /\ UNCHANGED << loaded, phase, exit, open, serving >>

SetUpFails ==
    /\ phase = "setup"
    /\ setups < Len(Extended)
    /\ Fails
    /\ UNCHANGED << loaded, setups, open, serving >>

SetUpDone ==
    /\ phase = "setup"
    /\ setups = Len(Extended)
    /\ phase' = "dashboard"
    /\ UNCHANGED << loaded, exit, setups, open, serving >>

start_dashboard_server ==
    /\ phase = "dashboard"
    /\ open' = open \cup {"dashboard"} /\ phase' = "http"
    /\ UNCHANGED << loaded, exit, setups, serving >>

HttpTable == build_http_app(registry.routes)

start_http_server ==
    /\ phase = "http"
    /\ ~RouterRaises(HttpTable)
    /\ open' = open \cup {"http"} /\ phase' = "login"
    /\ UNCHANGED << loaded, exit, setups, serving >>

\* The port is taken, MongoDB does not answer, or the routes cannot be added.
ServerFails ==
    /\ phase \in {"dashboard", "http"}
    /\ Fails
    /\ open' = {}
    /\ UNCHANGED << loaded, setups, serving >>

LogsIn ==
    /\ phase = "login"
    /\ phase' = "connected"
    /\ UNCHANGED << loaded, exit, setups, open, serving >>

\* bot.start() returns or raises: refused, without an intent, or closed.
BotEnds ==
    /\ phase \in {"login", "connected"}
    /\ phase' = "stopping"
    /\ UNCHANGED << loaded, exit, setups, open, serving >>

\* stop_http_server; asyncio.run then cancels what is left and ends.
stop_http_server ==
    /\ phase = "stopping"
    /\ phase' = "down" /\ open' = {}
    /\ ready' = [r \in 1 .. Readies |-> -1]
    /\ runs' = [t \in AllTools |-> 0] /\ hook' = 0
    /\ UNCHANGED << loaded, exit, setups, scheduler, jobs >>

-----------------------------------------------------------------------------
(* on_ready, which Discord may call again after a reconnect, also while an *)
(* earlier call still waits for a repository.                              *)

Repos == CoreRepos + FoldFunction(+, 0, [i \in DOMAIN Extended |-> Decl[Extended[i]].repos])

Ready(r) ==
    /\ phase = "connected"
    /\ ready[r] = 0 /\ \A q \in 1 .. r - 1 : ready[q] # 0
    /\ ready' = [ready EXCEPT ![r] = 1]
    /\ UNCHANGED << loaded, phase, exit, setups, open, scheduler, jobs, runs, hook >>

\* The factory is called outside the try: what it raises ends the handler, and
\* no scheduler is started by it.
FactoryRaises(r) ==
    /\ ready[r] > 0 /\ ready[r] <= Repos
    /\ ready' = [ready EXCEPT ![r] = -2]
    /\ UNCHANGED << loaded, phase, exit, setups, open, scheduler, jobs, runs, hook >>

InitializesRepo(r) ==
    /\ ready[r] > 0 /\ ready[r] <= Repos
    /\ ready' = [ready EXCEPT ![r] = @ + 1]
    /\ UNCHANGED << loaded, phase, exit, setups, open, scheduler, jobs, runs, hook >>

\* Mutant of RepoFails: the error ends the handler.
RepoFailureEnds(r) ==
    /\ ready[r] > 0 /\ ready[r] <= Repos
    /\ ready' = [ready EXCEPT ![r] = -1]
    /\ UNCHANGED << loaded, phase, exit, setups, open, scheduler, jobs, runs, hook >>

\* A repository whose init_collection fails is logged and passed over.
RepoFails(r) ==
    /\ ready[r] > 0 /\ ready[r] <= Repos
    /\ ready' = [ready EXCEPT ![r] = @ + 1]
    /\ UNCHANGED << loaded, phase, exit, setups, open, scheduler, jobs, runs, hook >>

\* Tasks of which the schedule can be read.
Scheduled == {t \in tools : Configs[t].trigger = "task" /\ Configs[t].schedule = "cron"}

\* Mutant of start_scheduler: the scheduler set up before is not looked for.
SchedulesAgain(r) ==
    /\ ready[r] > 0 /\ ready[r] > Repos
    /\ ready' = [ready EXCEPT ![r] = -1]
    /\ scheduler' = TRUE /\ jobs' = jobs \o SetToSeq(Scheduled)
    /\ UNCHANGED << loaded, phase, exit, setups, open, runs, hook >>

start_scheduler(r) ==
    /\ ready[r] > 0 /\ ready[r] > Repos
    /\ ready' = [ready EXCEPT ![r] = -1]
    /\ IF scheduler THEN UNCHANGED << scheduler, jobs >>
       ELSE scheduler' = TRUE /\ jobs' = SetToSeq(Scheduled)
    /\ UNCHANGED << loaded, phase, exit, setups, open, runs, hook >>

-----------------------------------------------------------------------------
(* Runs of tasks, and messages.                                            *)

RunStarts(t) ==
    /\ runs[t] < MaxRuns
    /\ runs' = [runs EXCEPT ![t] = @ + 1]
    /\ UNCHANGED << loaded, phase, exit, setups, open, ready, scheduler, jobs, hook >>

\* The scheduler's thread hands _run_tool to the loop and does not wait for it.
_job(t) == scheduler /\ phase # "down" /\ t \in ToSet(jobs) /\ RunStarts(t)

\* POST /api/runtask: any task, scheduled or not, from the moment the server is open.
handle_api_runtask(t) ==
    "http" \in open /\ t \in tools /\ Configs[t].trigger = "task" /\ RunStarts(t)

\* _run_tool ends; an error of the tool is reported, and that is all.
_run_tool(t) ==
    /\ runs[t] > 0
    /\ runs' = [runs EXCEPT ![t] = @ - 1]
    /\ UNCHANGED << loaded, phase, exit, setups, open, ready, scheduler, jobs, hook >>

Hooks(n) ==
    /\ hook' = n
    /\ UNCHANGED << loaded, phase, exit, setups, open, ready, scheduler, jobs, runs >>

\* dispatch_on_message: in load order, until one claims the message or raises.
MessageArrives == phase = "connected" /\ hook = 0 /\ Extended # << >> /\ Hooks(1)
HookDeclines == hook # 0 /\ Hooks(IF hook = Len(Extended) THEN 0 ELSE hook + 1)
HookClaims == hook # 0 /\ Hooks(0)

-----------------------------------------------------------------------------
Loading == ImportsExtensions \/ set_extensions \/ ComposesConfig \/ LoadsTools
MainStep ==
    \/ SetsUp \/ SetUpFails \/ SetUpDone
    \/ start_dashboard_server \/ start_http_server \/ ServerFails
    \/ LogsIn \/ BotEnds \/ stop_http_server
ReadyStep(r) == FactoryRaises(r) \/ InitializesRepo(r) \/ RepoFails(r) \/ start_scheduler(r)

Next ==
    \/ Loading
    \/ MainStep
    \/ \E r \in 1 .. Readies : Ready(r) \/ ReadyStep(r)
    \/ \E t \in AllTools : _job(t) \/ handle_api_runtask(t) \/ _run_tool(t)
    \/ MessageArrives \/ HookDeclines \/ HookClaims

Spec == Init /\ [][Next]_vars

\* The loop runs what can run: a repository answers or its driver gives up.
FairSpec == Spec /\ \A r \in 1 .. Readies : WF_vars(ReadyStep(r))

-----------------------------------------------------------------------------
(* What is registered.  All of a list or nothing of it; what is looked up  *)
(* under a key is what the only extension that declares the key provides,  *)
(* and never in the place of the core; whatever an extension needs is      *)
(* there; no two pages have the same address, and no extension has a path  *)
(* below the prefix of another.                                            *)
RegistryConsistent ==
    /\ (phase \in {"import", "register"} \/ exit \in {"import", "register"})
            => registry = Registered(<< >>)
    /\ \A kind \in UniqueKinds : \A key \in DOMAIN registry.unique[kind] :
          /\ key \notin Reserved[kind]
          /\ {e \in ToSet(Extended) : key \in Decl[e].provides[kind]}
                = {registry.unique[kind][key]}
    /\ \A e \in ToSet(Extended) : \A kind \in NeededKinds :
          Decl[e].needs[kind] \subseteq DOMAIN registry.unique[kind] \cup Reserved[kind]
    /\ IsInjective(registry.pages)
    /\ \A i, j \in DOMAIN Extended :
          LET other == Decl[Extended[j]].name
              declared == Decl[Extended[i]].dashboard_routes
                              \cup Decl[Extended[i]].dashboard_public_routes
          IN  (\E path \in declared :
                  Under(ApiPrefix(other), path) \/ Under(PublicPrefix(other), path)) => i = j

(* Nothing is served, no event is handled and no task runs before every    *)
(* extension has been set up, and none is set up before those it requires. *)
SetUpBeforeServing ==
    /\ (open # {} \/ hook # 0 \/ (\E r \in 1 .. Readies : ready[r] > 0)
            \/ (\E t \in AllTools : runs[t] > 0)) => setups = Len(Extended)
    /\ setups > 0 =>
          \A name \in Decl[Extended[setups]].requires :
              \E i \in 1 .. setups - 1 : Decl[Extended[i]].name = name

(* While the HTTP server is open, a request without a token is answered by *)
(* a handler only if the route that was declared for this very method and  *)
(* path is open; the core's routes are answered by the core; and no route  *)
(* an extension declared is one that no request can reach.                 *)
Methods == {"GET", "HEAD", "POST", "OPTIONS"} \cup (Range(Upper) \ {"*"})
Stands(route, method, target) ==
    /\ target \in Matches[route.path]
    /\ \/ route.method \in {method, "*"}
       \/ route.method = "GET" /\ method = "HEAD"
DeclaredTable == ToSet(CoreRoutes \o registry.routes)
RoutesServedAsDeclared ==
    "http" \in open =>
        /\ \A method \in Methods, target \in UNION Range(Matches) :
              LET answer == Answer(HttpTable, method, target, FALSE) IN
                  answer \in {"preflight", "unauthorized"}
                      \/ \E route \in DeclaredTable :
                            /\ Stands(route, method, target)
                            /\ route.owner = answer /\ route.auth # "bearer"
        /\ \A route \in DeclaredTable :
              Literal(route.path) =>
                  \E method \in Methods :
                      /\ Stands(route, method, route.path)
                      /\ HttpTable[RouteOf(HttpTable, method, route.path)].owner = route.owner

(* However often Discord reports ready, there is one job for each task     *)
(* with a schedule and none for anything else.                             *)
JobsOnce ==
    /\ IsInjective(jobs)
    /\ ToSet(jobs) = IF scheduler THEN Scheduled ELSE {}

(* A conversation is offered exactly the loaded tools that can be reached  *)
(* from the set it uses, and a start is refused over the sets of tools     *)
(* only if one of them leads to itself, to a set that is not defined or to *)
(* a tool that is not loaded.                                              *)
Refers(sets, a, b) == << "set", b >> \in ToSet(sets[a])
\* What every group of sets holds that holds those name refers to, and those
\* that a member refers to.
Reached(sets, name) ==
    {b \in DOMAIN sets :
        \A group \in SUBSET DOMAIN sets :
            (\A a \in group \cup {name}, c \in DOMAIN sets : Refers(sets, a, c) => c \in group)
                => b \in group}
SoundSets(sets, names) ==
    \A a \in DOMAIN sets :
        /\ a \notin Reached(sets, a)
        /\ \A i \in DOMAIN sets[a] :
              \/ sets[a][i][1] = "tool" /\ sets[a][i][2] \in names
              \/ sets[a][i][1] = "set" /\ sets[a][i][2] \in DOMAIN sets \cup {Main}
ToolsOf(sets, name) ==
    {t \in AllTools : \E a \in Reached(sets, name) \cup {name} : << "tool", t >> \in ToSet(sets[a])}
ForModel == {t \in tools : Configs[t].trigger = "llm"}
ToolSetsSound ==
    LET sets == launch.yaml.sets IN
        /\ phase \notin {"import", "register", "compose", "tools", "down"} =>
              /\ SoundSets(sets, ForModel)
              /\ Main \in DOMAIN sets =>
                    \A client \in {"discord", "task"} :
                        Offered(sets, [t \in ForModel |-> Configs[t].client], client)
                          = {t \in ToolsOf(sets, Main) : Configs[t].client \in {"all", client}}
        /\ exit = "tools" =>
              \/ ~SoundSets(sets, {t \in DOMAIN LoadedTools(Extended, launch.user) :
                                       Configs[t].trigger = "llm"})
              \/ ~launch.scripts \/ ~ValidCommands(Extended)
              \/ ~ValidToolConfigs(Extended) \/ ~UnambiguousTools(Extended, launch.user)
              \/ ~_validate_no_runtime_key_collision(Extended, launch.user)

(* Once Discord has reported ready, the scheduler gets started, whichever  *)
(* repositories cannot be initialized, unless the bot ends first or the    *)
(* factory of a repository raises, which on_ready does not pass over.      *)
ReadySchedules ==
    \A r \in 1 .. Readies :
        ready[r] > 0 ~> scheduler \/ phase # "connected" \/ ready[r] = -2
=============================================================================
