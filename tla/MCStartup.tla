----------------------------- MODULE MCStartup ------------------------------
(* Instances of Startup: three extensions that fit together, eleven that *)
(* break one rule each, and settings and YAML files that are sound or not.        *)
EXTENDS Startup

Yaml(type, trigger) ==
    [type |-> type, trigger |-> trigger, enabled |-> "unset", beside |-> FALSE,
     keys |-> {}, schedule |-> "none", client |-> "all"]

Oauth == [Extension("oauth") EXCEPT
    !.section = "required", !.page = "admin", !.static_dir = TRUE, !.repos = 1,
    !.provides = [@ EXCEPT !.context = {"grant"}, !.env = {"secret"}],
    !.dashboard_routes = {<< "api", "oauth", "status" >>},
    !.dashboard_public_routes = {<< "oauth", "oauth", "callback" >>}]
Drive == [Extension("drive") EXCEPT
    !.requires = {"oauth"}, !.needs = [@ EXCEPT !.context = {"grant", "llm_tools"}],
    !.page = "main", !.static_dir = TRUE, !.section = "optional",
    !.tool_roots = << "drive_tools", "drive_tools_again" >>,
    !.tool_configs = [llm_drive |-> Yaml("drive_read", "llm"),
                      task_backup |-> [Yaml("backup.task", "task") EXCEPT !.schedule = "cron"]]]
Mobile == [Extension("mobile") EXCEPT
    !.provides = [@ EXCEPT !.delivery = {"mobile"}], !.hooks = {"mobile", "discord"},
    !.locale_dirs = TRUE, !.texts = {"mobile"}, !.command_packages = {"mobile.commands"},
    !.http_routes = << [method |-> "get", path |-> "/media/{f}", auth |-> "public"],
                       [method |-> "POST", path |-> "/media/{f}", auth |-> "bearer"],
                       [method |-> "*", path |-> "/ws", auth |-> "deferred"] >>]

\* Each of these breaks one rule, alone or beside one of the three above.
Broken ==
    [reserved |-> Extension("usage"),
     twin |-> Extension("oauth"),
     old |-> [Extension("old") EXCEPT !.api_version = "later"],
     copy |-> [Extension("copy") EXCEPT !.provides = [@ EXCEPT !.context = {"grant"}]],
     greedy |-> [Extension("greedy") EXCEPT !.provides = [@ EXCEPT !.delivery = {"discord"}]],
     needy |-> [Extension("needy") EXCEPT !.needs = [@ EXCEPT !.env = {"secret"}]],
     stray |-> [Extension("stray") EXCEPT !.dashboard_routes = {<< "api", "oauth" >>}],
     pageless |-> [Extension("pageless") EXCEPT !.page = "main"],
     head |-> [Extension("head") EXCEPT
        !.http_routes = << [method |-> "HEAD", path |-> "/", auth |-> "public"] >>],
     any |-> [Extension("any") EXCEPT
        !.http_routes = << [method |-> "*", path |-> "/media/{f}", auth |-> "bearer"] >>],
     loud |-> [Extension("loud") EXCEPT !.command_packages = {"loud.commands"}]]

Declared == [oauth |-> Oauth, drive |-> Drive, mobile |-> Mobile] @@ Broken
Packages ==
    (OfficialPackage \o << "oauth" >>) :> "oauth" @@ << "drive" >> :> "drive"
    @@ << "my", "mobile" >> :> "mobile" @@ << "bare" >> :> "bare" @@ << "broken" >> :> "broken"
    @@ (OfficialPackage \o << "broken" >>) :> "mobile"
    @@ [p \in {<< e >> : e \in DOMAIN Broken} |-> p[1]]

KeptKeys == [env |-> {"discord_token"}, context |-> {"llm_tools", "now"}, delivery |-> {"discord"}]
Capitals == [m \in {"get", "GET", "POST", "HEAD", "*"} |-> IF m = "get" THEN "GET" ELSE m]
Commands == [p \in {"lilla_core.commands", "mobile.commands", "loud.commands"} |->
    CASE p = "lilla_core.commands" -> {"help"} [] p = "mobile.commands" -> {"ring"}
      [] OTHER -> {"ring", "help"}]
PathsServed == [p \in {"/", "/api/selftest", "/api/tools/call", "/api/runtask", "/media/{f}", "/ws"} |->
    IF p = "/media/{f}" THEN {"/media/a", "/media/b"} ELSE {p}]

Found == [r \in {"tools", "drive_tools", "drive_tools_again"} |->
    IF r = "tools" THEN {"shared", "linked", "report"} ELSE {"drive_read", "shared"}]
Links == {<< "tools", "linked" >>}
Directories == [r \in DOMAIN Found \cup {BuiltinRoot} |->
    IF r = "drive_tools_again" THEN "drive_tools" ELSE r]

-----------------------------------------------------------------------------
Sets(main) == [main |-> main, reading |-> << << "tool", "llm_drive" >> >>]
TheLlm == [default |-> "cloud", providers |->
    [cloud |-> [type |-> "openai", target |-> "none"],
     chosen |-> [type |-> "resolver", target |-> "cloud"]]]
Settings(sections, sets) ==
    [extensions |-> sections, top |-> {"ui"}, llm |-> TheLlm, sets |-> sets]
Sound == Settings({"oauth"}, Sets(<< << "set", "reading" >>, << "tool", "llm_mine" >> >>))
NoSets == [s \in {} |-> << >>]

NoYaml == [s \in {} |-> Yaml("", "llm")]
Mine == [llm_mine |-> [Yaml("self", "llm") EXCEPT !.beside = TRUE, !.client = "discord"],
         llm_expert |-> Yaml("llm_expert", "llm"),
         task_mine |-> [Yaml("report", "task") EXCEPT !.schedule = "bad"]]

Start(spec, yaml, user) == [spec |-> spec, yaml |-> yaml, user |-> user, scripts |-> TRUE]

Three == << << "oauth" >>, << "drive" >>, << "my", "mobile" >> >>

\* The three extensions with settings and YAML files of every kind.
Full ==
    {Start(Three, Sound, Mine)}
    \cup {Start(Three, Settings({"oauth"}, s), Mine) :
        s \in {NoSets, Sets(<< << "set", "main" >> >>), Sets(<< << "set", "gone" >> >>),
               Sets(<< << "tool", "llm_gone" >> >>),
               [reading |-> << << "set", "main" >>, << "tool", "llm_drive" >> >>],
               [a |-> << << "set", "b" >> >>, b |-> << << "set", "c" >> >>,
                c |-> << << "tool", "llm_mine" >>, << "set", "b" >> >>],
               [main |-> << << "set", "a" >>, << "set", "b" >> >>,
                a |-> << << "set", "b" >> >>, b |-> << << "tool", "llm_mine" >> >>]}}
    \cup {Start(Three, y, Mine) :
        y \in {Settings({}, NoSets), Settings({"oauth", "other"}, NoSets),
               [Sound EXCEPT !.top = {"oauth"}],
               [Sound EXCEPT !.llm = [@ EXCEPT !.default = "gone"]],
               [Sound EXCEPT !.llm = [@ EXCEPT !.providers =
                    [@ EXCEPT !["cloud"] = [@ EXCEPT !.target = "chosen"]]]]}}
    \cup {Start(Three, Settings({"oauth", "drive"}, NoSets), u) :
        u \in {[llm_drive |-> [Yaml("drive_read", "llm") EXCEPT !.enabled = "false"]],
               [llm_other |-> Yaml("shared", "llm")],
               [llm_other |-> [Yaml("shared", "llm") EXCEPT !.enabled = "false"]],
               [llm_keys |-> [Yaml("self", "llm") EXCEPT !.beside = TRUE, !.keys = {"grant"}]],
               [task_mine |-> [Yaml("self", "task") EXCEPT !.schedule = "cron"],
                llm_link |-> Yaml("linked", "llm"), llm_none |-> Yaml("self", "llm"),
                llm_typeless |-> Yaml("", "llm"), llm_gone |-> Yaml("gone.module", "llm")]}}
    \cup {[Start(Three, Sound, Mine) EXCEPT !.scripts = FALSE]}

\* Lists of extensions of every kind.
Lists ==
    {<< >>, << << "gone" >> >>, << << "bare" >> >>, << << "broken" >> >>, << << "my", "gone" >> >>,
     << << "drive" >>, << "oauth" >> >>}
    \cup {<< << e >> >> : e \in DOMAIN Broken}
    \cup {<< << "oauth" >>, << e >> >> : e \in DOMAIN Broken}
    \cup {<< << "my", "mobile" >>, << e >> >> : e \in DOMAIN Broken}
AllLaunches ==
    Full \cup {Start(l, Settings(IF << "oauth" >> \in ToSet(l) THEN {"oauth"} ELSE {}, NoSets), NoYaml) :
                  l \in Lists}
=============================================================================
