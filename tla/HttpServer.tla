---------------------------- MODULE HttpServer ------------------------------
(***************************************************************************)
(* The routes of the shared HTTP server and who may use them:              *)
(* handlers/http_server.py, with aiohttp's router modelled from its use.   *)
(***************************************************************************)
EXTENDS Naturals, Sequences, FiniteSets, SequencesExt

CONSTANTS
    Matches,     \* Matches[path]: the requested paths a route's path stands for
    CorsOrigins  \* http.cors_allowed_origins

CoreRoutes ==
    << [method |-> "GET", path |-> "/", auth |-> "public", owner |-> "core"],
       [method |-> "GET", path |-> "/api/selftest", auth |-> "bearer", owner |-> "core"],
       [method |-> "POST", path |-> "/api/tools/call", auth |-> "bearer", owner |-> "core"],
       [method |-> "POST", path |-> "/api/runtask", auth |-> "bearer", owner |-> "core"] >>

\* _add_route: a GET is there as HEAD too, behind the same authentication.
_add_route(r) ==
    IF r.method = "GET" THEN << r, [r EXCEPT !.method = "HEAD"] >> ELSE << r >>

\* build_http_app: the core's routes, then the extensions'.
build_http_app(routes) ==
    FlattenSeq([i \in DOMAIN (CoreRoutes \o routes) |-> _add_route((CoreRoutes \o routes)[i])])

\* The router keeps routes of the same path that follow each other together and
\* raises when one of them could never be reached.
RouterRaises(table) ==
    \E i, j \in DOMAIN table :
        /\ i < j
        /\ \A k \in i .. j : table[k].path = table[i].path
        /\ table[i].method \in {table[j].method, "*"}

\* The route that gets a request: a literal path before a template, then the one
\* added first; 0 if there is none.
Literal(path) == Matches[path] = {path}
Candidates(table, method, target) ==
    {i \in DOMAIN table : target \in Matches[table[i].path] /\ table[i].method \in {method, "*"}}
RouteOf(table, method, target) ==
    LET all == Candidates(table, method, target)
        literal == {i \in all : Literal(table[i].path)}
        first == IF literal # {} THEN literal ELSE all
    IN  IF all = {} THEN 0 ELSE CHOOSE i \in first : \A j \in first : i <= j

\* cors_middleware answers OPTIONS itself; auth_middleware lets through what the
\* matched route declares open, and asks for a token for everything else, unknown
\* paths included.
Answer(table, method, target, token) ==
    LET i == RouteOf(table, method, target) IN
    CASE CorsOrigins # {} /\ method = "OPTIONS" -> "preflight"
      [] (CorsOrigins = {} \/ method # "OPTIONS")
            /\ i # 0 /\ (table[i].auth \in {"public", "deferred"} \/ token) -> table[i].owner
      [] (CorsOrigins = {} \/ method # "OPTIONS") /\ i = 0 /\ token -> "not found"
      [] OTHER -> "unauthorized"
=============================================================================
