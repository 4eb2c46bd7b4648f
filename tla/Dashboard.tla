----------------------------- MODULE Dashboard -----------------------------
(***************************************************************************)
(* Who may use the dashboard: handlers/dashboard_server.py with the        *)
(* repositories admin_credential and admin_session.                        *)
(*                                                                         *)
(* A request is what aiohttp hands to auth_middleware.  What it does       *)
(* between two awaits is one action; an operation on MongoDB takes effect  *)
(* in one action and the coroutine goes on in a later one whenever it then *)
(* reads or writes the memory of the process.  A bcrypt hash stands for    *)
(* its password, a session id and a token for the one that made them.      *)
(***************************************************************************)
EXTENDS WebCalls, Integers, Sequences, FiniteSets

CONSTANTS
    Passwords,      \* what the password field of a request may hold
    validate_password(_),       \* whether a password may be registered
    Ips,
    LOGIN_MAX_FAILURES,
    LOGIN_ATTEMPT_WINDOW,       \* in ticks of the clock
    _LOGIN_FAILURES_MAX_ENTRIES,
    SESSION_TTL,                \* in ticks of the clock
    MaxTime,        \* bound: ticks
    MaxRestarts,    \* bound: restarts of the process
    MaxDeletions    \* bound: deletions of admin_credentials by hand

VARIABLES
    now,            \* the clock
    credential,     \* admin_credentials: [password, by], or None
    deletions,      \* how often it was deleted by hand
    sessions,       \* admin_sessions: [id, expires_at], id the login's call
    setup_token,    \* _setup_token: the n-th one issued, or 0
    issued,         \* how many set-up tokens were issued
    failures,       \* _login_failures: [by, at] of an address's failures
    logins,         \* the log of this process: [by, ip, ok, at] of checked logins
    restarts,
    requests        \* requests[c]: the request of call c, Blank before

dashboardVars == << now, credential, deletions, sessions, setup_token, issued,
                    failures, logins, restarts, requests >>
db == << credential, deletions, sessions >>
memory == << setup_token, issued, failures, logins >>
outside == << now, restarts >>

None == [none |-> TRUE]

(* A request.  Of a set-up: what the save did and after how many deletions *)
(* (save, epoch); of a login: the hash it read and the expiry of the       *)
(* session it makes; of a page that is served: when it looked the session  *)
(* up, and the log-outs of its cookie that had been answered (ended).      *)
Blank == [kind |-> "none", at |-> "idle", status |-> 0, ip |-> "none", password |-> "none",
          token |-> 0, required |-> FALSE, save |-> "none", epoch |-> 0, read |-> "none",
          expires_at |-> 0, cookie |-> None, looked |-> 0, ended |-> {}]

ASSUME DashboardAssumption ==
    /\ {LOGIN_MAX_FAILURES, LOGIN_ATTEMPT_WINDOW, SESSION_TTL} \subseteq Nat \ {0}
    /\ {_LOGIN_FAILURES_MAX_ENTRIES, MaxTime, MaxRestarts, MaxDeletions} \subseteq Nat

IsA(c, kind) == requests[c].kind = kind
Answered(c, status) == requests[c].at = "done" /\ requests[c].status = status
Saves(c) == requests[c].save # "none"

(* An answer after which nothing of the request is left but its status.    *)
Reply(kind, status) ==
    [Blank EXCEPT !.kind = kind, !.at = "done", !.status = status]

(* Steps of a request: it arrives, goes on with more known, is answered.   *)
Becomes(c, request) == requests' = [requests EXCEPT ![c] = request]
Arrives(c, request) == requests[c].at = "idle" /\ Becomes(c, request)
Ends(c, status) == Becomes(c, [requests[c] EXCEPT !.at = "done", !.status = status])
Replies(c, status) == Becomes(c, Reply(requests[c].kind, status))

-----------------------------------------------------------------------------
(* The set-up token.                                                       *)

_ensure_setup_token ==
    /\ setup_token' = IF setup_token = 0 THEN issued + 1 ELSE setup_token
    /\ issued' = IF setup_token = 0 THEN issued + 1 ELSE issued

_discard_setup_token == setup_token' = 0 /\ UNCHANGED issued

_is_valid_setup_token(token) == setup_token # 0 /\ token = setup_token

(* auth_middleware reads whether a password is registered before the       *)
(* handler runs; the owner has read a token in the log, or none.           *)
SetupArrives(c) ==
    /\ IF credential # None THEN Arrives(c, Reply("setup", 403))
       ELSE \E password \in Passwords, token \in 0 .. issued :
              Arrives(c, [Blank EXCEPT !.kind = "setup", !.at = "body",
                                       !.password = password, !.token = token])
    /\ UNCHANGED << db, memory, outside >>

handle_api_setup(c) ==
    /\ IsA(c, "setup") /\ requests[c].at = "body"
    /\ \/ /\ ~_is_valid_setup_token(requests[c].token)
          /\ Replies(c, 403)
          /\ _ensure_setup_token
       \/ /\ _is_valid_setup_token(requests[c].token)
          /\ IF validate_password(requests[c].password)
             THEN Becomes(c, [requests[c] EXCEPT !.at = "hash"])
             ELSE Replies(c, 400)
          /\ UNCHANGED << setup_token, issued >>
    /\ UNCHANGED << db, failures, logins, outside >>

(* $setOnInsert on the one document.  For the mutant: $set.                *)
SaveOverwrites(c) ==
    /\ credential' = [password |-> requests[c].password, by |-> c]
    /\ UNCHANGED << deletions, sessions >>
save_password_hash(c) ==
    /\ credential' = IF credential = None
                     THEN [password |-> requests[c].password, by |-> c] ELSE credential
    /\ UNCHANGED << deletions, sessions >>

(* upserted_id tells whether the document was inserted.                    *)
Upsert(request) ==
    [request EXCEPT !.save = IF credential = None THEN "upserted" ELSE "matched",
                    !.epoch = deletions]

SetupSaves(c) ==
    /\ IsA(c, "setup") /\ requests[c].at = "hash"
    /\ save_password_hash(c)
    /\ Becomes(c, [Upsert(requests[c]) EXCEPT !.at = "saved"])
    /\ UNCHANGED << memory, outside >>

(* The call raises, whether MongoDB applied it or not: 500, the token stays *)
SaveRaises(c) ==
    /\ IsA(c, "setup") /\ requests[c].at = "hash"
    /\ \/ /\ save_password_hash(c)
          /\ Becomes(c, [Upsert(requests[c]) EXCEPT !.at = "done", !.status = 500])
       \/ UNCHANGED db /\ Replies(c, 500)
    /\ UNCHANGED << memory, outside >>

SetupDone(c) ==
    /\ IsA(c, "setup") /\ requests[c].at = "saved"
    /\ _discard_setup_token
    /\ Ends(c, IF requests[c].save = "upserted" THEN 201 ELSE 403)
    /\ UNCHANGED << db, failures, logins, outside >>

(* GET /api/auth/status: the answer of the read may be old when it is used. *)
StatusArrives(c) ==
    /\ Arrives(c, [Blank EXCEPT !.kind = "status", !.at = "read",
                                !.required = (credential = None)])
    /\ UNCHANGED << db, memory, outside >>

handle_api_auth_status(c) ==
    /\ IsA(c, "status") /\ requests[c].at = "read"
    /\ IF requests[c].required THEN _ensure_setup_token
       ELSE UNCHANGED << setup_token, issued >>
    /\ Replies(c, 200)
    /\ UNCHANGED << db, failures, logins, outside >>

-----------------------------------------------------------------------------
(* Logging in.                                                             *)

Live(failed) == {f \in failed : now - f.at < LOGIN_ATTEMPT_WINDOW}

(* The addresses with an entry are counted before the new failure is added.*)
Purges == Cardinality({i \in Ips : failures[i] # {}}) > _LOGIN_FAILURES_MAX_ENTRIES

(* For the mutant: over the limit everything is dropped.                    *)
PurgesAll(c) ==
    LET kept == IF Purges THEN [i \in Ips |-> {}] ELSE failures
    IN [kept EXCEPT ![requests[c].ip] = @ \cup {[by |-> c, at |-> now]}]

_record_login_failure(c) ==
    LET kept == IF Purges THEN [i \in Ips |-> IF Live(failures[i]) = {} THEN {} ELSE failures[i]]
                ELSE failures
    IN [kept EXCEPT ![requests[c].ip] = @ \cup {[by |-> c, at |-> now]}]
_clear_login_failures(c) == [failures EXCEPT ![requests[c].ip] = {}]

(* _is_login_blocked drops what the window no longer holds.                *)
LoginArrives(c) ==
    /\ \E ip \in Ips, password \in Passwords :
         LET live == Live(failures[ip])
         IN /\ failures' = [failures EXCEPT ![ip] = live]
            /\ Arrives(c, IF Cardinality(live) >= LOGIN_MAX_FAILURES THEN Reply("login", 429)
                          ELSE [Blank EXCEPT !.kind = "login", !.at = "body", !.ip = ip,
                                             !.password = password])
    /\ UNCHANGED << db, setup_token, issued, logins, outside >>

get_password_hash(c) ==
    /\ IsA(c, "login") /\ requests[c].at = "body"
    /\ IF credential = None THEN Replies(c, 403)
       ELSE Becomes(c, [requests[c] EXCEPT !.at = "check", !.read = credential.password])
    /\ UNCHANGED << db, memory, outside >>

handle_api_login(c) ==
    /\ IsA(c, "login") /\ requests[c].at = "check"
    /\ LET ok == requests[c].password = requests[c].read
       IN /\ failures' = IF ok THEN _clear_login_failures(c) ELSE _record_login_failure(c)
          /\ logins' = Append(logins, [by |-> c, ip |-> requests[c].ip, ok |-> ok, at |-> now])
          /\ IF ok THEN Becomes(c, [requests[c] EXCEPT !.at = "create",
                                          !.expires_at = now + SESSION_TTL])
             ELSE Replies(c, 401)
    /\ UNCHANGED << db, setup_token, issued, outside >>

create_session(c) ==
    /\ sessions' = sessions \cup {[id |-> c, expires_at |-> requests[c].expires_at]}
    /\ UNCHANGED << credential, deletions >>

LoggedIn(c) ==
    /\ IsA(c, "login") /\ requests[c].at = "create"
    /\ \/ create_session(c) /\ Ends(c, 200)
       \/ (create_session(c) \/ UNCHANGED db) /\ Replies(c, 500)
    /\ UNCHANGED << memory, outside >>

-----------------------------------------------------------------------------
(* Being logged in.  A browser sends the cookie it was given, or none.     *)

Cookies == {d \in Calls : IsA(d, "login") /\ Answered(d, 200)}

find_valid(cookie) == \E s \in sessions : s.id = cookie /\ s.expires_at > now

(* Any request that is neither exempt nor the set-up is served in a valid  *)
(* session only; ended: the log-outs of that cookie answered before.       *)
PageArrives(c) ==
    /\ \E cookie \in Cookies \cup {None} :
         LET served == cookie # None /\ find_valid(cookie)
             ended == {d \in Calls : IsA(d, "logout") /\ Answered(d, 200)
                                     /\ requests[d].cookie = cookie}
         IN Arrives(c, IF served THEN [Reply("page", 200) EXCEPT !.cookie = cookie,
                                           !.looked = now, !.ended = ended]
                       ELSE Reply("page", 401))
    /\ UNCHANGED << db, memory, outside >>

LogoutArrives(c) ==
    /\ \E cookie \in Cookies :
         Arrives(c, IF find_valid(cookie)
                    THEN [Blank EXCEPT !.kind = "logout", !.at = "delete", !.cookie = cookie]
                    ELSE Reply("logout", 401))
    /\ UNCHANGED << db, memory, outside >>

delete_session(c) ==
    /\ sessions' = {s \in sessions : s.id # requests[c].cookie}
    /\ UNCHANGED << credential, deletions >>

(* MongoDB may raise, whether it applied the deletion or not.              *)
handle_api_logout(c) ==
    /\ IsA(c, "logout") /\ requests[c].at = "delete"
    /\ \/ delete_session(c) /\ Ends(c, 200)
       \/ (delete_session(c) \/ UNCHANGED db) /\ Replies(c, 500)
    /\ UNCHANGED << memory, outside >>

-----------------------------------------------------------------------------
(* The surroundings.                                                       *)

Tick == now < MaxTime /\ now' = now + 1 /\ UNCHANGED << db, memory, restarts, requests >>

(* MongoDB removes what has expired, some time later.                      *)
TtlDeletes ==
    /\ \E s \in sessions : s.expires_at <= now /\ sessions' = sessions \ {s}
    /\ UNCHANGED << credential, deletions, memory, outside, requests >>

(* docs/en/dashboard.md: who forgot the password deletes the record.       *)
DeletedByHand ==
    /\ credential # None /\ deletions < MaxDeletions
    /\ credential' = None /\ deletions' = deletions + 1
    /\ UNCHANGED << sessions, memory, outside, requests >>

(* _prepare_setup_token_on_startup, before the server listens; the check   *)
(* may fail.                                                               *)
Prepared(n) ==
    \/ setup_token' = 0 /\ issued' = n
    \/ credential = None /\ setup_token' = n + 1 /\ issued' = n + 1

Lost(c) == IF requests[c].at \in {"idle", "done"} THEN requests[c]
           ELSE IF Saves(c) THEN [requests[c] EXCEPT !.at = "lost"]
           ELSE [Blank EXCEPT !.kind = requests[c].kind, !.at = "lost"]

Restart ==
    /\ restarts < MaxRestarts /\ restarts' = restarts + 1
    /\ Prepared(issued)
    /\ failures' = [i \in Ips |-> {}] /\ logins' = << >>
    /\ requests' = [c \in Calls |-> Lost(c)]
    /\ UNCHANGED << db, now >>

DashboardInit ==
    /\ now = 0 /\ deletions = 0 /\ restarts = 0 /\ sessions = {}
    /\ \/ /\ credential = None
          /\ setup_token = 1 /\ issued = 1
       \/ /\ \E p \in Passwords : validate_password(p) /\ credential = [password |-> p, by |-> None]
          /\ setup_token = 0 /\ issued = 0
    /\ failures = [i \in Ips |-> {}] /\ logins = << >>
    /\ requests = [c \in Calls |-> Blank]

Request(c) ==
    \/ SetupArrives(c) \/ handle_api_setup(c) \/ SetupSaves(c) \/ SaveRaises(c)
    \/ SetupDone(c) \/ StatusArrives(c) \/ handle_api_auth_status(c)
    \/ LoginArrives(c) \/ get_password_hash(c) \/ handle_api_login(c) \/ LoggedIn(c)
    \/ PageArrives(c) \/ LogoutArrives(c) \/ handle_api_logout(c)

DashboardNext ==
    \/ \E c \in Calls : Request(c)
    \/ Tick \/ TtlDeletes \/ DeletedByHand

DashboardSpec == DashboardInit /\ [][DashboardNext \/ Restart]_dashboardVars

-----------------------------------------------------------------------------
(* Properties.                                                             *)

(* Between two deletions by hand one set-up request registers a password,  *)
(* whatever others pass auth_middleware meanwhile, and it stays that one:  *)
(* save_password_hash never overwrites.                                    *)
OnePassword ==
    LET Saved == {c \in Calls : requests[c].save = "upserted"}
    IN /\ \A c, d \in Saved : requests[c].epoch = requests[d].epoch => c = d
       /\ \A c \in Saved : requests[c].epoch = deletions =>
              credential = [password |-> requests[c].password, by |-> c]

(* Once a set-up request that came to the save is answered, registered or  *)
(* not, the token it carried opens nothing any more (_discard_setup_token).*)
UsedTokensDead ==
    \A c \in Calls : requests[c].at = "done" /\ Saves(c) /\ requests[c].status # 500 =>
        ~_is_valid_setup_token(requests[c].token)

(* A page is served only to who logged in with the password then           *)
(* registered, before the session expires, and never after a log-out with  *)
(* that cookie was answered, whatever ran in between.                      *)
SessionsEarned ==
    \A c \in Calls : IsA(c, "page") /\ Answered(c, 200) =>
        LET login == requests[requests[c].cookie] IN
        /\ login.password = login.read
        /\ requests[c].looked < login.expires_at
        /\ requests[c].ended = {}

DashboardAccess == OnePassword /\ UsedTokensDead /\ SessionsEarned

(* The throttle counts exactly the failures of an address that the window  *)
(* holds since its last successful login, for all the pruning, clearing    *)
(* and purging of _login_failures: none is dropped, none stays.            *)
FailedSince(ip) ==
    {k \in DOMAIN logins : logins[k].ip = ip /\
        \A j \in k .. Len(logins) : logins[j].ip = ip => ~logins[j].ok}
ThrottleCountsFailures ==
    \A ip \in Ips :
        Live(failures[ip]) = Live({[by |-> logins[k].by, at |-> logins[k].at] :
                                       k \in FailedSince(ip)})
=============================================================================
