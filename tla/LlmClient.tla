----------------------------- MODULE LlmClient -----------------------------
(***************************************************************************)
(* One call to a language model: api/llm_client.py with                    *)
(* core/llm_send_guard.py, services/llm_resolver.py, services/llm_usage.py *)
(* and core/llm_call_origin.py.                                            *)
(*                                                                         *)
(* A conversation is one coroutine and has one call under way at a time.   *)
(* call.at is the await it is suspended in: "post" during an attempt,      *)
(* "sleep" between attempts.  What happens between two awaits is one step: *)
(* choosing the provider, the check against the blocklist and the first    *)
(* send belong to the step that makes the call.                            *)
(*                                                                         *)
(* Seconds are natural numbers.  The task that writes a usage record is    *)
(* left out: it runs beside the call and nothing waits for it.             *)
(***************************************************************************)
EXTENDS Integers, Sequences

CONSTANTS
    Concrete,       \* the providers that are sent requests
    Resolvers,      \* the providers that are scripts choosing one of those
    Default,        \* llm.default
    Fallback,       \* Fallback[r]: where resolver r leads when it does not choose
    Apis,           \* Apis[p]: the APIs the adapters of p's type offer
    MaxRetries, Backoff, MaxWait, RetryOnTimeout,   \* settings of each provider
    RetryAfters,    \* the Retry-After headers that occur, in seconds
    GuardOn,        \* whether llm.send_blocklist_path is set
    Tools,          \* the names of the tools, which label usage records
    None

Keys == Concrete \cup Resolvers
ApiKinds == {"chat", "tools", "responses"}

ASSUME ProvidersAssumption ==
    /\ Concrete \cap Resolvers = {}
    /\ Default \in Keys
    /\ Fallback \in [Resolvers -> Concrete]
    /\ Apis \in [Concrete -> SUBSET ApiKinds]
ASSUME RetryAssumption ==
    /\ MaxRetries \in [Concrete -> Nat]
    /\ Backoff \in [Concrete -> Nat] /\ MaxWait \in [Concrete -> Nat]
    /\ RetryOnTimeout \in [Concrete -> BOOLEAN]
    /\ RetryAfters \subseteq Nat
ASSUME GuardAssumption == GuardOn \in BOOLEAN
ASSUME NamesAssumption == None \notin Keys \cup Tools \cup Nat

VARIABLES
    call,    \* the call under way, or the outcome of the last one
    origin   \* the innermost tool in the context variable, or None

clientVars == << call, origin >>

Call == [at : {"idle", "post", "sleep", "answered", "failed", "refused"},
         provider : Concrete, bad : BOOLEAN, attempt : Nat, waited : Nat,
         records : Seq([entry : Tools \cup {None}, provider : Concrete])]

ClientTypeOK == call \in Call /\ origin \in Tools \cup {None}

NoCall(p) == [at |-> "idle", provider |-> p, bad |-> FALSE, attempt |-> 0,
              waited |-> 0, records |-> << >>]

ClientInit ==
    /\ call \in {NoCall(p) : p \in Concrete}
    /\ origin = None

-----------------------------------------------------------------------------
(* Which provider.                                                         *)

OrDefault(key) == IF key = None THEN Default ELSE key

\* _resolve_provider: a direct call with a resolver's name uses its fallback.
Sent(key) ==
    LET k == OrDefault(key) IN IF k \in Resolvers THEN Fallback[k] ELSE k

\* resolve_llm_name: the script may choose any concrete provider; whatever
\* else it does leads to the fallback.
Resolved(key) ==
    LET k == OrDefault(key) IN IF k \in Resolvers THEN Concrete ELSE {k}

-----------------------------------------------------------------------------
(* The call.                                                               *)

\* ensure_llm_request_allowed, with bad for "a text of the request, however
\* old, holds a term of the blocklist".
Allowed(bad) == ~ (GuardOn /\ bad)

\* _call up to the first await.  The adapter is selected before the check.
MakeCall(key, api, bad) ==
    LET p == Sent(key) IN
    call' = [NoCall(p) EXCEPT
                !.bad = bad,
                !.at = CASE api \notin Apis[p] -> "failed"
                         [] api \in Apis[p] /\ ~ Allowed(bad) -> "refused"
                         [] OTHER -> "post",
                !.attempt = IF api \in Apis[p] /\ Allowed(bad) THEN 1 ELSE 0]

Busy == call.at \in {"post", "sleep"}

\* A mutation: a record for every reply, readable or not.
RecordsEager(readable) == TRUE

\* record_llm_usage is reached only when the reply could be read.
Records(readable) == readable

\* The provider replied; json.loads and parse_response may still fail.
Replied ==
    /\ call.at = "post"
    /\ \E readable \in BOOLEAN :
          call' = [call EXCEPT
                      !.at = IF readable THEN "answered" ELSE "failed",
                      !.records = IF Records(readable)
                                  THEN Append(@, [entry |-> origin,
                                                  provider |-> call.provider])
                                  ELSE @]
    /\ UNCHANGED origin

\* How an attempt fails: a status worth a retry with its Retry-After, another
\* status or error, the time limit of the attempt, a lost connection.
Failures == [kind : {"status", "other", "timeout", "dropped"},
             after : RetryAfters \cup {None}]

\* A mutation: a Retry-After is waited out, however long.
RetryWaitsPatient(p, e, n) ==
    IF e.kind \in {"status", "dropped"}
    THEN {IF e.after = None THEN MaxWait[p] ELSE e.after}
    ELSE {}

Capped(w, p) == IF w <= MaxWait[p] THEN w ELSE MaxWait[p]

\* _retry_wait: the seconds to wait before retry n, none if there is no retry.
RetryWaits(p, e, n) ==
    LET base == Backoff[p] * 2 ^ (n - 1) IN
    CASE e.kind = "other" -> {}
      [] e.kind = "timeout" /\ ~ RetryOnTimeout[p] -> {}
      [] e.kind = "status" /\ e.after # None -> {e.after} \cap 0 .. MaxWait[p]
      [] OTHER -> {Capped(w, p) : w \in base .. (3 * base) \div 2}

IsLast(p, n) == n > MaxRetries[p]

AttemptFails ==
    /\ call.at = "post"
    /\ \E e \in Failures :
          LET waits == IF IsLast(call.provider, call.attempt) THEN {}
                       ELSE RetryWaits(call.provider, e, call.attempt)
          IN  \/ waits = {} /\ call' = [call EXCEPT !.at = "failed"]
              \/ \E w \in waits :
                    call' = [call EXCEPT !.at = "sleep", !.waited = @ + w]
    /\ UNCHANGED origin

SleepOver ==
    /\ call.at = "sleep"
    /\ call' = [call EXCEPT !.at = "post", !.attempt = @ + 1]
    /\ UNCHANGED origin

ClientNext == Replied \/ AttemptFails \/ SleepOver

-----------------------------------------------------------------------------
(* What a call promises.                                                   *)

\* "At most max_retries + 1 requests are sent", and the retries delay a call
\* by at most retry_max_wait_seconds each (docs/en/llm-retry.md), whatever
\* Retry-After headers the provider sends: _post_with_retries, _retry_wait.
RetriesBounded ==
    /\ call.attempt <= MaxRetries[call.provider] + 1
    /\ call.waited <= MaxRetries[call.provider] * MaxWait[call.provider]

\* A call that answered is recorded once, under the provider that was sent the
\* request; failed attempts and failed calls are not recorded.
AnswersRecorded ==
    /\ call.at = "answered" => Len(call.records) = 1
    /\ call.at # "answered" => call.records = << >>
    /\ \A i \in DOMAIN call.records :
          call.records[i].provider = call.provider
=============================================================================
