------------------------------ MODULE ToolLoop ------------------------------
(***************************************************************************)
(* A conversation with tools: services/conversation_service.py             *)
(* (_run_conversation), services/tool_loop.py, builtin_tools/llm_expert.py *)
(* and loaders/llm_tool_loader.py (execute_tool_call), on top of the calls *)
(* of LlmClient.                                                           *)
(*                                                                         *)
(* The coroutine is a stack of frames: the conversation at the bottom, a   *)
(* tool it executes above it, a tool that one calls above that.  An expert *)
(* is a tool with a tool loop of its own.  Only the top frame moves.       *)
(*                                                                         *)
(* The message list of a loop is abstracted to the tool calls in it that   *)
(* have no tool message yet (open) and to whether any of its texts is on   *)
(* the blocklist (bad): one of the history, or one that a round added, the *)
(* model's arguments as well as what the tools gave back.  A model may ask *)
(* for any name, known or not.                                             *)
(***************************************************************************)
EXTENDS LlmClient

CONSTANTS
    Kind,                 \* Kind[t]: "plain", "wrapper" (uses call_tool), "expert"
    Config,               \* Config[t]: t's YAML, the keys an expert reads
    FinalReply,           \* FinalReply[p]: p's final_reply_provider, or None
    MaxIterations,        \* llm.max_tool_call_iterations
    LimitModes,           \* the values of llm.on_tool_call_limit to look at
    MAX_TOOL_CALL_DEPTH,
    MaxCalls              \* bound: tool calls in one reply of a model

\* The keys of llm_expert that a YAML may leave out: the provider, the API and
\* the tools offered (only whether there are any matters here).
Legal == [llm_provider |-> Keys, api |-> {"chat_completions", "responses"},
          available_tools |-> {"some", "none"}]
Settings ==
    {s \in UNION {[names -> UNION {Legal[k] : k \in DOMAIN Legal}] :
                     names \in SUBSET DOMAIN Legal} :
        \A k \in DOMAIN s : s[k] \in Legal[k]}

ASSUME ToolsAssumption ==
    /\ Kind \in [Tools -> {"plain", "wrapper", "expert"}]
    /\ Config \in [Tools -> Settings]
ASSUME LimitsAssumption ==
    /\ MaxIterations \in Nat /\ MAX_TOOL_CALL_DEPTH \in Nat
    /\ MaxCalls \in Nat \ {0} /\ LimitModes \subseteq {"summarize", "message"}
ASSUME FinalReplyAssumption == FinalReply \in [Concrete -> Concrete \cup {None}]

VARIABLES
    stack,   \* the frames, the conversation first
    key,     \* the conversation's llm_name
    onLimit, \* llm.on_tool_call_limit
    reply    \* what run_conversation returned or raised

chosen == << key, onLimit >>   \* do not change

vars == << clientVars, stack, chosen, reply >>

Top == stack[Len(stack)]

\* A frame.  tool, outer: the tool and the origin to go back to; settings: the
\* YAML keys in its context; rounds, budget: iterations and max_iterations of
\* its loop; provider: the one used last; fixed: llm_name of the loop, if it
\* does not select; left: calls of the last reply still to be looked at; auth:
\* needs_auth_list is not empty; kept: nor is that of the first loop; seen: a
\* result asked for authentication; asked: requests made; first: the provider
\* the first loop of a conversation ended with; used: call_tool was used.
Blank ==
    [kind |-> "tool", tool |-> None, at |-> "start", settings |-> [k \in {} |-> None],
     outer |-> None, depth |-> 0, budget |-> 0, rounds |-> 0,
     provider |-> None, fixed |-> None, rewriting |-> FALSE, left |-> 0,
     open |-> 0, bad |-> FALSE, auth |-> FALSE, kept |-> FALSE,
     seen |-> FALSE, asked |-> 0, first |-> None, used |-> FALSE]

NoReply == [kind |-> "none", writer |-> None, first |-> None, notice |-> FALSE,
            seen |-> FALSE]

\* Bound: requests are counted up to the first one too many.
AskedBound == MaxIterations + 3

Frame ==
    [kind : {"conversation", "tool", "expert"}, tool : Tools \cup {None},
     at : {"start", "select", "asked", "calls", "summary", "single", "stopped",
           "over"},
     settings : Settings, outer : Tools \cup {None}, depth : Nat,
     budget : 0 .. MaxIterations, rounds : 0 .. MaxIterations,
     provider : Keys \cup {None}, fixed : Keys \cup {None},
     rewriting : BOOLEAN, left : 0 .. MaxCalls, open : 0 .. MaxCalls,
     bad : BOOLEAN, auth : BOOLEAN, kept : BOOLEAN, seen : BOOLEAN,
     asked : 0 .. AskedBound, first : Keys \cup {None}, used : BOOLEAN]

LoopTypeOK ==
    /\ origin \in Tools \cup {None}
    /\ stack \in Seq(Frame) /\ stack # << >>
    /\ key \in Keys \cup {None}
    /\ onLimit \in LimitModes
    /\ reply \in [kind : {"none", "reply", "fixed", "error"},
                  writer : Keys \cup {None}, first : Keys \cup {None},
                  notice : BOOLEAN, seen : BOOLEAN]

TypeOK == ClientTypeOK /\ LoopTypeOK

Init ==
    /\ ClientInit
    /\ stack = << [Blank EXCEPT !.kind = "conversation"] >>
    /\ key \in Keys \cup {None}
    /\ onLimit \in LimitModes
    /\ reply = NoReply

-----------------------------------------------------------------------------
(* Frames.                                                                 *)

Replace(f) == stack' = [stack EXCEPT ![Len(stack)] = f]
Goes(f) == Replace(f) /\ UNCHANGED << clientVars, chosen, reply >>

\* A frame of a loop makes a request; the others wait for nothing.
Asks(f, k, api) ==
    /\ MakeCall(k, api, f.bad)
    /\ Replace([f EXCEPT !.asked = IF @ < AskedBound THEN @ + 1 ELSE @])
    /\ UNCHANGED << origin, chosen, reply >>

Heard == call.at \in {"answered", "failed", "refused"}

\* {**context, **tool_config} in execute_tool_call.
Merged(context, config) ==
    [k \in DOMAIN context \cup DOMAIN config |->
        IF k \in DOMAIN config THEN config[k] ELSE context[k]]

\* A mutation: an expert of an expert is not counted.
DepthWithin(f) == IF f.kind = "expert" THEN f.depth ELSE f.depth + 1

\* The _tool_call_depth in the context of a tool that frame f calls.
Deeper(f) == f.depth + 1

\* execute_tool_call up to the tool's own code; the notifier is called before
\* the origin is set, and its failure is swallowed.
Entered(t, f) ==
    [Blank EXCEPT !.kind = IF Kind[t] = "expert" THEN "expert" ELSE "tool",
                  !.tool = t, !.depth = Deeper(f), !.outer = origin,
                  !.settings = Merged(f.settings, Config[t])]

\* stop_on_needs_auth.
StopsOnAuth(f) == f.kind = "expert"

\* A mutation: a failed call gets no tool message.
MessagesIfDone(result) == IF result = "failed" THEN 0 ELSE 1

\* Every call that was looked at gets its tool message.
Messages(result) == 1

\* A tool result reaches the loop of frame f, which appends the tool message.
\* The result is "ok", "failed" or "auth"; a loop that stops leaves the message
\* out.
Takes(f, result) ==
    LET g == [f EXCEPT !.auth = @ \/ result = "auth",
                       !.seen = @ \/ result = "auth"]
    IN  IF result = "auth" /\ StopsOnAuth(f)
        THEN [g EXCEPT !.at = "stopped"]
        ELSE [g EXCEPT !.left = @ - 1, !.open = @ - Messages(result)]

Given(f, result) ==
    IF f.kind = "tool" THEN [f EXCEPT !.used = TRUE] ELSE Takes(f, result)

\* A mutation: the origin stays when the tool raises.
OriginAfterDone(f, result) == IF result = "failed" THEN origin ELSE f.outer

\* llm_call_origin gives the old value back however the tool ends.
OriginAfter(f, result) == f.outer

\* The top frame's tool is done.
Returns(result) ==
    LET n == Len(stack) IN
    /\ n > 1
    /\ stack' = Append(SubSeq(stack, 1, n - 2), Given(stack[n - 1], result))
    /\ origin' = OriginAfter(Top, result)
    /\ UNCHANGED << call, chosen, reply >>

\* execute_tool_call for a name: a name that is not known and any name at the
\* depth limit give a failed result.
CallsTool(f) ==
    \/ Goes(Given(f, "failed"))
    \/ /\ f.depth < MAX_TOOL_CALL_DEPTH
       /\ \E t \in Tools :
             /\ stack' = Append(stack, Entered(t, f))
             /\ origin' = t
       /\ UNCHANGED << call, chosen, reply >>

-----------------------------------------------------------------------------
(* The end of a conversation.                                              *)

Over(f, r) ==
    /\ reply' = r
    /\ Replace([f EXCEPT !.at = "over"])
    /\ UNCHANGED << clientVars, chosen >>

Raises(f) == Over(f, [NoReply EXCEPT !.kind = "error"])

\* A mutation: the notices of the first loop are dropped.
NoticeOfLast(f) == f.auth

\* needs_auth_list of both loops.
Notice(f) == f.kept \/ f.auth

ReplyOf(f) == [kind |-> "reply", writer |-> f.provider, first |-> f.first,
               notice |-> Notice(f), seen |-> f.seen]

\* A mutation: the second loop gets a budget of its own.
WholeBudget(f) == f.budget

\* max_iterations - loop_result.iterations.
RestOfBudget(f) == f.budget - f.rounds

\* _final_reply_provider_for.
FinalReplyOf(p) ==
    LET k == OrDefault(p) IN IF k \in Concrete THEN FinalReply[k] ELSE None

\* A mutation: a summary may be written by a further provider.
LooksForWriterAlways(f) == TRUE

\* summarize_with_final_reply_provider: only in the first loop of a conversation.
LooksForWriter(f) == f.kind = "conversation" /\ ~ f.rewriting

\* The provider the first loop ended with; the second does not change it.
FirstOf(f) == IF f.rewriting THEN f.first ELSE OrDefault(f.provider)

\* The loop of frame f ends with a text.  It is thrown away when the provider
\* has a final_reply_provider, which goes on in a second loop.
LoopReplies(f) ==
    CASE f.kind = "expert" -> Returns("ok")
      [] LooksForWriter(f) /\ FinalReplyOf(f.provider) # None ->
            Goes([f EXCEPT !.at = "select", !.rewriting = TRUE,
                           !.fixed = FinalReplyOf(f.provider),
                           !.first = FirstOf(f),
                           !.budget = RestOfBudget(f), !.rounds = 0,
                           !.kept = f.auth, !.auth = FALSE])
      [] OTHER -> Over(f, ReplyOf([f EXCEPT !.first = FirstOf(f)]))

\* The loop reached its limit, with or without a summary.
LoopStops(f, summary) ==
    CASE f.kind = "expert" -> Returns("ok")
      [] f.kind # "expert" /\ summary -> Over(f, ReplyOf(f))
      [] OTHER -> Over(f, [NoReply EXCEPT !.kind = "fixed"])

\* The loop's request raised: run_conversation raises, an expert's exception
\* becomes a failed result in execute_tool_call.
LoopRaises(f) == IF f.kind = "expert" THEN Returns("failed") ELSE Raises(f)

-----------------------------------------------------------------------------
(* A conversation before its loop.                                         *)

IsConversation == Top.kind = "conversation"

\* Hooks, the skill list, the system prompt and the history: the last three
\* read MongoDB and may raise.  The history may hold a text of the blocklist.
Prepares ==
    /\ IsConversation /\ Top.at = "start"
    /\ \E bad \in BOOLEAN :
          \/ Goes([Top EXCEPT !.at = "select", !.bad = bad, !.budget = MaxIterations])
          \/ \E p \in Resolved(key) :        \* use_tools is false
                Asks([Top EXCEPT !.at = "single", !.bad = bad, !.provider = p],
                     p, "chat")

PreparationFails == IsConversation /\ Top.at = "start" /\ Raises(Top)

\* chat_to_llm came back: no loop, and no second provider.
PlainReplies ==
    /\ IsConversation /\ Top.at = "single" /\ Heard
    /\ IF call.at = "answered" THEN Over(Top, ReplyOf(Top))
       ELSE Raises(Top)

-----------------------------------------------------------------------------
(* run_tool_loop.                                                          *)

\* The provider for the next request: select_provider, or llm_name.
Selectable(f) ==
    IF f.kind = "conversation" /\ ~ f.rewriting THEN Resolved(key) ELSE {f.fixed}

\* A mutation: a loop one round too long.
RoundsLeftLong(f) == f.rounds <= f.budget

RoundsLeft(f) == f.rounds < f.budget

Requests ==
    /\ Top.at = "select" /\ RoundsLeft(Top)
    /\ \E p \in Selectable(Top) :
          Asks([Top EXCEPT !.at = "asked", !.provider = p], p, "tools")

\* on_tool_call_limit = "message": no request.
LimitReached ==
    /\ Top.at = "select" /\ ~ RoundsLeft(Top) /\ onLimit = "message"
    /\ LoopStops(Top, FALSE)

\* _summary_provider_for, summarize_on_limit.
SummaryRequested ==
    /\ Top.at = "select" /\ ~ RoundsLeft(Top) /\ onLimit = "summarize"
    /\ LET target == IF LooksForWriter(Top) THEN FinalReplyOf(Top.provider)
                     ELSE None
           p == IF target = None THEN Top.provider ELSE target
       IN  Asks([Top EXCEPT !.at = "summary", !.provider = p,
                            !.first = FirstOf(Top)], p, "tools")

\* A mutation: a summary that is refused counts as one that failed.
PassedOnNever(outcome) == FALSE

\* What summarize_on_limit raises again; every other failure is logged.
PassedOn(outcome) == outcome = "refused"

\* The summary may be empty, which is as good as none.
SummaryArrives ==
    /\ Top.at = "summary" /\ Heard
    /\ \/ call.at = "answered" /\ LoopStops(Top, TRUE)
       \/ ~ PassedOn(call.at) /\ LoopStops(Top, FALSE)
       \/ PassedOn(call.at) /\ LoopRaises(Top)

\* A reply without tool_calls.
TextArrives ==
    /\ Top.at = "asked" /\ call.at = "answered"
    /\ LoopReplies(Top)

\* A reply with tool_calls: raw_message is appended.
CallsArrive ==
    /\ Top.at = "asked" /\ call.at = "answered"
    /\ \E n \in 1 .. MaxCalls :
          Goes([Top EXCEPT !.at = "calls", !.left = n, !.open = @ + n])

RequestFails ==
    /\ Top.at = "asked" /\ call.at \in {"failed", "refused"}
    /\ LoopRaises(Top)

\* The next call of the reply.  One whose arguments cannot be read is not
\* executed and gets the error as its tool message, like a failed call.
Executes == Top.at = "calls" /\ Top.left > 0 /\ CallsTool(Top)

\* A mutation: a round that asked for authentication does not count.
RoundsAfterStuck(f) == IF f.auth THEN f.rounds ELSE f.rounds + 1

RoundsAfter(f) == f.rounds + 1

\* The messages of the round, looked at as a whole: its raw_message and its tool
\* messages, errors included, may hold a text of the blocklist.
RoundOver ==
    /\ Top.at = "calls" /\ Top.left = 0
    /\ \E listed \in BOOLEAN :
          Goes([Top EXCEPT !.at = "select", !.bad = @ \/ listed,
                           !.rounds = RoundsAfter(Top)])

-----------------------------------------------------------------------------
(* The tools.                                                              *)

\* A tool returns whatever it likes, or raises (failed).
ToolReturns ==
    /\ Top.kind = "tool"
    /\ \E result \in {"ok", "failed", "auth"} : Returns(result)

\* context["call_tool"]; bound: once per wrapper.
CallToolUsed ==
    /\ Top.kind = "tool" /\ Kind[Top.tool] = "wrapper" /\ ~ Top.used
    /\ CallsTool(Top)

Read(f, name, default) ==
    IF name \in DOMAIN f.settings THEN f.settings[name] ELSE default

\* llm_expert.execute.  Its only message is the prompt in the model's arguments.
ExpertStarts ==
    /\ Top.kind = "expert" /\ Top.at = "start"
    /\ \E bad \in BOOLEAN :
       LET provider == Read(Top, "llm_provider", None)
           tools == Read(Top, "available_tools", "none")
           api == Read(Top, "api", "chat_completions")
       IN  CASE api = "responses" /\ tools = "some" -> Returns("failed")   \* ValueError
             [] api = "responses" /\ tools = "none" ->
                   Asks([Top EXCEPT !.at = "single", !.bad = bad, !.provider = provider],
                        provider, "responses")
             [] OTHER ->
                   Goes([Top EXCEPT !.at = "select", !.bad = bad, !.fixed = provider,
                                    !.budget = MaxIterations])

SingleReplies ==
    /\ Top.kind = "expert" /\ Top.at = "single" /\ Heard
    /\ Returns(IF call.at = "answered" THEN "ok" ELSE "failed")

\* The expert passes on that authentication is needed.
StoppedOnAuth == Top.at = "stopped" /\ Returns("auth")

-----------------------------------------------------------------------------
Calling == ClientNext /\ UNCHANGED << stack, chosen, reply >>

Conversing == Prepares \/ PreparationFails \/ PlainReplies

Looping ==
    \/ Requests \/ LimitReached \/ SummaryRequested \/ SummaryArrives
    \/ TextArrives \/ CallsArrive \/ RequestFails \/ Executes \/ RoundOver

Executing ==
    \/ ToolReturns \/ CallToolUsed \/ ExpertStarts \/ SingleReplies
    \/ StoppedOnAuth

Next == Calling \/ Conversing \/ Looping \/ Executing

Spec == Init /\ [][Next]_vars

\* Every await ends: the attempts have a time limit, and the tools are assumed
\* to come back.  The coroutine is then run by the event loop.
FairSpec == Spec /\ WF_vars(Next)


-----------------------------------------------------------------------------
(* What a conversation promises.                                           *)

\* Every request carries a tool message for each tool call in its messages,
\* through both loops, experts and the summary: run_tool_loop appends one for
\* broken arguments and failed tools too.  A provider refuses anything else.
CallsAnswered ==
    \A i \in DOMAIN stack :
        stack[i].at \in {"asked", "summary"} => stack[i].open = 0

\* The loop, the second loop of a final_reply_provider and the summary share
\* one budget: a conversation itself makes at most two requests more than
\* max_tool_call_iterations (run_conversation's max_iterations).
BudgetShared == stack[1].asked <= MaxIterations + 2

\* No more than MAX_TOOL_CALL_DEPTH tools are inside each other, whether they
\* come to call one another through call_tool or as experts.
NestingBounded == Len(stack) - 1 <= MAX_TOOL_CALL_DEPTH

\* A reply of a loop was written by the final_reply_provider of the provider
\* the first loop ended with, if it has one, and by that one otherwise; the
\* second provider's own final_reply_provider does not count.
WrittenByTarget ==
    reply.kind = "reply" /\ reply.first # None =>
        LET target == FinalReplyOf(reply.first)
        IN  reply.writer \in {p \in Keys \cup {None} :
                IF target = None THEN OrDefault(p) = reply.first ELSE p = target}

\* A reply asks for the authentication that any tool of either loop needed,
\* and an expert does nothing more once one of its tools needed it.
AuthPassedUp ==
    /\ reply.kind = "reply" => reply.notice = reply.seen
    /\ \A i \in DOMAIN stack :
          stack[i].kind = "expert" /\ stack[i].auth => stack[i].at = "stopped"

\* A conversation with a listed text in its messages, whichever round of either
\* loop brought it in, ends without a model's reply; and when its summary is
\* refused it raises, as for any other request, so that the caller can remove
\* the owner's text, instead of returning the fixed text ("the blocked user
\* message is removed", docs/en/llm-send-guard.md:52): summarize_on_limit.
BlockedEndsInRefusal ==
    GuardOn /\ stack[1].bad =>
        \/ reply.kind \in {"none", "error"}
        \/ reply.kind = "fixed" /\ (onLimit = "message" \/ call.at = "failed")

\* A request is recorded under the tool that made it, the innermost one, also
\* after tools inside it failed or raised ("the innermost tool when nested",
\* docs/en/llm-usage.md): llm_call_origin around execute.
RecordedUnderInnermostTool ==
    [][\A i \in DOMAIN call'.records \ DOMAIN call.records :
           call'.records[i].entry = Top.tool]_vars

\* A conversation ends, whatever the models and tools do: the rounds of every
\* loop and the depth of the tools are limited, and so is every call.
ConversationEnds == <>(stack[1].at = "over")

\* "The child works with its own tool_config" when a tool calls it, as when an
\* expert calls an expert (tests/test_llm_tool_loader.py:1575): what an expert
\* reads is what its own YAML says.
ExpertUsesOwnYaml ==
    \A i \in DOMAIN stack :
        stack[i].kind = "expert" => stack[i].settings = Config[stack[i].tool]
=============================================================================
