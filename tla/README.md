# Specifications of lilla-core

lilla-core is a personal assistant: a Discord bot that keeps a shared conversation history in
MongoDB, asks an LLM, lets it call tools, talks to external agents, runs scheduled tasks, and
serves an HTTP API and a dashboard. It is one asyncio process; nearly all of its state is either
in MongoDB or in module variables of that process. This directory holds TLA+ models of it, the
TLC configurations that check them and TLAPS proofs about them. Paths below are relative to
`src/src/lilla_core/`.

Contents: [Inventory](#inventory), [What is modelled](#what-is-modelled), [Runs](#runs),
[Fairness](#fairness), [What is proved](#what-is-proved),
[Where the code and its documentation disagree](#where-the-code-and-its-documentation-disagree),
[What is not modelled](#what-is-not-modelled), [Plan](#plan).

## Inventory

| Component | State | Operations | Interacts with | What is hard | What makes it correct |
|---|---|---|---|---|---|
| Conversation turns (`handlers/message_handler.py`, `services/conversation_service.py`) | `_discord_active_tasks`; per task its position, sent blocks | receive, start (cancel + register), save text, load, LLM, send blocks, save blocks, discard, notify | history, guard, LLM, tools, Discord | a cancel at any await, two channels sharing one history, abandoned writes | one turn per channel; history never ahead of Discord; texts in turn order; the channel is let go |
| History (`repository/conversation_repository.py`, `services/memory_manager.py`, `builtin_tools/task_channel_summary.py`) | `conversations`, `channel_summaries` | save, delete, load window, search, newest by tag, note of a day | turns, `!toolresult`, dashboard, scheduler | two-query window, deletes by others, a note written long after its texts were read | the window is a suffix of the history in whole hours and its head only moves forward; a note is of a day that is over |
| Send guard (`core/llm_send_guard.py`) | cached blocklist | load, check | LLM client | stale history carries a blocked text on; text that tools bring in | a message with a listed word gets no answer; a listed text ends the conversation in a refusal |
| External agents (`handlers/approval_flow.py`, `commands/toolresult.py`, `commands/cleardirty.py`, `repository/pending_tool_calls_repository.py`) | `pending_tool_calls`, approval messages, "dirty" replies | pair messages, post approval, approve, reject, complete, deliver, save, take back | Discord, history, LLM | double presses, interleaved agents, failures between taking and answering | answered once, with the right answer, revocable |
| Buttons (`handlers/interaction_handler.py`, `repository/button_actions_repository.py`) | `button_actions` | find-and-delete, run | tools | crash between the two | at most once |
| Commands (`commands/`, `handlers/command_handler.py`) | registry, active model, tool toggles | parse, dispatch | everything | commands of HTTP and Discord overlapping | failure is reported as failure |
| Tool loop (`services/tool_loop.py`, `builtin_tools/llm_expert.py`, `loaders/llm_tool_loader.py`) | messages, iterations, depth | LLM round, execute, needs_auth stop, summary, final reply | LLM client, tools | budget shared by loops, nesting | bounded rounds, every call answered |
| LLM client (`api/llm_client.py`, `core/http_util.py`, `services/llm_resolver.py`) | attempts, waits | resolve, guard, post, retry, parse, record | provider | retry of what may have been answered | bounded attempts and waits |
| Usage log (`services/llm_usage.py`) | pending writes | record | history of costs | fire and forget | never disturbs the call |
| Tool loading (`loaders/`) | tool map, tool sets | discover, validate, expand | extensions | precedence of roots, sets inside sets | deterministic, core not shadowed, a refused set is really unsound |
| Caches (`repository/tool_cache_repository.py`, `services/session_memory_manager.py`) | entries with a TTL | set, get, clear | prompts | expiry between read and use | never an expired value |
| Start and scheduler (`bot.py`, `handlers/task_handler.py`) | `_scheduler`, its jobs, servers | set up, serve, log in, ready, fire, run on request | tools, event loop, extensions | `on_ready` again while the first still runs, a repository that fails, its factory that raises | set up before served; one job a task; the scheduler starts, whichever repositories fail |
| HTTP server and client tokens (`handlers/http_server.py`, `repository/client_token_repository.py`) | routes, tokens | authenticate, call tool, run task, issue | tools, commands | issuing in two writes by another process; routes of extensions beside the core's | default deny; a printed token works and its predecessors do not |
| Dashboard (`handlers/dashboard_server.py`, `repository/admin_*`) | password, set-up token, sessions, failures per address | set up, log in, log out, throttle, read, delete | every collection | check before an await, record after it | one password; a used token is dead; sessions end; no failure is forgotten early |
| Extensions and configuration (`core/extension.py`, `core/config.py`) | registered contributions | load, validate, merge, set up | everything at start | one of several invalid, two that declare the same | all or nothing; one owner for a key, a page, a path |
| Google OAuth (`extensions/google_oauth/`) | credentials per type | start, callback, refresh | Drive, Calendar | refresh racing a callback, a state cleared by another flow's callback | tokens of one grant, never half of it; a used state is dead; the refresh token is never lost |
| Drive, Calendar, Files tools | remote or local files | read, write, search | OAuth, OS | climbing a tree that moves, links, a check before a write | nothing outside the whitelist; one creation of a file |
| Skills, memos, channel summaries | small collections | CRUD | prompts, dashboard | - | - |
| Logging, error notices, user interface texts, helpers | - | - | - | - | - |

The hard behaviours, each at its line, are the `hazards` of `PROJECT.json`.

## What is modelled

### `DiscordConversation.tla`: the turns

The core of the system. An owner's message `m` has a place `pc[m]`; every value of `pc` is an
await of `_run_conversation_turn` (or of the code before it), and an action is what the coroutine
does from one await to the next:

| `pc` | await | action(s) leaving it |
|---|---|---|
| `new`, `prep` | message hook; image download, skill lookup | `Receive`, `Ignore`, `StartConversation` |
| `queued` | created, not yet run | `TurnBegins`, `CancelledBeforeFirstStep` |
| `typing` | `channel.typing()` | `TypingShown`, `TypingFails` |
| `save_user` | insert of the text | `UserSaved`, `UserSaveFails` |
| `load` | history query | `HistoryLoaded`, `HistoryLoadFails` |
| `llm` | the model, tool rounds included | `LlmBlocked`, `LlmFails`, `LlmReplies` |
| `send`, `pause` | a block; the two seconds between blocks | `BlockSent`, `BlockSendFails`, `PauseOver`, `CancelledWhilePosting` |
| `save_reply` | the save loop after the last block | `BlockSaved`, `BlockSaveFails` |
| `save_partial` | the same loop inside `except CancelledError` | `BlockSaved`, `BlockSaveFails` |
| `discard` | delete of a refused text | `UserDiscarded`, `UserDiscardFails` |
| `notify_block`, `notify_error` | `notify_error` | `Notified` |

`cancel[m]` follows a task's cancellation: `requested` when `cancel()` was called, `delivered`
when `CancelledError` was raised in it. A task whose cancel is requested cannot resume normally
(`At`); `CancelledElsewhere` and its siblings are its only steps. `active` is
`_discord_active_tasks`. A document is `flying` from the call of the insert to its answer; a
cancelled or killed task abandons its write, and `LateWrite` lets MongoDB apply or never get it.
An insert that raises may have been applied (`UserSaveFails`, `BlockSaveFails`). `Crash` kills
the process; MongoDB and Discord keep what they have.

Abstractions: a text is good or bad (holds a blocklisted word) and has images or not; reply
texts never hold a blocklisted word; the history window holds every document of the instance;
time stamps are unique (the millisecond ties of MongoDB are ignored); the notices about tool calls
inside the LLM await are left out, only their failure is there (`"tool"` fault). Where a cancel
meets a call already under way (a send, an insert), both outcomes are allowed.

### `ChannelTurns.tla`: what a channel is promised

The abstract specification, without tasks, awaits, database and LLM: a turn waits, is current,
superseded, closing or over; starting one supersedes the current one in the same step; a
superseded turn shows at most the block that was on its way; what is recorded was shown.
`DiscordConversation` implements it under the refinement mapping `TurnStatus` and the counts of
posted and visible blocks (`KeepsChannelPromise`).

### `AgentResults.tla`: answers of external agents

An agent answers a request recorded in `pending_tool_calls` in a Discord channel: FrontMatter with
a body, a typed command, or FrontMatter alone followed by an attachment alone. `mpc[m]` is where
the handling of message `m` is, from `Arrive` to `ApprovalPosted`; `Pairs` is the rule that joins
an attachment to the message just before it. The owner's presses and commands are handlers `h`:
`Press` (Approve or Reject; a press already under way is not stopped by the other one),
`TypeToolresult`, `TypeCleardirty`. `Completed` is the one `find_one_and_update` that takes the
request; then the reply is written by the LLM, shown part by part (`part[h]`) and saved with the
list of its message ids (`doc[h]`, `Listed`). `!cleardirty` picks the newest saved reply, deletes
the listed messages one by one, and then the document whatever became of them. Requests expire
(`Expire`), and the process may be killed at any await (`Crash`, `LateInsert`).

Abstractions: each agent posts an attachment right after the FrontMatter it belongs to, as far as
its own messages go (`PairsInOrder`); messages of other agents may come between. A client that is
not Discord takes a reply whole (`Client`). An owner and an approval channel are configured.

### `LlmClient.tla`: one call to a model

`call` is the call under way or the outcome of the last one (a conversation is one coroutine, so
there is one), `origin` the context variable of `core/llm_call_origin.py`.

| Action or operator | Code |
|---|---|
| `Sent`, `Resolved` | `_resolve_provider`; `resolve_llm_name` with a resolver script |
| `MakeCall` | `_call`, `_send` up to the first await: adapter, blocklist check, first attempt |
| `Allowed` | `ensure_llm_request_allowed` |
| `Replied` | the reply is read (or cannot be) and recorded, `record_llm_usage` |
| `AttemptFails`, `RetryWaits` | the `except` branches of `_post_with_retries`; `_retry_wait`, `Retry-After` |
| `SleepOver` | the sleep before the next attempt ends |

Left out: the request body and how replies are parsed (a reply is readable or not), and the
fire-and-forget task that writes a usage record, which nothing waits for; the usage log is taken
as switched on. Seconds are natural numbers, the jitter of `_retry_wait` any of them.

### `ToolLoop.tla`: a conversation with tools

The coroutine is a `stack` of frames: the conversation, a tool it executes, a tool that one calls;
an expert is a tool with a loop of its own. Only the top frame moves, and `at` is where it is.

| Action | Code |
|---|---|
| `Prepares`, `PreparationFails` | `_run_conversation` before its loop |
| `PlainReplies` | `use_tools` is false: `chat_to_llm` |
| `Requests`, `RequestFails` | a round of `run_tool_loop` asks the model, or the request raises |
| `TextArrives` | a reply without tool calls: done, or the loop of the `final_reply_provider` starts |
| `CallsArrive`, `Executes`, `RoundOver` | a reply with tool calls; each is executed; the next round |
| `LimitReached`, `SummaryRequested`, `SummaryArrives` | `on_tool_call_limit` |
| `ToolReturns`, `CallToolUsed` | a tool's code: returns, raises, uses `context["call_tool"]` |
| `ExpertStarts`, `SingleReplies`, `StoppedOnAuth` | `llm_expert.execute`, `stop_on_needs_auth` |

A message list is two facts: how many tool calls in it have no tool message yet (`open`) and
whether a text in it is blocklisted (`bad`): one of the history, of an expert's prompt, or one that a
round added with its calls or their results (`RoundOver`). Left out: which tools are offered (a model may name
any tool, and unknown ones), cached tool results, the meta tools that only change what is offered,
the await of a tool notice (merged into the call), and the texts. A tool returns a result as the
loader requires; what its code does is any of ok, failed and needs-authentication. A
wrapper uses `call_tool` once. `AskedBound` caps a counter that only states the budget.

### `Startup.tla`: from the start of the process to its end

`Extensions`, `ToolFiles` and `HttpServer` are pure: operators over what extensions declare
(`Decl`), over YAML files and over routes. `Startup` extends them and has the state; `phase` is
what `main()`, or the module code before it, does next.

| Action | Code |
|---|---|
| `ImportsExtensions`, `set_extensions` | `load_extensions`; every check of `core/extension.py` (`Valid`), then the registries (`Registered`) |
| `ComposesConfig` | `compose_config`: declared sections against `lilla.yaml`, the chain of providers |
| `LoadsTools` | resolvers, commands, `load_all_tools`, `load_llm_tools`, `validate_tool_sets` |
| `SetsUp`, `SetUpFails`, `SetUpDone` | `run_setup_hooks`, one extension an await |
| `start_dashboard_server`, `start_http_server`, `ServerFails`, `LogsIn`, `BotEnds`, `stop_http_server` | `main()` |
| `Ready`, `FactoryRaises`, `InitializesRepo`, `RepoFails`, `start_scheduler` | `on_ready`, which Discord may call again while an earlier call runs; a factory that raises is outside its `try` and ends it (`ready[r] = -2`) |
| `_job`, `handle_api_runtask`, `_run_tool` | a run of a task by its schedule or by HTTP, which may overlap |
| `MessageArrives`, `HookDeclines`, `HookClaims` | `dispatch_on_message` |

`Valid` is the conjunction of the validators, one operator each. The reference definitions of
the properties do not reuse them: `RegistryConsistent` asks who declares a key, `ToolSetsSound` takes
the transitive closure of "refers to" where the code expands a stack (`Expansions`), and
`RoutesServedAsDeclared` asks each request of the finished table (`Answer`: the router, CORS and
authentication in their order). aiohttp's router is modelled from its use. A name is a string without structure, a
path of the dashboard the sequence of its segments. Left out: the values single settings may take,
and the schemas of tools.

### `Web.tla`: what comes from outside

`Web` composes `Dashboard`, `ClientTokens` and `ButtonActions`; every call of `Calls` (`WebCalls`)
is one request, one press or one issue.

*`Dashboard`.* `requests[c].at` is the await a request is at; the other fields are what the
coroutine holds across it. An operation on MongoDB and the code up to it are one action; if the
coroutine then touches memory (`setup_token`, `failures`), that is a later one. So a set-up request goes
`body`, `hash` (bcrypt in a thread), `saved`, answered, and others pass between these. Ghosts: `logins` (the
checked log-ins of the process), `issued`, and in a request `saved`, `epoch`, `looked`, `ended`.
`TtlDeletes` is the TTL index of MongoDB, `DeletedByHand` what `docs/en/dashboard.md` tells an owner
without the password to do, `Restart` loses the memory and every request under way. A hash stands for
its password and a token for its number: guessing them is not modelled.

*`ClientTokens`.* An issue is a process of its own (`scripts/issue_client_token.py`): look for the
label, confirm, delete, store, print; it may be killed between any two. Ghosts: `prior` and `removed`.

*`ButtonActions`.* A press is found, deferred, run and answered; every step may fail, the TTL may take
the document first, the process may die (`PressesLost`). Ghosts: `took`, `ran`, `expired`.

### `Services.tla`: what conversations and tools work with

`Services` holds four parts that share no state, so one behaviour belongs to the part its variable
`part` names.

*`ConversationHistory`.* `LoadBegins`, `Candidates` and `Rest` are
`load_conversation_history_with_timestamps` with its two queries, between which texts are saved and
deleted (`save`, `Inserted`, `delete`). `TaskBegins`, `load_by_channel_between`, `_request_summary` and
`upsert` are the nightly `ChannelSummaryTask`, whose runs may overlap. Time is counted in local hours, a day
has `HoursPerDay` of them (so a change to summer time is not modelled); two texts of one millisecond are not told apart.
`max_history_turns: 0` takes all texts, as `docs[-0:]` does. Ghosts: `leftOut`, `late`, `known`, `quiet`, `window`.

*`GoogleGrant`.* One record of the credentials; `does[c]` is the await of an API call
(`get_google_access_token`, refresh, store, re-authentication) or of a callback (compare the state, clear
it, exchange the code, save). The access and the refresh token of a grant are both the number of the
code that began it, so a mixed pair shows. Google exchanges a code once, a grant may be revoked, tokens expire, the
owner follows any link ever shown.

*`GoogleDrive`.* A tool climbs from its file to the nearest whitelisted folder, one request per folder
(`_parents_of`, `Climbs`), while others move files and empty them into the bin (`Moved`). The reference
is over chains of parents in the tree as the run saw it (`Nearest`). Sheets, text files and folders are kinds of nodes; contents are not modelled.

*`Files`.* A path is a sequence of names, `realpath` replaces links one name at a time; tools run in
threads, so what is checked, opened and written are steps others come between. A file is a kind, whether
its head can be read as UTF-8 text, and the calls whose text it holds; a write may leave either kind (content
with a NUL, an overwrite that cuts a character of another), but an append makes no text of what is none. The links do not change while a tool runs: the docstring of
`extensions/files/access.py` excludes that.

## Runs

| Run | Instance | Shows |
|---|---|---|
| `ConversationFaults.cfg` | 2 messages, 2 channels, 2 blocks, every fault, 1 crash, fairness | the history matches Discord, finished turns are recorded, what was sent before a cancel comes to be recorded, refused texts go, the abstract promise is kept, channels are let go |
| `ConversationRaces.cfg` | 3 messages in 2 channels, 2 blocks, no faults | one turn per channel, order of texts, nothing after a cancel, blocked messages are not answered |
| `CancelInSaveLoop.cfg`, `BlockedTextLeft.cfg`, `ImagesMisplaced.cfg` | 2 messages | the disagreements below (violations) |
| `AgentResults.cfg` | 2 scripts of messages by 2 agents, 2 requests, 3 handlers, replies of up to 2 parts, every fault, 1 crash | answered once, the right answer, everything delivered can be taken back, a taken request is answered or its failure reported |
| `ShownPartsLost.cfg` | as above, only Discord fails | the disagreement below (violation) |
| `ToolLoop.cfg` | 3 providers (one with a second writer, which has one of its own), 1 resolver, 1 plain tool, 1 wrapper, 2 experts, 2 rounds, 2 calls a reply, depth 2, both limit modes, guard on, fairness | every tool call answered, budget and nesting bounded, the reply by the right provider, authentication passed up, retries bounded, a listed text from any round ends in a refusal, costs under the right tool, every conversation ends |
| `NestedExpertYaml.cfg` | as `ToolLoop.cfg` | the disagreement below (violation) |
| `Startup.cfg` | 58 launches (3 extensions that fit, 11 that break one rule each, alone and beside another; sound and unsound settings, tool sets and YAML files), 2 `on_ready`, 2 runs of a task at a time, fairness | what is registered is consistent, nothing is served before it is set up, routes are answered as declared, one job a task, tool sets are what they say, the scheduler starts unless the bot ends or a factory raises |
| `Web.cfg` | 3 calls of any mix (set-up, status, log-in, page, log-out, button press, token issue), 1 address, a limit of 2 failures, 1 tick, 1 restart, 1 deletion by hand | access to the dashboard is earned and ends, the throttle counts what it should, printed tokens work and older ones do not, a button's action runs once |
| `Services.cfg` | window: 2 readers, 3 texts, 3 hours, 1 delete; notes: 2 runs over 2 channels; grant: 3 calls, 3 consents; Drive: 2 trees of 6 nodes, 2 runs, 1 move; Files: 2 tools, 2 roots, 3 links, 10 requests | the window and the notes hold the texts they should, tokens are of one grant, tools stay inside their whitelists, one creation of a file, no append to what was no text at first |

Why the bounds are enough: two messages of one channel give a turn and its successor, and the
third one (races) a successor that is itself superseded while the first still cleans up. Two
blocks give a block before, at and after the one a cancel meets, one crash a before and after.
For the agents, two requests and authors are what a wrong pairing needs, three handlers one
delivery and two overlapping `!cleardirty` (or two presses and a retraction), two parts a reply
of which only the first is shown. Two rounds and two calls give a first, a last and a round after the
limit, and a call before and after a failed one; depth 2 gives a tool inside a tool and one
refused; the chain of writers gives a target that must not be followed twice. Three extensions give a
provider, one that requires it and an independent one, and two `on_ready` one that begins while
the other waits. Three calls are a log-in, a page and a log-out, or two set-ups and a
log-in, with the restart between any two steps; one address is enough because addresses share only the purge, which a
maximum of 0 entries makes happen at once. Three API calls and callbacks are a refresh, and a
callback and its twin or the flow after it; three consents an old grant, a new one and a stale link.
Six Drive nodes hold a file with two parents, a read-only folder within a writable one and a
cycle; three texts and a limit of two one that the window leaves out; two hours a day give a first and a last one. Every constant named a bound in the modules limits the
instance only; the modules' actions do not depend on its value. Deadlock is not checked where
the instance comes to rest because its messages or commands are used up.

Each property of a passing run has a mutant in `PROJECT.json`: a change of one definition that a
slip in the code would make (a loop one short, an unguarded release, a status not looked at, two
steps swapped), under which the same run finds the property violated.

## Fairness

`FairSpec` of `DiscordConversation` assumes weak fairness of each message's handling: every
awaited call returns or raises in the end (discord.py, the MongoDB driver and the HTTP client all
have timeouts) and the event loop runs every ready task. Nothing promises that messages arrive,
that the process is killed, or that an abandoned write is applied. `FairSpec` of `ToolLoop` is weak fairness of
the whole coroutine: an attempt has a time limit and a sleep ends; that tools come back is an
assumption, since `execute_tool_call` sets them no limit. `FairSpec` of `Startup` is weak fairness of
each `on_ready` handler: a repository answers or its driver gives up, and a handler whose factory
raises is over. `AgentResults`, `Web` and `Services` state safety
only: nothing promises that an owner presses a button.

## What is proved

By TLAPS, for every number of messages, channels, blocks, faults and crashes:

- `DiscordConversationProofs!TypesHold`: `Spec => []TypeOK`. `TypeOK` alone is not inductive: a
  block index could leave its range. The induction carries `Counters` (blocks saved never exceed
  blocks sent, these never exceed the blocks of the reply, and which awaits imply strictly less),
  together `Typed`.
- `DiscordConversationProofs!OneTurn`: `Spec => []OneTurnPerChannel`. The invariant `Registered`
  says that a turn that is going on uncancelled is the registered one of its channel, that what
  is registered is going on, and that a task which does not exist yet is not cancelled. Uniqueness
  follows because a channel registers one turn. `StartConversation` needs the cancel and the
  registration in one step; `Finish` needs the test in `finally`.
- `DiscordConversationProofs!HistoryOfDiscord`, `!FinishedRecorded`, `!BlockedDiscarded` and
  `!BlockedUnanswered` (`HistoryMatchesDiscord`, `FinishedTurnRecorded`, `BlockedTextDiscarded`,
  `BlockedMessageUnanswered`) are read off one invariant of each message, `Recorded`. `Posted`: the
  blocks shown are the acknowledged ones until a send breaks off, and a turn at the LLM has
  loaded its own text, which is why a text with a listed word is refused whatever the other
  channels add and delete. `TextAt`: in which state the document of the text is at each await.
  `BlocksAt`: none before the save loop, one more with each round, each stamped after the one before it.
- `!NothingAfterCancel` (`CancelledTurnStartsNothing`). `Closing`: once `CancelledError` was raised
  only the partial save, the notice and the end are left.
- `!TextsInOrder` (`UserTextsInTurnOrder`) rests on `Registered`: a superseded turn can stamp its text no more, and
  the stamps are handed out in increasing order (`Recorded`).
- `!PromiseKept`: `Spec => KeepsChannelPromise`, the refinement of `ChannelTurns`. Each action is
  one step of the abstract specification or a stutter: `PromiseBegins` and `PromiseRestarts` are the two that change many
  turns at once, `StatusAt` gives the status of a turn from its await and its cancel, and `Recorded`
  gives what the abstract steps ask of the numbers of posted and visible blocks.
- `AgentResultsProofs!AnsweredOnceHolds`: `Spec => []AnsweredOnce`. The invariant is that a taken
  request is `completed`, and no action makes a completed record pending again.
- `AgentResultsProofs!AnswerMatches`, `!TakenIsAnswered`, `!PartsClearable` and
  `!TypesHold` (`AnswerMatchesRequest`, `CompletedIsAnswered`,
  `ShownPartsClearable`) are read off one invariant, `Sound`. `Routed`: the command built from a
  message names the request its agent meant, which needs that the scripts keep a FrontMatter and
  its attachment in order. `Delivery`: what of a reply is on Discord and in the history at each
  await of `!toolresult`. `Revocation`: which parts `!cleardirty` has tried when it drops the
  document. `Counted` bounds the clock by the replies that have a stamp.

For every set of providers, resolvers and tools, every retry setting, budget and depth:

- `ToolLoopProofs!CallsAnsweredHolds`, `!BudgetSharedHolds`, `!NestingBoundedHolds` (the
  properties of the run) and `!LoopTypesHold`. The induction is on the whole stack: a frame below
  the top one is waiting for a tool (`Waiting`), so only the top frame and the one a tool returns
  to change; in a frame, `left` is exactly the number of open calls, no call is open when a
  request goes out, and requests made plus rounds left stay within the budget, across the change
  of loops (`Good`).
- `ToolLoopProofs!WrittenByTargetHolds` and `!AuthPassedUpHolds` (`WrittenByTarget`, `AuthPassedUp`),
  and `!RecordedUnderInnermostHolds` (`RecordedUnderInnermostTool`). The invariant is
  `Traced`: what the conversation's frame knows of its loops (`Writes`: the second one has the
  final_reply_provider of the provider the first one ended with, and some rounds, so it asked that one before
  it is asked for a summary), that an expert in need of authentication is stopped, and that each frame gives back
  the tool of the frame below it (`Linked`), so that the origin is always the top frame's tool.
- `ToolLoopProofs!RetriesBoundedHolds`, `!AnswersRecordedHolds`. The
  invariant `CallOK` counts one wait per failed attempt and ties `waited` to the attempts made;
  the bound on the seconds is then monotone multiplication. They are proved of the calls as the
  tool loop makes them.
- `ToolLoopProofs!BlockedEndsHolds` (`BlockedEndsInRefusal`). `Guarded`: the call under way is that of the
  top frame's messages, so a listed text in them is a refusal of their next request, and no reply is
  there while anything moves; each way a conversation ends is then looked at, the summary in particular.

For every number of calls, labels, actions, flows, consents and restarts, and of texts, readers, hours
and runs of the summary task:

- `WebProofs!TokensSpecIssued` (`IssuedTokens`). The invariant adds that a stored token has the
  label of an issue that has come to its end (`TokensOwned`), that what an issue saw stored when it
  deleted never comes back (`PriorGone`), and that an issue deletes once (`DeletesOnce`).
- `WebProofs!ButtonsSpecOnce` (`ButtonActionOnce`). `FreshPress` says at which steps a press
  cannot have taken anything yet, `NoneGoesAstray` that a saved action is there, taken or expired.
- `ServicesProofs!GrantSpecSound` (`GrantSound`). `InFlight` says what the calls carry across their
  awaits, `StatesGrow` that the states of old flows are smaller than the next one's, so a used state
  cannot come back.
- `ConversationHistoryProofs!WindowHolds` (`HistoryWindow`) and `!NotesHold` (`NotesOfPastDays`). The
  lemmas are about the newest texts of a set (`NewestOlder`, `BeforeNewest`) and the cut at an hour
  (`Cut`). `InOrder` says that times grow with stamps and that what is deleted does not come
  back; `Beyond` why a text left out once lies before every later window: before the first of its
  days, or before as many newer texts as a window takes, and both only grow while nothing is deleted.

They are theorems of the components' own specifications (`TokensSpec`, `ButtonsSpec`, `GrantSpec`,
`HistorySpec`). `WebProofs!WebParts` and `ServicesProofs!ServicesOfParts` prove that every behaviour of
`Web` and of `Services` is one of them; `WebKept` and `ServicesKept` state the promises of the compositions, which
are what the runs check.

For every number of requests, addresses, passwords, restarts and deletions of the record, and every lifetime,
window and limit:

- `WebProofs!AccessGuarded` (`DashboardAccess`). One conjunct of the invariant for each thing that a
  request carries over an await or that outlives it: the password on record is the one that the first
  set-up since the last deletion saved (`PasswordKept`, with `OnlySetupsSave`); every token shown is
  older than the next one and a used one is no longer the current one (`TokensPast`); a session has the
  expiry of the login that made it (`OfLogins`), whose password was the one read from the record
  (`ChecksPassed`), and a cookie is given once its session is stored (`CookiesGiven`); a session that
  was logged out is gone and does not come back (`LoggedOut`). The lemma `RequestStep` lists what a step of
  one request must show so that all of them hold again, and each handler is then one lemma.
- `WebProofs!ThrottleExact` (`ThrottleCountsFailures`). `Throttled`: what `_login_failures` keeps of
  an address lies between the failures in the window since its last success and all failures since then. The
  lemma `SinceAfter` says how the set of failures since the last success changes with each login.

For every list of extensions, every reference between tool sets, and every interleaving of `main()`, `on_ready`,
requests and jobs:

- `StartupProofs!RegistryKept`, `!SetUpFirst` and `!JobsKept` (`RegistryConsistent`,
  `SetUpBeforeServing`, `JobsOnce`). `StartInv`: what is registered is an accepted list as it was
  imported (`LoadedAccepted`), nothing runs before the last `setup` (`QuietUntilSetUp`), and the jobs
  are those of the loaded tools, all of them or none (`JobsOfTools`).
- `StartupProofs!RoutesKept` (`RoutesServedAsDeclared`): the table of routes is the concatenation of
  the core's and the extensions' routes (`CollectedRoutes`), a reserved name keeps the core's paths
  apart from the extensions', and a literal route is reached by its own path (`LiteralReached`).
- `StartupProofs!ToolSetsKept` (`ToolSetsSound`). The walk of `_expand_entries` is related to the
  graph of the sets in both directions: what it yields can be reached (`ExpansionElements`, by induction
  over stacks of sets), what can be reached it yields (`SoundExpansion`), and a cycle or an unknown set
  that it reports is one (`CycleFound`). `Reached`, the least set closed under
  references, is stated apart from any walk.

For every tree of directories and links, every set of listed directories and every interleaving of tools:

- `ServicesProofs!FilesSound` (`FilesKept`). First the paths: a real path exists and is one path
  (`RealpathResolves`), and the access that the code takes from the deepest listed directory that
  contains the target is the access of the longest listed prefix (`AccessIsAllowed`). Then
  `FilesInv`: what a tool shows or has open is inside (`ShownInside`, `WritesInside`), no file
  vanishes while a tool holds it (`FilesStay`), what was no text at first is none until an overwrite
  opens it (`StaysBinary`), and an append that got to its `open` came after that (`AppendsSeen`).
- `ServicesProofs!DriveSound` (`DriveWhitelist`). `Climbing` is the loop invariant of
  `AccessResolver.resolve`: no walk upwards shorter than the level ends in a listed folder, each goes through
  folders whose parents are known, and the frontier is what a walk of that length reaches.
  `Settled` says that the verdict follows from the folders seen so far; it stays true as the view
  grows (`SettledGrows`), so folders that are moved meanwhile cannot change it.

The assumptions are the named `ASSUME`s on the constants; TLC evaluates them in every run. The
proofs follow the actions: lemmas about the writes and the end of a task first, then one step per
action, then the temporal theorem.

`DataLemmas` holds what several of these modules need of sequences. The library's induction
theorems take an operator as a parameter, which the installed provers cannot instantiate; where a proof
needs induction over data (a path name by name, a stack of sets, the sequences of a `FlattenSeq`) it
takes a least counterexample instead (`DataLemmas!Least`).

What a module needs for its proofs shows in how it is written: the walk over the tool sets and `realpath` are
recursive functions over a stated domain, the graph of the sets is its least closed set, the arms of a
`CASE` exclude each other, and records are changed with `Updated` and `With` where the `@@` of the
module `TLC`, which the prover does not know, would do for TLC.

Every safety invariant and action property of a run is stated by a theorem. Out of the
prover's reach is liveness under fairness, and `ENABLED`: `ChannelReleased`, `CancelledTurnKeepsBlocks`,
`ConversationEnds` and `ReadySchedules` stay with TLC. The disagreements below are shown by a run each, on the instance
of its cfg.

## Where the code and its documentation disagree

- `CancelInSaveLoop`: a cancelled turn is said to keep the blocks it sent in the history
  (`handlers/message_handler.py:85`). If the cancel meets the save loop after the last block
  (`:133`), blocks on Discord are missing from the history.
- `BlockedTextLeft`: a blocked text is said to be removed so that the next conversation goes
  through (`docs/en/llm-send-guard.md:52`). A turn cancelled before the check leaves it, and the
  next turn is refused because of it and removes only its own text.
- `ImagesMisplaced`: images are put in place of the newest user text of the loaded history
  (`services/conversation_service.py:306`), which may be a text of another channel.
- `ShownPartsLost`: `!cleardirty` is said to take back history and messages
  (`commands/toolresult.py:174`). When a later part cannot be sent, the parts already shown are
  on no list.
- `NestedExpertYaml`: an expert called by an expert is said to work with its own `tool_config`
  (`tests/test_llm_tool_loader.py:1575`). The context is merged with the YAML
  (`loaders/llm_tool_loader.py:656`), so a key the inner YAML leaves out keeps the outer value.

### Behaviour the models show that no document speaks of

No text of the repository promises otherwise, so these are notes and not violations; the properties
are stated so that they hold with them.

- `compose_config` fails after `set_extensions` has replaced the registries; it does not matter, because
  the process ends. `RegistryConsistent` is "all or nothing" of the registration only.
- `stop_scheduler` (`handlers/task_handler.py`) is called by nothing, and the dashboard, unlike the
  HTTP server, is not stopped before the process ends.
- `/api/user-memos` is built in, but `user-memos` is not among `RESERVED_EXTENSION_NAMES`
  (`core/extension.py:148`), so an extension of that name is accepted.
- A status request that read "no password yet" before a set-up finished issues another set-up token
  afterwards; it is of no use, because the middleware refuses a set-up once a password is stored.
- Two overlapping issues of client tokens leave two tokens of a label, while
  `repository/client_token_repository.py:165` speaks of one token a label; `IssuedTokens` is about issues
  of which one ended before the other deleted.
- A refresh that read its token before a callback saved new ones puts the older pair back, under the
  newer scopes (`extensions/google_oauth/token.py:145`); and a callback's clear also clears the state of
  a flow that was started in between (`callback.py:68`), so the owner has to start again.
- An overwrite that fails after `open` leaves an empty file; what was appended meanwhile may be lost
  under an overwrite that had been opened before.
- Two overlapping runs of the summary task may store an older day's note over a newer one.
- A factory of a repository that raises (`bot.py:111`, outside the `try` below it) ends its `on_ready` without
  a scheduler; only a later `on_ready` starts one.
- A file that a write of another tool makes no text between the check and the `open` of an append is appended to
  all the same (`llm_file_write.py:107`).
- Of two messages of a channel the one that arrived first may start its turn last, because images, skills and
  hooks are awaited before (`message_handler.py:245`); it then supersedes the other.
- An issue of a client token that stops between its two writes leaves the label without a token; logins that
  passed the throttle before the first of them failed are all checked; a taken request of an agent whose
  handling fails is not made pending again.
- The climb of the Drive tools may see a tree that never was while folders are moved; its verdict is that of
  what it read.

## What is not modelled

- *Tool cache and session memory*: one upsert and one read filtered by the clock; nothing is decided
  between two steps. The same holds for skills, memos, the single-step commands (`!model`, `!skill`,
  `!mongodata`, `!selftest`) and the lists and forms of the dashboard.
- *Calendar, the other Drive requests*: each builds one request on a grant that is modelled.
- *Parsing, validation and wording*: the parsing of texts and arguments, which values single settings may
  take, tool schemas, request bodies and the readers of replies, image and file formats, usage
  arithmetic, catalogues, log rotation, the page `dashboard/app.js`: data without control that several actors
  share.
- *Helpers, health checks and self tests*: pure functions and single reads.
- *Remote services* (Discord, MongoDB, the LLM providers, Google) appear as calls that succeed, fail,
  or succeed although they raise.

## Plan

Done: the turns of a channel, external agents' answers, the tool loop with its calls of a model; the
start of the process with extensions, tools and routes; the web side; the history, the Google
grant and the tools on files. Next, in this order:

1. META actions of the tool loop and the splitting of replies as operators.
2. A specification of what an agent is promised - one answer, shown before it is saved, and revoked as a
   whole - that `AgentResults` implements, as `ChannelTurns` is for the turns.
3. A specification of a model's call, ask and one answer or one error, that `LlmClient` implements under the
   tool loop.
