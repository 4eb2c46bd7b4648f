---------------------------- MODULE AgentResults ----------------------------
(***************************************************************************)
(* The answers of external agents: handlers/approval_flow.py,              *)
(* handlers/interaction_handler.py, commands/toolresult.py,                *)
(* commands/cleardirty.py and repository/pending_tool_calls_repository.py. *)
(*                                                                         *)
(* An agent posts its answer to a request in a Discord channel, in one     *)
(* message or as a FrontMatter message followed by an attachment.  The bot *)
(* turns it into a command and posts that for approval.  Pressing Approve  *)
(* (or the owner typing !toolresult) runs the command: it takes the        *)
(* request out of pending_tool_calls, has the LLM write a reply, shows it  *)
(* part by part and saves it in the history under the tag "dirty".         *)
(* !cleardirty takes the newest such reply back.                           *)
(*                                                                         *)
(* Messages and handlers are coroutines of one event loop; mpc and pc name *)
(* the await each is suspended in.                                         *)
(***************************************************************************)
EXTENDS Integers, Sequences

CONSTANTS
    Requests,     \* correlation ids in pending_tool_calls
    Authors,      \* the agents, by Discord account
    Scripts,      \* the sequences of messages the agents may post
    NumHandlers,  \* bound: presses and commands of the owner
    MaxParts,     \* bound: parts _chunk_text makes of a reply
    Client,       \* Client[r]: the kind of client request r came from
    MaxCrashes,   \* bound: times the process is killed
    Faults,       \* what may fail: "discord", "db", "llm", "body"
    None

Handlers == 1 .. NumHandlers

\* An agent's message: a command or FrontMatter with its answer ("full"), the
\* FrontMatter alone ("front"), or an attachment alone ("file"); req is the
\* request it is about.
Message == [kind : {"command", "full", "front", "file"}, author : Authors,
            req : Requests]

\* The agents post an attachment right after its FrontMatter, as far as their
\* own messages go; other agents' messages may come between.
PairsInOrder(s) ==
    \A j \in 1 .. Len(s) : s[j].kind = "file" =>
        \E i \in 1 .. j - 1 :
            /\ s[i].kind = "front" /\ s[i].author = s[j].author
            /\ s[i].req = s[j].req
            /\ \A k \in i + 1 .. j - 1 : s[k].author # s[j].author

ASSUME ScriptsAssumption ==
    Scripts \subseteq Seq(Message) /\ \A s \in Scripts : PairsInOrder(s)
ASSUME BoundsAssumption ==
    NumHandlers \in Nat /\ MaxParts \in Nat \ {0} /\ MaxCrashes \in Nat
ASSUME ClientAssumption == Client \in [Requests -> {"discord", "extension"}]
ASSUME FaultsAssumption == Faults \subseteq {"discord", "db", "llm", "body"}
ASSUME NoneAssumption == None \notin Requests /\ None \notin Handlers

VARIABLES
    script,   \* the messages the agents post
    arrived,  \* how many of them the bot has received
    mpc,      \* mpc[m]: where the handling of message m is
    target,   \* target[m]: the correlation id of the command built from it
    pending,  \* pending[r]: the status of the pending_tool_calls record
    view,     \* view[m]: the buttons of the approval message made of m
    job,      \* job[h]: what the owner had handler h do, and to what
    pc,       \* pc[h]: where handler h is
    got,      \* got[h]: the request h took
    at,       \* at[h]: parts h has sent, or has tried to delete
    total,    \* total[h]: parts of the reply h delivers
    part,     \* part[h][i]: part i of that reply on Discord
    doc,      \* doc[h]: the history document of that reply
    stamp,    \* stamp[h]: its time field
    clock,    \* the number of time stamps given so far
    crashes

vars == << script, arrived, mpc, target, pending, view, job, pc, got, at,
           total, part, doc, stamp, clock, crashes >>

Agents == << script, arrived, mpc, target >>   \* changed by message handling
Reply == << got, total, stamp, clock >>        \* changed by !toolresult

Msgs == 1 .. Len(script)
Parts == 1 .. MaxParts
Jobs == [do : {"nothing", "approve", "reject", "toolresult", "cleardirty"},
         msg : 0 .. Len(script),      \* the approval message pressed
         req : Requests \cup {None},  \* the request named by the command
         doc : 0 .. NumHandlers]      \* the reply to take back
NoJob == [do |-> "nothing", msg |-> 0, req |-> None, doc |-> 0]

HandlerEnds == {"done", "failed"}
MessageAwaits == {"previous", "check", "body", "post"}
HandlerAwaits == {"restore", "edit", "body", "complete", "reply", "send",
                  "save", "find", "erase", "drop"}

TypeOK ==
    /\ script \in Scripts
    /\ arrived \in 0 .. Len(script)
    /\ mpc \in [Msgs -> {"new", "over"} \cup MessageAwaits]
    /\ target \in [Msgs -> Requests \cup {None}]
    /\ pending \in [Requests -> {"pending", "completed", "expired"}]
    /\ view \in [Msgs -> {"none", "open", "approved", "rejected"}]
    /\ job \in [Handlers -> Jobs]
    /\ pc \in [Handlers -> {"idle"} \cup HandlerAwaits \cup HandlerEnds]
    /\ got \in [Handlers -> Requests \cup {None}]
    /\ at \in [Handlers -> 0 .. MaxParts]
    /\ total \in [Handlers -> 0 .. MaxParts]
    /\ part \in [Handlers -> [Parts -> {"none", "shown", "stuck", "erased"}]]
    /\ doc \in [Handlers -> {"none", "flying", "stored", "lost", "deleted"}]
    /\ stamp \in [Handlers -> 0 .. clock]
    /\ clock \in 0 .. NumHandlers
    /\ crashes \in 0 .. MaxCrashes

Init ==
    /\ script \in Scripts
    /\ arrived = 0
    /\ mpc = [m \in Msgs |-> "new"]
    /\ target = [m \in Msgs |-> None]
    /\ pending = [r \in Requests |-> "pending"]
    /\ view = [m \in Msgs |-> "none"]
    /\ job = [h \in Handlers |-> NoJob]
    /\ pc = [h \in Handlers |-> "idle"]
    /\ got = [h \in Handlers |-> None]
    /\ at = [h \in Handlers |-> 0]
    /\ total = [h \in Handlers |-> 0]
    /\ part = [h \in Handlers |-> [i \in Parts |-> "none"]]
    /\ doc = [h \in Handlers |-> "none"]
    /\ stamp = [h \in Handlers |-> 0]
    /\ clock = 0
    /\ crashes = 0

-----------------------------------------------------------------------------
(* From an agent's message to an approval request.                         *)

MessageAt(m, p) == mpc[m] = p
MessageTo(m, p) == mpc' = [mpc EXCEPT ![m] = p] /\ UNCHANGED target

\* The message is ignored, or its handling breaks off.
MessageOver(m) ==
    /\ mpc' = [mpc EXCEPT ![m] = "over"]
    /\ target' = [target EXCEPT ![m] = None]

\* extract_approvable_command_from_message: what a message of a kind leads to.
FirstStep(kind) ==
    CASE kind = "command" -> "body"
      [] kind = "full" -> "check"
      [] kind = "front" -> "over"
      [] kind = "file" -> "previous"

Arrive ==
    /\ arrived < Len(script)
    /\ arrived' = arrived + 1
    /\ LET m == arrived + 1 IN
         /\ mpc' = [mpc EXCEPT ![m] = FirstStep(script[m].kind)]
         /\ target' = [target EXCEPT ![m] =
              IF script[m].kind \in {"command", "full"} THEN script[m].req
                                                        ELSE None]
    /\ UNCHANGED << script, pending, view, job, pc, at, part, doc,
                    crashes >>
    /\ UNCHANGED Reply

\* The message just before m is the FrontMatter m is the answer to.  Faulty
\* variant: whoever sent it.
PairsAnyAuthor(m) == m > 1 /\ script[m - 1].kind = "front"
Pairs(m) == PairsAnyAuthor(m) /\ script[m - 1].author = script[m].author

\* channel.history(limit=1, before=message) answers.
PreviousFetched(m) ==
    /\ MessageAt(m, "previous")
    /\ IF Pairs(m)
         THEN /\ mpc' = [mpc EXCEPT ![m] = "check"]
              /\ target' = [target EXCEPT ![m] = script[m - 1].req]
         ELSE MessageOver(m)
    /\ UNCHANGED << script, arrived, pending, view, job, pc, at, part,
                    doc, crashes >>
    /\ UNCHANGED Reply

PreviousNotFetched(m) ==
    /\ MessageAt(m, "previous")
    /\ "discord" \in Faults
    /\ MessageOver(m)
    /\ UNCHANGED << script, arrived, pending, view, job, pc, at,
                    part, doc, crashes >>
    /\ UNCHANGED Reply

\* exists_pending answers; a failed query counts as no.
Checked(m) ==
    /\ MessageAt(m, "check")
    /\ \/ pending[target[m]] = "pending" /\ MessageTo(m, "body")
       \/ /\ pending[target[m]] # "pending" \/ "db" \in Faults
          /\ MessageOver(m)
    /\ UNCHANGED << script, arrived, pending, view, job, pc, at,
                    part, doc, crashes >>
    /\ UNCHANGED Reply

\* resolve_full_command has the text of the answer, or gives up.
BodyResolved(m) ==
    /\ MessageAt(m, "body")
    /\ \/ MessageTo(m, "post")
       \/ "body" \in Faults /\ MessageOver(m)
    /\ UNCHANGED << script, arrived, pending, view, job, pc, at,
                    part, doc, crashes >>
    /\ UNCHANGED Reply

\* The approval request is in the approval channel, with its buttons.
ApprovalPosted(m) ==
    /\ MessageAt(m, "post")
    /\ MessageTo(m, "over")
    /\ view' = [view EXCEPT ![m] = "open"]
    /\ UNCHANGED << script, arrived, pending, job, pc, at, part,
                    doc, crashes >>
    /\ UNCHANGED Reply

ApprovalPostFails(m) ==
    /\ MessageAt(m, "post")
    /\ "discord" \in Faults
    /\ MessageTo(m, "over")
    /\ \E s \in {"none", "open"} : view' = [view EXCEPT ![m] = s]
    /\ UNCHANGED << script, arrived, pending, job, pc, at, part,
                    doc, crashes >>
    /\ UNCHANGED Reply

-----------------------------------------------------------------------------
(* The owner's presses and commands.  Handlers start in order.             *)

At(h, p) == pc[h] = p
Goto(h, p) == pc' = [pc EXCEPT ![h] = p] /\ UNCHANGED job

\* Handler h is through; what it was asked to do is not kept.
Over(h, end) ==
    /\ pc' = [pc EXCEPT ![h] = end]
    /\ job' = [job EXCEPT ![h] = NoJob]

\* The steps of !toolresult, in their order.  Faulty variant: the request is
\* taken before the text of its answer is there.
CommandOrderHasty == << "complete", "body", "reply" >>
CommandOrder == << "body", "complete", "reply" >>
After(p) == CommandOrder[(CHOOSE i \in 1 .. 3 : CommandOrder[i] = p) + 1]

Start(h, j, p) ==
    /\ pc[h] = "idle"
    /\ \A g \in Handlers : g < h => pc[g] # "idle"
    /\ job' = [job EXCEPT ![h] = j]
    /\ pc' = [pc EXCEPT ![h] = p]
    /\ UNCHANGED << pending, view, at, part, doc, crashes >>
    /\ UNCHANGED Agents
    /\ UNCHANGED Reply

\* handle_interaction: a button is pressed that was enabled when the owner saw
\* it.  Nothing keeps a second press from being on its way.
Press(h) ==
    \E m \in Msgs : view[m] = "open" /\
        \/ Start(h, [NoJob EXCEPT !.do = "approve", !.msg = m,
                                  !.req = target[m]], "restore")
        \/ Start(h, [NoJob EXCEPT !.do = "reject", !.msg = m], "edit")

\* !toolresult typed by the owner.
TypeToolresult(h) ==
    \E r \in Requests :
        Start(h, [NoJob EXCEPT !.do = "toolresult", !.req = r],
              CommandOrder[1])

TypeCleardirty(h) == Start(h, [NoJob EXCEPT !.do = "cleardirty"], "find")

\* _restore_execution_content reads message.txt of the approval message.
Restored(h) ==
    /\ At(h, "restore")
    /\ \/ Goto(h, "edit")
       \/ "body" \in Faults /\ Over(h, "done")
    /\ UNCHANGED << pending, view, at, part, doc, crashes >>
    /\ UNCHANGED Agents
    /\ UNCHANGED Reply

\* The buttons are disabled; an approved command runs, a rejection is over.
\* The view is set whatever another press made of it.
Edited(h) ==
    /\ At(h, "edit")
    /\ IF job[h].do = "approve"
         THEN /\ Goto(h, "complete")
              /\ view' = [view EXCEPT ![job[h].msg] = "approved"]
         ELSE /\ Over(h, "done")
              /\ view' = [view EXCEPT ![job[h].msg] = "rejected"]
    /\ UNCHANGED << pending, at, part, doc, crashes >>
    /\ UNCHANGED Agents
    /\ UNCHANGED Reply

EditFails(h) ==
    /\ At(h, "edit")
    /\ "discord" \in Faults
    /\ Over(h, "failed")
    /\ \/ UNCHANGED view
       \/ view' = [view EXCEPT ![job[h].msg] =
                     IF job[h].do = "approve" THEN "approved" ELSE "rejected"]
    /\ UNCHANGED << pending, at, part, doc, crashes >>
    /\ UNCHANGED Agents
    /\ UNCHANGED Reply

-----------------------------------------------------------------------------
(* !toolresult.                                                            *)

\* resolve_command_body has the text, or the command ends with the request
\* still pending.
BodyRead(h) ==
    /\ At(h, "body")
    /\ \/ Goto(h, After("body"))
       \/ "body" \in Faults /\ Over(h, "done")
    /\ UNCHANGED << pending, view, at, part, doc, crashes >>
    /\ UNCHANGED Agents
    /\ UNCHANGED Reply

\* complete() finds a pending record of r.  Faulty variant: it does not look
\* at the status.
TakeableAlways(r) == r \in Requests /\ pending[r] \in {"pending", "completed"}
Takeable(r) == r \in Requests /\ pending[r] = "pending"

Completed(h) ==
    /\ At(h, "complete")
    /\ LET r == job[h].req IN
         IF Takeable(r)
           THEN /\ pending' = [pending EXCEPT ![r] = "completed"]
                /\ got' = [got EXCEPT ![h] = r]
                /\ Goto(h, After("complete"))
           ELSE Over(h, "done") /\ UNCHANGED << pending, got >>
    /\ UNCHANGED << view, at, total, part, doc, stamp, clock, crashes >>
    /\ UNCHANGED Agents

\* find_one_and_update raises; it may have been applied all the same.
CompleteFails(h) ==
    /\ At(h, "complete")
    /\ "db" \in Faults
    /\ Over(h, "failed")
    /\ LET r == job[h].req IN
         \/ UNCHANGED pending
         \/ Takeable(r) /\ pending' = [pending EXCEPT ![r] = "completed"]
    /\ UNCHANGED << view, at, part, doc, crashes >>
    /\ UNCHANGED Agents
    /\ UNCHANGED Reply

\* add_conversation is called for the reply of h.
SaveReply(h) ==
    /\ clock' = clock + 1
    /\ stamp' = [stamp EXCEPT ![h] = clock + 1]
    /\ doc' = [doc EXCEPT ![h] = "flying"]
    /\ Goto(h, "save")

ToDiscord(h) == Client[got[h]] = "discord"

\* _generate_reply returns and the reply is cut into parts; an extension takes
\* it whole.
ReplyMade(h) ==
    /\ At(h, "reply")
    /\ \E n \in Parts : /\ n = 1 \/ ToDiscord(h)
                       /\ total' = [total EXCEPT ![h] = n]
    /\ Goto(h, "send")
    /\ UNCHANGED << pending, view, got, at, part, doc, stamp, clock, crashes >>
    /\ UNCHANGED Agents

\* The history, the LLM or the send guard fails.
ReplyFails(h) ==
    /\ At(h, "reply")
    /\ Faults \cap {"db", "llm"} # {}
    /\ Over(h, "failed")
    /\ UNCHANGED << pending, view, at, part, doc, crashes >>
    /\ UNCHANGED Agents
    /\ UNCHANGED Reply

\* A part follows the one being sent.
MoreParts(h) == at[h] + 1 < total[h]

\* The next part is shown.
PartSent(h) ==
    /\ At(h, "send")
    /\ at' = [at EXCEPT ![h] = @ + 1]
    /\ part' = [part EXCEPT ![h][at[h] + 1] = "shown"]
    /\ IF MoreParts(h)
         THEN UNCHANGED << job, pc, doc, stamp, clock >>
         ELSE SaveReply(h)
    /\ UNCHANGED << pending, view, got, total, crashes >>
    /\ UNCHANGED Agents

\* Sending raises, perhaps after the part was shown; nothing is saved.
PartSendFails(h) ==
    /\ At(h, "send")
    /\ "discord" \in Faults
    /\ Over(h, "failed")
    /\ \E s \in {"none", "shown"} : part' = [part EXCEPT ![h][at[h] + 1] = s]
    /\ UNCHANGED << pending, view, at, doc, crashes >>
    /\ UNCHANGED Agents
    /\ UNCHANGED Reply

ReplySaved(h) ==
    /\ At(h, "save")
    /\ doc' = [doc EXCEPT ![h] = "stored"]
    /\ Over(h, "done")
    /\ UNCHANGED << pending, view, at, part, crashes >>
    /\ UNCHANGED Agents
    /\ UNCHANGED Reply

ReplySaveFails(h) ==
    /\ At(h, "save")
    /\ "db" \in Faults
    /\ \E s \in {"stored", "lost"} : doc' = [doc EXCEPT ![h] = s]
    /\ Over(h, "failed")
    /\ UNCHANGED << pending, view, at, part, crashes >>
    /\ UNCHANGED Agents
    /\ UNCHANGED Reply

-----------------------------------------------------------------------------
(* !cleardirty.                                                            *)

\* The newest dirty reply in the history.
Newest(v) ==
    /\ doc[v] = "stored"
    /\ \A w \in Handlers : doc[w] = "stored" => stamp[w] <= stamp[v]

\* The parts whose ids the document of v lists.  Faulty variant: without the
\* last one.
ListedShort(v) == at[v] - 1
Listed(v) == IF ToDiscord(v) THEN at[v] ELSE 0

\* find_latest_by_tag answers.
Found(h) ==
    /\ At(h, "find")
    /\ \/ /\ \A v \in Handlers : doc[v] # "stored"
          /\ Over(h, "done")
       \/ \E v \in Handlers :
            /\ Newest(v)
            /\ job' = [job EXCEPT ![h].doc = v]
            /\ pc' = [pc EXCEPT ![h] =
                         IF Listed(v) > 0 THEN "erase" ELSE "drop"]
    /\ UNCHANGED << pending, view, at, part, doc, crashes >>
    /\ UNCHANGED Agents
    /\ UNCHANGED Reply

FindFails(h) ==
    /\ At(h, "find")
    /\ "db" \in Faults
    /\ Over(h, "failed")
    /\ UNCHANGED << pending, view, at, part, doc, crashes >>
    /\ UNCHANGED Agents
    /\ UNCHANGED Reply

\* The next listed message is deleted, is not there any more, or cannot be
\* deleted; the loop goes on in any case.
PartErased(h) ==
    /\ At(h, "erase")
    /\ LET v == job[h].doc
           i == at[h] + 1
       IN  /\ \/ part' = [part EXCEPT ![v][i] = "erased"]
              \/ /\ "discord" \in Faults
                 /\ part[v][i] = "shown"
                 /\ part' = [part EXCEPT ![v][i] = "stuck"]
           /\ at' = [at EXCEPT ![h] = i]
           /\ IF i < Listed(v) THEN UNCHANGED << pc, job >>
                              ELSE Goto(h, "drop")
    /\ UNCHANGED << pending, view, doc, crashes >>
    /\ UNCHANGED Agents
    /\ UNCHANGED Reply

\* resolve_discord_channel finds no channel: no message is deleted.
ChannelGone(h) ==
    /\ At(h, "erase")
    /\ "discord" \in Faults
    /\ at[h] = 0
    /\ LET v == job[h].doc IN
         part' = [part EXCEPT ![v] =
                    [i \in Parts |-> IF @[i] = "shown" THEN "stuck" ELSE @[i]]]
    /\ Goto(h, "drop")
    /\ UNCHANGED << pending, view, at, doc, crashes >>
    /\ UNCHANGED Agents
    /\ UNCHANGED Reply

\* The document is deleted, whatever became of the messages.
Dropped(h) ==
    /\ At(h, "drop")
    /\ doc' = [doc EXCEPT ![job[h].doc] = "deleted"]
    /\ Over(h, "done")
    /\ UNCHANGED << pending, view, at, part, crashes >>
    /\ UNCHANGED Agents
    /\ UNCHANGED Reply

DropFails(h) ==
    /\ At(h, "drop")
    /\ "db" \in Faults
    /\ doc' \in {doc, [doc EXCEPT ![job[h].doc] = "deleted"]}
    /\ Over(h, "failed")
    /\ UNCHANGED << pending, view, at, part, crashes >>
    /\ UNCHANGED Agents
    /\ UNCHANGED Reply

-----------------------------------------------------------------------------

\* The request's 24 hours are over: its record is not found any more.
Expire(r) ==
    /\ pending[r] = "pending"
    /\ pending' = [pending EXCEPT ![r] = "expired"]
    /\ UNCHANGED << view, job, pc, at, part, doc, crashes >>
    /\ UNCHANGED Agents
    /\ UNCHANGED Reply

\* MongoDB applies, or never gets, the insert of a killed handler.
LateInsert(h) ==
    /\ pc[h] = "failed"
    /\ doc[h] = "flying"
    /\ \E s \in {"stored", "lost"} : doc' = [doc EXCEPT ![h] = s]
    /\ UNCHANGED << pending, view, job, pc, at, part, crashes >>
    /\ UNCHANGED Agents
    /\ UNCHANGED Reply

\* The process is killed and started again; MongoDB and Discord keep what they
\* have, the buttons of the approval messages included.
Crash ==
    /\ crashes < MaxCrashes
    /\ crashes' = crashes + 1
    /\ mpc' = [m \in Msgs |-> IF mpc[m] = "new" THEN "new" ELSE "over"]
    /\ target' = [m \in Msgs |-> IF view[m] = "none" THEN None ELSE target[m]]
    /\ pc' = [h \in Handlers |->
                IF pc[h] \in HandlerAwaits THEN "failed" ELSE pc[h]]
    /\ job' = [h \in Handlers |-> NoJob]
    /\ UNCHANGED << script, arrived, pending, view, at, part, doc >>
    /\ UNCHANGED Reply

\* A step of the handling of a message, of the owner, of a handler.
HandleMessage(m) ==
    \/ PreviousFetched(m) \/ PreviousNotFetched(m) \/ Checked(m)
    \/ BodyResolved(m) \/ ApprovalPosted(m) \/ ApprovalPostFails(m)

Owner(h) == Press(h) \/ TypeToolresult(h) \/ TypeCleardirty(h)

Handle(h) ==
    \/ Restored(h) \/ Edited(h) \/ EditFails(h)
    \/ BodyRead(h) \/ Completed(h) \/ CompleteFails(h)
    \/ ReplyMade(h) \/ ReplyFails(h) \/ PartSent(h) \/ PartSendFails(h)
    \/ ReplySaved(h) \/ ReplySaveFails(h)
    \/ Found(h) \/ FindFails(h) \/ PartErased(h) \/ ChannelGone(h)
    \/ Dropped(h) \/ DropFails(h)

Next ==
    \/ Arrive
    \/ \E m \in Msgs : HandleMessage(m)
    \/ \E h \in Handlers : Owner(h) \/ Handle(h) \/ LateInsert(h)
    \/ \E r \in Requests : Expire(r)
    \/ Crash

Spec == Init /\ [][Next]_vars

-----------------------------------------------------------------------------
(* Properties.                                                             *)

\* A request is answered once: however often it is approved, typed or posted
\* again, and across restarts, no two handlers take it, so no two replies to it
\* are shown or saved.
AnsweredOnce ==
    \A g, h \in Handlers : g # h /\ got[g] = got[h] => got[g] = None

\* The answer in an approval request goes to the request its agent meant,
\* although an attachment names none and other agents write in between.
AnswerMatchesRequest ==
    \A m \in Msgs : view[m] # "none" => target[m] = script[m].req

\* After a delivery that ended well every part of the reply is on the list
\* !cleardirty works from, unless a !cleardirty could not delete it: no two
\* overlapping !cleardirty and no restart of one lose a message.
ShownPartsClearable ==
    \A h \in Handlers : pc[h] = "done" /\ got[h] # None =>
        \A i \in Parts :
            part[h][i] = "shown" /\ ToDiscord(h) => doc[h] = "stored"

\* A request taken out of pending is answered, or its handler reports an error:
\* it is not used up by a command that then finds nothing to deliver, or that
\* ends well without a reply.
CompletedIsAnswered ==
    \A h \in Handlers : pc[h] = "done" /\ got[h] # None =>
        doc[h] \in {"stored", "deleted"}

-----------------------------------------------------------------------------
(* What the documentation says and the code does not do.                   *)

\* toolresult.py:174 keeps the Discord message ids so that !cleardirty can
\* take back both the history and the messages.  When a later part cannot be
\* sent, the parts already shown are on no list.
ShownPartsOnList ==
    \A h \in Handlers :
        pc[h] \in HandlerEnds /\ got[h] # None /\ ToDiscord(h) =>
            \A i \in Parts : part[h][i] = "shown" => doc[h] # "none"

=============================================================================
