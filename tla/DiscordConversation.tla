------------------------- MODULE DiscordConversation -------------------------
(***************************************************************************)
(* Regular Discord conversations: handlers/message_handler.py and the part *)
(* of services/conversation_service.py and repository/                     *)
(* conversation_repository.py one turn goes through.                       *)
(*                                                                         *)
(* Each owner message is handled by its own coroutine on one asyncio loop. *)
(* After the message hook (and the image download or skill lookup)         *)
(* start_conversation cancels the turn registered for the channel, creates *)
(* a task for the new one and registers it.  A turn saves the user's text  *)
(* in `conversations`, a collection shared by every channel, loads that    *)
(* collection, asks the LLM, posts the reply block by block and saves the  *)
(* blocks it posted.                                                       *)
(*                                                                         *)
(* An action is what a task does between two awaits; pc names the await a  *)
(* turn is suspended in.  A database write is stamped with utc_now() when  *)
(* it is called and takes effect later: while "flying" it is not visible,  *)
(* and a cancelled or killed turn leaves it flying.                        *)
(***************************************************************************)
EXTENDS Integers, FiniteSets

CONSTANTS
    NumMessages, \* bound: messages the owner sends
    Channels,    \* the Discord channels they are sent in
    Inputs,      \* what a message may be: its channel, whether it holds a
                 \* blocklisted word, whether it carries images
    MaxBlocks,   \* bound: blocks split_response makes of a reply
    MaxCrashes,  \* bound: times the process is killed
    Faults,      \* external calls that may fail: "discord", "db", "llm", "tool"
    None         \* no task registered

\* The owner's messages, in order of arrival.
Messages == 1 .. NumMessages

ASSUME InputsAssumption ==
    Inputs \subseteq [chan : Channels, bad : BOOLEAN, image : BOOLEAN]
ASSUME BoundsAssumption ==
    NumMessages \in Nat /\ MaxBlocks \in Nat \ {0} /\ MaxCrashes \in Nat
ASSUME FaultsAssumption == Faults \subseteq {"discord", "db", "llm", "tool"}
ASSUME NoneAssumption == None \notin Messages

VARIABLES
    msg,      \* msg[m]: the input message m is
    pc,       \* pc[m]: where the handling of m is suspended, or how it ended
    cancel,   \* cancel[m]: whether its task was cancelled, and saw it
    active,   \* _discord_active_tasks: channel -> the registered turn
    doc,      \* doc[m][k]: the conversations document of m's text (k = 0)
              \* and of block k of its reply
    time,     \* time[m][k]: its time field
    clock,    \* the number of time stamps given so far
    seen,     \* seen[m]: the documents m's turn loaded as history
    blocks,   \* blocks[m]: how many blocks the reply to m was split into
    posted,   \* posted[m]: the blocks that are on Discord
    acked,    \* acked[m]: len(sent_blocks)
    saved,    \* saved[m]: blocks the save loop is done with
    crashes

vars == << msg, pc, cancel, active, doc, time, clock, seen, blocks, posted,
           acked, saved, crashes >>

Ends == {"ignored", "replied", "blocked", "failed", "cancelled", "crashed"}
Awaits == {"queued", "typing", "save_user", "load", "llm", "send", "pause",
           "save_reply", "save_partial", "discard", "notify_block",
           "notify_error"}

\* A document: not saved yet, on its way, there, there although its delete
\* failed, deleted, or never to arrive.
DocStates == {"none", "flying", "stored", "kept", "deleted", "lost"}

Slots == 0 .. MaxBlocks
DocIds == Messages \X Slots

C(m) == msg[m].chan

\* A task exists for m and is not done().
Live(m) == pc[m] \in Awaits

\* m's task runs and start_conversation did not cancel it.
Current(m) == Live(m) /\ cancel[m] = "no"

\* What a find() over the collection returns.
Visible(d) == doc[d[1]][d[2]] \in {"stored", "kept"}

TypeOK ==
    /\ msg \in [Messages -> Inputs]
    /\ pc \in [Messages -> {"new", "prep"} \cup Awaits \cup Ends]
    /\ cancel \in [Messages -> {"no", "requested", "delivered"}]
    /\ active \in [Channels -> Messages \cup {None}]
    /\ doc \in [Messages -> [Slots -> DocStates]]
    /\ time \in [Messages -> [Slots -> Nat]]
    /\ clock \in Nat
    /\ seen \in [Messages -> SUBSET DocIds]
    /\ blocks \in [Messages -> Slots]
    /\ posted \in [Messages -> SUBSET (1 .. MaxBlocks)]
    /\ acked \in [Messages -> Slots]
    /\ saved \in [Messages -> Slots]
    /\ crashes \in 0 .. MaxCrashes

Init ==
    /\ msg \in [Messages -> Inputs]
    /\ pc = [m \in Messages |-> "new"]
    /\ cancel = [m \in Messages |-> "no"]
    /\ active = [c \in Channels |-> None]
    /\ doc = [m \in Messages |-> [k \in Slots |-> "none"]]
    /\ time = [m \in Messages |-> [k \in Slots |-> 0]]
    /\ clock = 0
    /\ seen = [m \in Messages |-> {}]
    /\ blocks = [m \in Messages |-> 0]
    /\ posted = [m \in Messages |-> {}]
    /\ acked = [m \in Messages |-> 0]
    /\ saved = [m \in Messages |-> 0]
    /\ crashes = 0

-----------------------------------------------------------------------------
(* Building blocks.                                                        *)

Goto(m, p) == pc' = [pc EXCEPT ![m] = p]

\* The coroutine of m resumes normally from await p.  A task whose cancel()
\* was called resumes with CancelledError instead, whatever it waited for.
At(m, p) == pc[m] = p /\ cancel[m] # "requested"

\* The finally clause of _run_conversation_turn: unregister the turn if it is
\* still the registered one.  Faulty variants: unregister the channel in any
\* case; never unregister.
ReleasedAlways(m) == [active EXCEPT ![C(m)] = None]
ReleasedNever(m) == active
Released(m) == IF active[C(m)] = m THEN [active EXCEPT ![C(m)] = None]
                                   ELSE active

\* The task of m ends.
Finish(m, end) == Goto(m, end) /\ active' = Released(m)

\* ConversationRepository.save is called: the document gets its time now.
Stamp(m, k) ==
    /\ clock' = clock + 1
    /\ time' = [time EXCEPT ![m][k] = clock + 1]
    /\ doc' = [doc EXCEPT ![m][k] = "flying"]

\* The outcome of a write becomes known or irrelevant.
SetDoc(m, k, s) == doc' = [doc EXCEPT ![m][k] = s]

-----------------------------------------------------------------------------
(* handle_message, up to start_conversation.                               *)

\* Discord delivers the messages in order, each to a coroutine of its own,
\* which first awaits the message hook.
Receive(m) ==
    /\ pc[m] = "new"
    /\ \A n \in Messages : n < m => pc[n] # "new"
    /\ Goto(m, "prep")
    /\ UNCHANGED << msg, cancel, active, doc, time, clock, seen, blocks,
                    posted, acked, saved, crashes >>

\* The hook claims the message, an image is too large or cannot be fetched,
\* or the skill does not exist: no turn starts.
Ignore(m) ==
    /\ pc[m] = "prep"
    /\ Goto(m, "ignored")
    /\ UNCHANGED << msg, cancel, active, doc, time, clock, seen, blocks,
                    posted, acked, saved, crashes >>

\* The task start_conversation cancels.  Faulty variant: none.
SupersedesNothing(m) == {}
Supersedes(m) == {o \in {active[C(m)]} \ {None} : Live(o)}

StartConversation(m) ==
    /\ pc[m] = "prep"
    /\ cancel' = [o \in Messages |->
                    IF o \in Supersedes(m) THEN "requested" ELSE cancel[o]]
    /\ active' = [active EXCEPT ![C(m)] = m]
    /\ Goto(m, "queued")
    /\ UNCHANGED << msg, doc, time, clock, seen, blocks, posted, acked, saved,
                    crashes >>

-----------------------------------------------------------------------------
(* _run_conversation_turn, from one await to the next.                     *)

\* The task runs for the first time and enters message.channel.typing().
TurnBegins(m) ==
    /\ At(m, "queued")
    /\ Goto(m, "typing")
    /\ UNCHANGED << msg, cancel, active, doc, time, clock, seen, blocks,
                    posted, acked, saved, crashes >>

\* The typing indicator is up: the user's text goes to the history.
TypingShown(m) ==
    /\ At(m, "typing")
    /\ Stamp(m, 0)
    /\ Goto(m, "save_user")
    /\ UNCHANGED << msg, cancel, active, seen, blocks, posted, acked, saved,
                    crashes >>

TypingFails(m) ==
    /\ At(m, "typing")
    /\ "discord" \in Faults
    /\ Goto(m, "notify_error")
    /\ UNCHANGED << msg, cancel, active, doc, time, clock, seen, blocks,
                    posted, acked, saved, crashes >>

\* user_entry_id is known; run_conversation starts.
UserSaved(m) ==
    /\ At(m, "save_user")
    /\ SetDoc(m, 0, "stored")
    /\ Goto(m, "load")
    /\ UNCHANGED << msg, cancel, active, time, clock, seen, blocks, posted,
                    acked, saved, crashes >>

\* The insert raises; it may have been applied all the same.
UserSaveFails(m) ==
    /\ At(m, "save_user")
    /\ "db" \in Faults
    /\ \E s \in {"stored", "lost"} : SetDoc(m, 0, s)
    /\ Goto(m, "notify_error")
    /\ UNCHANGED << msg, cancel, active, time, clock, seen, blocks, posted,
                    acked, saved, crashes >>

\* load_conversation_history_with_timestamps returns every document, in any
\* channel, that is visible now.
HistoryLoaded(m) ==
    /\ At(m, "load")
    /\ seen' = [seen EXCEPT ![m] = {d \in DocIds : Visible(d)}]
    /\ Goto(m, "llm")
    /\ UNCHANGED << msg, cancel, active, doc, time, clock, blocks, posted,
                    acked, saved, crashes >>

HistoryLoadFails(m) ==
    /\ At(m, "load")
    /\ "db" \in Faults
    /\ Goto(m, "notify_error")
    /\ UNCHANGED << msg, cancel, active, doc, time, clock, seen, blocks,
                    posted, acked, saved, crashes >>

\* history[-1], the newest loaded document.
Newest(S) == CHOOSE d \in S : \A e \in S : time[e[1]][e[2]] <= time[d[1]][d[2]]

\* The document whose text override_last_user_content takes the place of, if
\* m carries images and the newest document is a user's.
Overridden(m) ==
    {d \in seen[m] : msg[m].image /\ d = Newest(seen[m]) /\ d[2] = 0}

\* Some text of the request body is on the blocklist: a user's text of the
\* loaded history, or the content that took the place of one.  Replies are
\* taken to be free of listed words.  Faulty variant: only the newest message
\* is checked.
NewestIsBad(m) == LET d == Newest(seen[m]) IN d[2] = 0 /\ msg[d[1]].bad
PayloadBad(m) ==
    \/ \E d \in seen[m] \ Overridden(m) : d[2] = 0 /\ msg[d[1]].bad
    \/ Overridden(m) # {} /\ msg[m].bad

\* LlmSendBlockedError: the request was not sent, and the turn calls
\* delete_conversation(user_entry_id).
LlmBlocked(m) ==
    /\ At(m, "llm")
    /\ PayloadBad(m) \/ "tool" \in Faults   \* a tool result can hold the word
    /\ seen' = [seen EXCEPT ![m] = {}]
    /\ Goto(m, "discard")
    /\ UNCHANGED << msg, cancel, active, doc, time, clock, blocks, posted,
                    acked, saved, crashes >>

LlmFails(m) ==
    /\ At(m, "llm")
    /\ "llm" \in Faults
    /\ ~ PayloadBad(m)
    /\ seen' = [seen EXCEPT ![m] = {}]
    /\ Goto(m, "notify_error")
    /\ UNCHANGED << msg, cancel, active, doc, time, clock, blocks, posted,
                    acked, saved, crashes >>

\* The reply is there and split_response makes n blocks of it, possibly none.
LlmReplies(m) ==
    /\ At(m, "llm")
    /\ ~ PayloadBad(m)
    /\ seen' = [seen EXCEPT ![m] = {}]
    /\ \E n \in Slots :
         /\ blocks' = [blocks EXCEPT ![m] = n]
         /\ IF n = 0 THEN Finish(m, "replied")
                     ELSE Goto(m, "send") /\ UNCHANGED active
    /\ UNCHANGED << msg, cancel, doc, time, clock, posted, acked, saved,
                    crashes >>

\* The save loop over the n blocks of sent_blocks starts, at await p, or the
\* turn ends at once when there are none.
SaveBlocks(m, n, p, end) ==
    IF n = 0 THEN Finish(m, end) /\ UNCHANGED << doc, time, clock >>
             ELSE Goto(m, p) /\ Stamp(m, 1) /\ UNCHANGED active

\* The block is on Discord.  The turn pauses before the next one; after the
\* last one it saves them all.
BlockSent(m) ==
    /\ At(m, "send")
    /\ acked' = [acked EXCEPT ![m] = @ + 1]
    /\ posted' = [posted EXCEPT ![m] = @ \cup {acked[m] + 1}]
    /\ IF acked[m] + 1 < blocks[m]
         THEN Goto(m, "pause") /\ UNCHANGED << active, doc, time, clock >>
         ELSE SaveBlocks(m, acked[m] + 1, "save_reply", "replied")
    /\ UNCHANGED << msg, cancel, seen, blocks, saved, crashes >>

\* The request for the block may have reached Discord when its await breaks.
MaybePosted(m) ==
    posted' \in {posted, [posted EXCEPT ![m] = @ \cup {acked[m] + 1}]}

\* Sending raises: nothing of what was posted is saved.
BlockSendFails(m) ==
    /\ At(m, "send")
    /\ "discord" \in Faults
    /\ MaybePosted(m)
    /\ Goto(m, "notify_error")
    /\ UNCHANGED << msg, cancel, active, doc, time, clock, seen, blocks,
                    acked, saved, crashes >>

PauseOver(m) ==
    /\ At(m, "pause")
    /\ Goto(m, "send")
    /\ UNCHANGED << msg, cancel, active, doc, time, clock, seen, blocks,
                    posted, acked, saved, crashes >>

\* How far the save loops go.  Faulty variants: to the end of `blocks`; one
\* block short; one block too far.
ToSavePlanned(m) == blocks[m]
ToSaveShort(m) == acked[m] - 1
ToSavePast(m) == acked[m] + 1
ToSave(m) == acked[m]

\* How a turn ends when the save loop at await p is done.
EndOfSave(p) == IF p = "save_reply" THEN "replied" ELSE "cancelled"

\* _save_assistant_block returns; the loop saves the next block or is done.
BlockSaved(m) ==
    /\ \E p \in {"save_reply", "save_partial"} :
         /\ At(m, p)
         /\ IF saved[m] + 1 < ToSave(m)
              THEN /\ clock' = clock + 1
                   /\ time' = [time EXCEPT ![m][saved[m] + 2] = clock + 1]
                   /\ doc' = [doc EXCEPT ![m][saved[m] + 1] = "stored",
                                         ![m][saved[m] + 2] = "flying"]
                   /\ UNCHANGED << pc, active >>
              ELSE /\ SetDoc(m, saved[m] + 1, "stored")
                   /\ Finish(m, EndOfSave(p))
                   /\ UNCHANGED << time, clock >>
    /\ saved' = [saved EXCEPT ![m] = @ + 1]
    /\ UNCHANGED << msg, cancel, seen, blocks, posted, acked, crashes >>

BlockSaveFails(m) ==
    /\ At(m, "save_reply") \/ At(m, "save_partial")
    /\ "db" \in Faults
    /\ \E s \in {"stored", "lost"} : SetDoc(m, saved[m] + 1, s)
    /\ Goto(m, "notify_error")
    /\ UNCHANGED << msg, cancel, active, time, clock, seen, blocks, posted,
                    acked, saved, crashes >>

\* _discard_blocked_user_entry returns.  Faulty variant: the entry id was
\* never kept, so nothing is deleted.
DiscardedNothing(m) == UNCHANGED doc
Discarded(m) == SetDoc(m, 0, "deleted")

UserDiscarded(m) ==
    /\ At(m, "discard")
    /\ Discarded(m)
    /\ Goto(m, "notify_block")
    /\ UNCHANGED << msg, cancel, active, time, clock, seen, blocks, posted,
                    acked, saved, crashes >>

\* The delete raises: only a warning is logged, and the entry may stay.
UserDiscardFails(m) ==
    /\ At(m, "discard")
    /\ "db" \in Faults
    /\ \E s \in {"kept", "deleted"} : SetDoc(m, 0, s)
    /\ Goto(m, "notify_block")
    /\ UNCHANGED << msg, cancel, active, time, clock, seen, blocks, posted,
                    acked, saved, crashes >>

\* notify_error returns, whether it could post its notice or not.
Notified(m) ==
    /\ \/ At(m, "notify_block") /\ Finish(m, "blocked")
       \/ At(m, "notify_error") /\ Finish(m, "failed")
    /\ UNCHANGED << msg, cancel, doc, time, clock, seen, blocks, posted,
                    acked, saved, crashes >>

-----------------------------------------------------------------------------
(* Cancellation.  CancelledError is raised in the await the task is        *)
(* suspended in; what it awaited may or may not take effect.               *)

CancelSeen(m) ==
    /\ cancel[m] = "requested"
    /\ cancel' = [cancel EXCEPT ![m] = "delivered"]

\* A task cancelled before its first step never runs: no finally either.
CancelledBeforeFirstStep(m) ==
    /\ pc[m] = "queued"
    /\ CancelSeen(m)
    /\ Goto(m, "cancelled")
    /\ UNCHANGED << msg, active, doc, time, clock, seen, blocks, posted,
                    acked, saved, crashes >>

\* The inner except clause: save sent_blocks, then end.  Faulty variants: the
\* error is swallowed and the next block is sent; nothing is saved.
GoesOnPosting(m) ==
    Goto(m, "send") /\ UNCHANGED << active, doc, time, clock >>
SavesNothing(m) == Finish(m, "cancelled") /\ UNCHANGED << doc, time, clock >>
SavesWhatWasSent(m) == SaveBlocks(m, ToSave(m), "save_partial", "cancelled")

CancelledWhilePosting(m) ==
    /\ \/ pc[m] = "send" /\ MaybePosted(m)
       \/ pc[m] = "pause" /\ UNCHANGED posted
    /\ CancelSeen(m)
    /\ SavesWhatWasSent(m)
    /\ UNCHANGED << msg, seen, blocks, acked, saved, crashes >>

\* Anywhere else the turn just ends.  A write it awaited stays in flight; the
\* delete it awaited was applied or not.
CancelledElsewhere(m) ==
    /\ pc[m] \in Awaits \ {"queued", "send", "pause"}
    /\ CancelSeen(m)
    /\ Finish(m, "cancelled")
    /\ seen' = [seen EXCEPT ![m] = {}]
    /\ IF pc[m] = "discard"
         THEN \E s \in {"kept", "deleted"} : SetDoc(m, 0, s)
         ELSE UNCHANGED doc
    /\ UNCHANGED << msg, time, clock, blocks, posted, acked, saved, crashes >>

\* MongoDB applies, or never gets, a write whose caller is gone.
LateWrite(m) ==
    /\ pc[m] \in Ends
    /\ \E k \in Slots :
         /\ doc[m][k] = "flying"
         /\ \E s \in {"stored", "lost"} : SetDoc(m, k, s)
    /\ UNCHANGED << msg, pc, cancel, active, time, clock, seen, blocks,
                    posted, acked, saved, crashes >>

\* The process is killed and started again.  Only the collection survives.
Crash ==
    /\ crashes < MaxCrashes
    /\ crashes' = crashes + 1
    /\ pc' = [m \in Messages |->
                IF Live(m) \/ pc[m] = "prep" THEN "crashed" ELSE pc[m]]
    /\ active' = [c \in Channels |-> None]
    /\ seen' = [m \in Messages |-> {}]
    /\ UNCHANGED << msg, cancel, doc, time, clock, blocks, posted, acked,
                    saved >>

-----------------------------------------------------------------------------

\* One step of the handling of m.
Handle(m) ==
    \/ Ignore(m) \/ StartConversation(m)
    \/ TurnBegins(m)
    \/ TypingShown(m) \/ TypingFails(m)
    \/ UserSaved(m) \/ UserSaveFails(m)
    \/ HistoryLoaded(m) \/ HistoryLoadFails(m)
    \/ LlmBlocked(m) \/ LlmFails(m) \/ LlmReplies(m)
    \/ BlockSent(m) \/ BlockSendFails(m) \/ PauseOver(m)
    \/ BlockSaved(m) \/ BlockSaveFails(m)
    \/ UserDiscarded(m) \/ UserDiscardFails(m)
    \/ Notified(m)
    \/ CancelledBeforeFirstStep(m) \/ CancelledWhilePosting(m)
    \/ CancelledElsewhere(m)

Next ==
    \/ \E m \in Messages : Receive(m) \/ Handle(m) \/ LateWrite(m)
    \/ Crash

Spec == Init /\ [][Next]_vars

\* Every awaited call returns or raises in the end and the event loop runs
\* every ready task; nothing promises that messages arrive.
FairSpec == Spec /\ \A m \in Messages : WF_vars(Handle(m))

-----------------------------------------------------------------------------
(* Properties.                                                             *)

\* At most one turn of a channel is running and not told to stop, and it is
\* the registered one: start_conversation's cancel, the registration and the
\* `is current` test in finally must agree, whatever the order in which
\* cancelled turns reach their finally.
OneTurnPerChannel ==
    /\ \A m, n \in Messages : Current(m) /\ Current(n) /\ C(m) = C(n) => m = n
    /\ \A c \in Channels : active[c] # None =>
         Current(active[c]) /\ C(active[c]) = c

\* The history never claims a reply Discord did not get: every reply block in
\* it, or on its way there, was posted, and the saved blocks of a turn follow
\* the user's text and each other in order.
HistoryMatchesDiscord ==
    \A m \in Messages : \A k \in 1 .. MaxBlocks :
        doc[m][k] # "none" =>
            /\ k \in posted[m]
            /\ time[m][k - 1] < time[m][k]
            /\ doc[m][k - 1] \in {"stored", "kept"}

\* The user's texts of one channel are in the history in the order their turns
\* were started, although each is stamped several awaits later: a turn that
\* has stamped its text precedes every turn of its channel that has not.
UserTextsInTurnOrder ==
    \A m \in Messages : Current(m) =>
        \A n \in Messages :
            n # m /\ C(n) = C(m) /\ doc[n][0] # "none"
                => doc[m][0] = "none" \/ time[n][0] < time[m][0]

\* A turn that ran to its end is recorded in full: the user's text and every
\* block of the reply are on Discord and in the history.
FinishedTurnRecorded ==
    \A m \in Messages : pc[m] = "replied" =>
        /\ doc[m][0] = "stored"
        /\ posted[m] = 1 .. blocks[m]
        /\ \A k \in 1 .. blocks[m] : doc[m][k] = "stored"

\* A message with a blocklisted word is never answered, although the check
\* reads the text from the shared history and other turns add to it and
\* delete from it meanwhile.
BlockedMessageUnanswered ==
    \A m \in Messages : msg[m].bad => posted[m] = {}

\* A user's text that the blocklist stopped is out of the history when the
\* turn is over, unless the delete itself failed.
BlockedTextDiscarded ==
    \A m \in Messages : pc[m] = "blocked" => doc[m][0] \in {"deleted", "kept"}

\* A turn told to stop starts nothing new: no request to the LLM, no further
\* block; at most it records what it had sent.
CancelledTurnStartsNothing ==
    [][\A m \in Messages :
          cancel[m] # "no" => pc'[m] \in {pc[m], "save_partial",
                                          "notify_error"} \cup Ends]_vars

\* What Discord acknowledged before a cancel is in the history in the end: a turn
\* that is told to stop inside a send or in the pause after it saves every block
\* it had sent before it ends, although its successor is already under way,
\* unless an insert fails or the process dies.
CancelledTurnKeepsBlocks ==
    \A m \in Messages : \A k \in 1 .. MaxBlocks :
        cancel[m] = "requested" /\ pc[m] \in {"send", "pause"} /\ k <= acked[m]
            ~> doc[m][k] = "stored" \/ pc[m] \in {"failed", "crashed"}

\* A channel does not stay taken: the registered turn is replaced or ends.
ChannelReleased ==
    \A m \in Messages, c \in Channels : active[c] = m ~> active[c] # m

\* What the channels are promised holds of this code: see ChannelTurns.
TurnStatus(m) ==
    CASE pc[m] \in {"new", "prep"} -> "waiting"
      [] Live(m) /\ cancel[m] = "no" -> "current"
      [] Live(m) /\ cancel[m] = "requested" -> "superseded"
      [] Live(m) /\ cancel[m] = "delivered" -> "closing"
      [] OTHER -> "over"

Promise == INSTANCE ChannelTurns WITH
    Turns <- Messages,
    chan <- [m \in Messages |-> C(m)],
    status <- [m \in Messages |-> TurnStatus(m)],
    delivered <- [m \in Messages |-> Cardinality(posted[m])],
    recorded <- [m \in Messages |->
                   Cardinality({k \in 1 .. MaxBlocks : Visible(<<m, k>>)})]

\* Every behaviour of the turns is one the channels were promised: a new turn
\* supersedes the old one at once, a superseded turn shows at most the block
\* it was posting, and no reply is recorded before it is shown.
KeepsChannelPromise == Promise!Spec

-----------------------------------------------------------------------------
(* What the documentation says and the code does not do.                   *)

\* message_handler.py:85 says of a cancelled turn that it leaves the blocks
\* it sent in the history.  A turn cancelled in the save loop after the last
\* block does not.
SentBlocksKeptOnCancel ==
    \A m \in Messages : pc[m] = "cancelled" =>
        \A k \in 1 .. acked[m] : doc[m][k] # "none"

\* docs/en/llm-send-guard.md:52 says the blocked message is removed from the
\* history so that the next conversation is sent as usual.  The text removed
\* is the one of the turn that was stopped, which need not hold the word.
NextConversationUnblocked ==
    (\E m \in Messages : pc[m] = "blocked") /\ (\A m \in Messages : ~ Live(m))
        => \A m \in Messages : msg[m].bad => ~ Visible(<<m, 0>>)

\* message_handler.py:92 calls the content a turn was started with the newest
\* user message given to the LLM.  The images take the place of whatever
\* document is the newest when the history is loaded.
ImagesReplaceOwnText ==
    \A m \in Messages : pc[m] = "llm" /\ msg[m].image =>
        Overridden(m) = {<<m, 0>>}

=============================================================================
