------------------------ MODULE ConversationHistory ------------------------
(***************************************************************************)
(* What a conversation and the nightly notes read of the texts in          *)
(* MongoDB: services/memory_manager.py, conversation_repository.py and     *)
(* builtin_tools/task_channel_summary.py.  The window of a conversation is *)
(* read in two queries, a note is written after a long wait for the model, *)
(* and meanwhile texts are saved and deleted and days pass.                *)
(***************************************************************************)
EXTENDS Integers, Sequences, FiniteSetsExt

CONSTANTS
    Readers,            \* bound: window reads and runs of the summary task
    channels,           \* discord.channels, in their order
    HoursPerDay,        \* 24 in the code
    MaxHour,            \* bound
    MaxTexts,           \* bound
    MaxDeletes,         \* bound
    max_history_turns,  \* 0: no limit
    history_days,
    max_turns           \* of task_channel_summary

ASSUME HistoryConfigured ==
    /\ HoursPerDay \in Nat \ {0} /\ history_days \in Nat \ {0}
    /\ max_history_turns \in Nat /\ max_turns \in Nat \ {0}
    /\ channels \in Seq(STRING)

VARIABLES
    hour,           \* local hours since midnight of the first day
    conversations,  \* the texts in the collection
    flying,         \* texts whose insert is under way
    texts,          \* how many were written so far
    deletes,        \* how many were deleted
    reads,          \* per call, what it is doing and holds
    notes,          \* channel_summaries: the note of a channel, or NoNote
    leftOut,        \* history: texts a load left out, since the last delete
    late            \* history: texts inserted after their day was over

historyVars == << hour, conversations, flying, texts, deletes, reads, notes, leftOut, late >>

Day(h) == h \div HoursPerDay
Midnight(day) == day * HoursPerDay

(* The newest n texts; docs[-0:] is all of them.                           *)
Newest(n, docs) ==
    IF n = 0 THEN docs ELSE {d \in docs : Cardinality({e \in docs : e.stamp > d.stamp}) < n}

NoNote == [day |-> 0, of |-> {}]
Idle ==
    [does |-> "idle", day |-> 0, since |-> 0, cutoff |-> 0, left |-> 0, docs |-> {},
     window |-> {}, known |-> {}, quiet |-> TRUE]

HistoryInit ==
    /\ hour = 0 /\ texts = 0 /\ deletes = 0
    /\ conversations = {} /\ flying = {} /\ leftOut = {} /\ late = {}
    /\ reads = [r \in Readers |-> Idle]
    /\ notes = [i \in DOMAIN channels |-> NoNote]

HourPasses ==
    /\ hour < MaxHour
    /\ hour' = hour + 1
    /\ UNCHANGED << conversations, flying, texts, deletes, reads, notes, leftOut, late >>

-----------------------------------------------------------------------------
(* The collection.                                                         *)

(* The time of a text is taken before its insert.                          *)
save ==
    /\ texts < MaxTexts
    /\ texts' = texts + 1
    /\ \E i \in DOMAIN channels :
           flying' = flying \cup {[stamp |-> texts + 1, hour |-> hour, channel |-> i]}
    /\ UNCHANGED << hour, conversations, deletes, reads, notes, leftOut, late >>

Inserted(d) ==
    /\ flying' = flying \ {d}
    /\ conversations' = conversations \cup {d}
    /\ late' = IF Day(d.hour) < Day(hour) THEN late \cup {d} ELSE late
    /\ UNCHANGED << hour, texts, deletes, reads, notes, leftOut >>

(* By a turn that takes its text back, !cleardirty, the dashboard, or the  *)
(* TTL.                                                                    *)
delete(d) ==
    /\ deletes < MaxDeletes
    /\ deletes' = deletes + 1
    /\ conversations' = conversations \ {d}
    /\ leftOut' = {}
    /\ reads' = [r \in Readers |-> [reads[r] EXCEPT !.quiet = FALSE, !.known = {}]]
    /\ UNCHANGED << hour, flying, texts, notes, late >>

-----------------------------------------------------------------------------
(* load_conversation_history_with_timestamps.                              *)

load_with_time_since(since) == {d \in conversations : d.hour >= since}

LoadBegins(r) ==
    /\ reads[r].does = "idle"
    /\ reads' = [reads EXCEPT ![r] =
           [@ EXCEPT !.does = "candidates", !.day = Day(hour), !.known = leftOut,
                     !.since = Max({0, Midnight(Day(hour) + 1 - history_days)}), !.quiet = TRUE]]
    /\ UNCHANGED << hour, conversations, flying, texts, deletes, notes, leftOut, late >>

(* _history_hour_cutoff: no cut while the limit of turns is not reached.   *)
Cuts(docs) == max_history_turns > 0 /\ Cardinality(docs) >= max_history_turns
(* Mutant: from the hour of the newest candidate on.                       *)
CutAtNewest(docs, since) == Max({since, Max({d.hour : d \in docs})})
Cutoff(docs, since) == Max({since, Min({d.hour : d \in docs})})

Loaded(r, history) ==
    /\ reads' = [reads EXCEPT ![r] =
           [@ EXCEPT !.does = "loaded", !.docs = history, !.since = 0, !.cutoff = 0]]
    /\ leftOut' = IF reads[r].quiet THEN leftOut \cup (conversations \ history) ELSE leftOut

Candidates(r) ==
    /\ reads[r].does = "candidates"
    /\ LET window == load_with_time_since(reads[r].since)
           docs == Newest(max_history_turns, window)
       IN  \/ /\ ~Cuts(docs)
              /\ Loaded(r, docs)
           \/ /\ Cuts(docs)
              /\ reads' = [reads EXCEPT ![r] =
                     [@ EXCEPT !.does = "rest", !.docs = docs, !.window = window,
                               !.cutoff = Cutoff(docs, reads[r].since)]]
              /\ UNCHANGED leftOut
    /\ UNCHANGED << hour, conversations, flying, texts, deletes, notes, late >>

Rest(r) ==
    /\ reads[r].does = "rest"
    /\ Loaded(r, load_with_time_since(reads[r].cutoff))
    /\ UNCHANGED << hour, conversations, flying, texts, deletes, notes, late >>

LoadFails(r) ==
    /\ reads[r].does \in {"candidates", "rest"}
    /\ reads' = [reads EXCEPT ![r] = [Idle EXCEPT !.does = "over"]]
    /\ UNCHANGED << hour, conversations, flying, texts, deletes, notes, leftOut, late >>

-----------------------------------------------------------------------------
(* ChannelSummaryTask.execute: the day before, one channel after another.  *)

TaskBegins(r) ==
    /\ reads[r].does = "idle"
    /\ Day(hour) > 0
    /\ reads' = [reads EXCEPT ![r] =
           [@ EXCEPT !.does = IF channels = << >> THEN "over" ELSE "between",
                     !.day = Day(hour) - 1, !.left = 1]]
    /\ UNCHANGED << hour, conversations, flying, texts, deletes, notes, leftOut, late >>

Holds(r, to, docs) == reads' = [reads EXCEPT ![r] = [@ EXCEPT !.does = to, !.docs = docs]]

(* A channel without texts, or a failure, leaves the note as it was.       *)
NextChannel(r) ==
    reads' = [reads EXCEPT ![r] =
        IF @.left = Len(channels) THEN [Idle EXCEPT !.does = "over"]
        ELSE [@ EXCEPT !.does = "between", !.docs = {}, !.left = reads[r].left + 1]]

(* Mutant: with the first hour of the next day.                            *)
UpToMidnight(i, day) ==
    {d \in conversations :
        d.channel = i /\ d.hour >= Midnight(day) /\ d.hour <= Midnight(day + 1)}
OfDay(i, day) ==
    {d \in conversations :
        d.channel = i /\ d.hour >= Midnight(day) /\ d.hour < Midnight(day + 1)}

load_by_channel_between(r) ==
    /\ reads[r].does = "between"
    /\ LET docs == Newest(max_turns, OfDay(reads[r].left, reads[r].day))
       IN  IF docs = {} THEN NextChannel(r) ELSE Holds(r, "summarize", docs)
    /\ UNCHANGED << hour, conversations, flying, texts, deletes, notes, leftOut, late >>

_request_summary(r) ==
    /\ reads[r].does = "summarize"
    /\ Holds(r, "upsert", reads[r].docs)
    /\ UNCHANGED << hour, conversations, flying, texts, deletes, notes, leftOut, late >>

(* The write may be applied although it raises.                            *)
upsert(r) ==
    /\ reads[r].does = "upsert"
    /\ NextChannel(r)
    /\ notes' = [notes EXCEPT ![reads[r].left] = [day |-> reads[r].day, of |-> reads[r].docs]]
    /\ UNCHANGED << hour, conversations, flying, texts, deletes, leftOut, late >>

(* A query, a request or a write that raises, texts of images only, or an  *)
(* empty summary.                                                          *)
ChannelFails(r) ==
    /\ reads[r].does \in {"between", "summarize", "upsert"}
    /\ NextChannel(r)
    /\ UNCHANGED << hour, conversations, flying, texts, deletes, notes, leftOut, late >>

TextsNext ==
    \/ HourPasses \/ save
    \/ \E d \in flying : Inserted(d)
    \/ \E d \in conversations : delete(d)
LoadsNext == \E r \in Readers : LoadBegins(r) \/ Candidates(r) \/ Rest(r) \/ LoadFails(r)
NotesNext ==
    \E r \in Readers :
        \/ TaskBegins(r) \/ load_by_channel_between(r) \/ _request_summary(r)
        \/ upsert(r) \/ ChannelFails(r)
HistoryNext == TextsNext \/ LoadsNext \/ NotesNext

HistorySpec == HistoryInit /\ [][HistoryNext]_historyVars

-----------------------------------------------------------------------------
(* A window holds texts of the last history_days only; of these, the       *)
(* newest max_history_turns, and never a part of an hour: whatever is      *)
(* saved between its two queries, only a text that was deleted is missing. *)
WholeWindow ==
    \A r \in Readers : reads[r].does = "loaded" =>
        /\ \A d \in reads[r].docs : Day(d.hour) + history_days > reads[r].day
        /\ \A d \in reads[r].window :
               \/ d \in Newest(max_history_turns, reads[r].window)
               \/ \E e \in reads[r].docs : e.hour = d.hour
               => d \in reads[r].docs \/ d \notin conversations

(* The head of the window moves only forward: a text that one load left    *)
(* out is in no window that begins to load later, unless a text was        *)
(* deleted meanwhile.                                                      *)
HeadMovesForward ==
    \A r \in Readers :
        reads[r].does = "loaded" /\ reads[r].quiet => reads[r].docs \cap reads[r].known = {}

HistoryWindow == WholeWindow /\ HeadMovesForward

(* The note of a channel is made of its own texts of the day it names.     *)
(* That day was over: a text of it that is stored and not in the note was  *)
(* inserted after midnight, or is older than the newest max_turns.         *)
NotesOfPastDays ==
    \A i \in DOMAIN channels : notes[i] # NoNote =>
        LET of == notes[i].of
        IN  /\ of # {} /\ notes[i].day < Day(hour)
            /\ \A d \in of : d.channel = i /\ Day(d.hour) = notes[i].day
            /\ \A d \in conversations \ (of \cup late) :
                   d.channel = i /\ Day(d.hour) = notes[i].day =>
                       Cardinality(of) = max_turns /\ \A e \in of : e.stamp > d.stamp
=============================================================================
