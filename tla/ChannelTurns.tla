----------------------------- MODULE ChannelTurns -----------------------------
(***************************************************************************)
(* What a Discord channel is promised about its conversation turns, with   *)
(* tasks, awaits, the database and the LLM left out: a new turn supersedes *)
(* the one in progress; a superseded turn shows at most the block that was *)
(* already on its way; and the history never runs ahead of what was shown. *)
(* DiscordConversation implements it.                                      *)
(***************************************************************************)
EXTENDS Naturals

CONSTANTS Turns, Channels

VARIABLES
    chan,       \* chan[t]: the channel t belongs to
    status,     \* status[t]: waiting, current, superseded, closing or over
    delivered,  \* delivered[t]: blocks of the reply shown in the channel
    recorded    \* recorded[t]: blocks of the reply in the history

turnVars == << chan, status, delivered, recorded >>

Statuses == {"waiting", "current", "superseded", "closing", "over"}

Init ==
    /\ chan \in [Turns -> Channels]
    /\ status = [t \in Turns |-> "waiting"]
    /\ delivered = [t \in Turns |-> 0]
    /\ recorded = [t \in Turns |-> 0]

\* t starts: whatever is current in its channel is superseded.
Begin(t) ==
    /\ status[t] = "waiting"
    /\ status' = [u \in Turns |->
                    CASE u = t -> "current"
                      [] u # t /\ status[u] = "current" /\ chan[u] = chan[t]
                           -> "superseded"
                      [] OTHER -> status[u]]
    /\ UNCHANGED << chan, delivered, recorded >>

\* t never starts.
Drop(t) ==
    /\ status[t] = "waiting"
    /\ status' = [status EXCEPT ![t] = "over"]
    /\ UNCHANGED << chan, delivered, recorded >>

Deliver(t) ==
    /\ status[t] = "current"
    /\ delivered' = [delivered EXCEPT ![t] = @ + 1]
    /\ UNCHANGED << chan, status, recorded >>

\* A superseded turn notices.  The block it was posting may still be shown.
Stop(t) ==
    /\ status[t] = "superseded"
    /\ status' \in {[status EXCEPT ![t] = s] : s \in {"closing", "over"}}
    /\ delivered' \in {delivered, [delivered EXCEPT ![t] = @ + 1]}
    /\ UNCHANGED << chan, recorded >>

\* A shown block reaches the history, perhaps after the turn is over, perhaps
\* as the last thing the turn does.
Record(t) ==
    /\ status[t] # "waiting"
    /\ recorded[t] < delivered[t]
    /\ recorded' = [recorded EXCEPT ![t] = @ + 1]
    /\ \/ UNCHANGED status
       \/ /\ status[t] \in {"current", "closing"}
          /\ status' = [status EXCEPT ![t] = "over"]
    /\ UNCHANGED << chan, delivered >>

End(t) ==
    /\ status[t] \in {"current", "closing"}
    /\ status' = [status EXCEPT ![t] = "over"]
    /\ UNCHANGED << chan, delivered, recorded >>

\* The process is restarted: nothing in progress survives.
Restart ==
    /\ \E S \in SUBSET {t \in Turns : status[t] = "waiting"} :
         status' = [t \in Turns |->
                      IF t \in S \/ status[t] # "waiting" THEN "over"
                                                          ELSE "waiting"]
    /\ UNCHANGED << chan, delivered, recorded >>

Next ==
    \/ \E t \in Turns :
         \/ Begin(t) \/ Drop(t) \/ Deliver(t) \/ Stop(t) \/ Record(t) \/ End(t)
    \/ Restart

Spec == Init /\ [][Next]_turnVars
=============================================================================
