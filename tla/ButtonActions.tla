--------------------------- MODULE ButtonActions ----------------------------
(***************************************************************************)
(* Presses of buttons: handlers/interaction_handler.py with                *)
(* repository/button_actions_repository.py.  Discord may deliver several   *)
(* presses of one button; each is a task of its own on the event loop.     *)
(* approve: and reject: go on in handlers/approval_flow.py (AgentResults). *)
(***************************************************************************)
EXTENDS WebCalls, Naturals, FiniteSets

CONSTANT Actions    \* bound: the actions that are saved, uuids

VARIABLES
    button_actions, \* the ids of the saved documents
    saved,          \* the ids that have been saved
    expired,        \* the ids a press found removed after TTL_SECONDS
    presses,        \* presses[c]: what the press of call c does next
    custom_id,      \* custom_id[c]: the action its button names, or "command"
    took,           \* took[c]: whether it took the document away
    ran             \* ran[c]: whether it called the tool or the command

buttonVars == << button_actions, saved, expired, presses, custom_id, took, ran >>

PressSteps == {"idle", "refused", "delegated", "find", "reply", "defer", "run",
               "report", "done", "failed"}

Moves(c, to) == presses' = [presses EXCEPT ![c] = to]

(* A tool saves what its button will run, under a fresh uuid.              *)
save(a) ==
    /\ a \in Actions \ saved
    /\ button_actions' = button_actions \cup {a} /\ saved' = saved \cup {a}
    /\ UNCHANGED << expired, presses, custom_id, took, ran >>

(* Others than the owner are refused before the prefix is looked at;       *)
(* approve: and reject: are handed on.                                     *)
handle_interaction(c, id) ==
    /\ presses[c] = "idle"
    /\ id \in saved \cup {"command", "approval", "other"}
    /\ custom_id' = [custom_id EXCEPT ![c] = id]
    /\ \/ Moves(c, "refused")
       \/ Moves(c, CASE id = "command" -> "defer" [] id = "approval" -> "delegated"
                     [] id = "other" -> "done" [] OTHER -> "find")
    /\ UNCHANGED << button_actions, saved, expired, took, ran >>

(* For the mutant: found before others delete it.                          *)
TakesAnyway(c) == custom_id[c] \in saved
Taken(c) == custom_id[c] \in button_actions

(* One operation of MongoDB, which may raise although it was applied.      *)
find_one_and_delete(c) ==
    /\ presses[c] = "find"
    /\ \/ /\ took' = [took EXCEPT ![c] = Taken(c)]
          /\ button_actions' = button_actions \ {custom_id[c]}
          /\ \/ Moves(c, IF Taken(c) THEN "defer" ELSE "reply")
             \/ Moves(c, "failed")
       \/ Moves(c, "failed") /\ UNCHANGED << took, button_actions >>
    /\ UNCHANGED << saved, expired, custom_id, ran >>

(* A press comes too late: the TTL index has removed the document.         *)
FindsExpired(c) ==
    /\ presses[c] = "find" /\ custom_id[c] \in button_actions
    /\ button_actions' = button_actions \ {custom_id[c]}
    /\ expired' = expired \cup {custom_id[c]}
    /\ Moves(c, "reply")
    /\ UNCHANGED << saved, custom_id, took, ran >>

(* An exception of the defer is not caught: a taken action is lost.        *)
Defers(c) ==
    /\ presses[c] = "defer"
    /\ Moves(c, "run") \/ Moves(c, "failed")
    /\ UNCHANGED << button_actions, saved, expired, custom_id, took, ran >>

(* The tool, or the command; whatever it raises is reported.               *)
_execute_button_action(c) ==
    /\ presses[c] = "run"
    /\ ran' = [ran EXCEPT ![c] = TRUE]
    /\ Moves(c, "report")
    /\ UNCHANGED << button_actions, saved, expired, custom_id, took >>

(* The notice that it expired, the result, or _send_error_followup.        *)
Answers(c) ==
    /\ presses[c] \in {"reply", "report"}
    /\ \/ Moves(c, "done")
       \/ presses[c] = "reply" /\ Moves(c, "failed")
    /\ UNCHANGED << button_actions, saved, expired, custom_id, took, ran >>

(* The process dies: every press under way is lost.                        *)
PressesLost ==
    /\ presses' = [c \in Calls |->
           IF presses[c] \in {"find", "reply", "defer", "run", "report"}
           THEN "failed" ELSE presses[c]]
    /\ UNCHANGED << button_actions, saved, expired, custom_id, took, ran >>

ButtonsInit ==
    /\ button_actions = {} /\ saved = {} /\ expired = {}
    /\ presses = [c \in Calls |-> "idle"]
    /\ custom_id = [c \in Calls |-> "other"]
    /\ took = [c \in Calls |-> FALSE] /\ ran = [c \in Calls |-> FALSE]

Press(c) ==
    \/ \E id \in Actions \cup {"command", "approval", "other"} : handle_interaction(c, id)
    \/ find_one_and_delete(c) \/ FindsExpired(c) \/ Defers(c) \/ _execute_button_action(c) \/ Answers(c)

ButtonsNext ==
    \/ \E c \in Calls : Press(c)
    \/ \E a \in Actions : save(a)

ButtonsSpec == ButtonsInit /\ [][ButtonsNext \/ PressesLost]_buttonVars

-----------------------------------------------------------------------------
(* However often a button is pressed, and wherever presses fail, one press *)
(* at most gets its action and only that one runs it; and nothing but a    *)
(* press or the TTL removes an action, so a press that was not served      *)
(* leaves it for the next.                                                 *)
ButtonActionOnce ==
    /\ \A c, d \in Calls : took[c] /\ took[d] /\ custom_id[c] = custom_id[d] => c = d
    /\ \A c \in Calls : ran[c] => took[c] \/ custom_id[c] = "command"
    /\ \A a \in saved : a \in button_actions <=>
           a \notin expired /\ ~\E c \in Calls : took[c] /\ custom_id[c] = a
=============================================================================
