----------------------------- MODULE WebProofs ------------------------------
(***************************************************************************)
(* What Web promises, for any number of calls, labels, actions, addresses, *)
(* restarts and ticks of the clock: the tokens of the HTTP server, the     *)
(* presses of buttons, the access to the dashboard and its throttle.  Each *)
(* part has an inductive invariant of its own, since the parts share no    *)
(* variable; the last theorem puts them together again.                    *)
(***************************************************************************)
EXTENDS Web, TLAPS

-----------------------------------------------------------------------------
(***************************************************************************)
(* IssuedTokens for any number of overlapping issues and labels.  The      *)
(* invariant adds where a stored token comes from, that what an issue saw  *)
(* stored when it deleted never comes back, and that an issue deletes      *)
(* once.                                                                   *)
(***************************************************************************)
TokensTypes ==
    /\ client_tokens \subseteq [token : Calls, label : Labels]
    /\ issues \in [Calls -> IssueSteps] /\ label_of \in [Calls -> Labels]
    /\ prior \in [Calls -> SUBSET Calls] /\ removed \in [Calls -> SUBSET Calls]

\* A stored token has the label of its issue, which has come to its end.
TokensOwned ==
    \A d \in client_tokens :
        d.label = label_of[d.token] /\ issues[d.token] \in {"printed", "failed"}

PriorGone ==
    \A c \in Calls : \A d \in prior[c] :
        ~verify_client_token(d) /\ issues[d] \in {"printed", "failed"}

DeletesOnce ==
    \A c \in Calls : issues[c] \in {"idle", "exists", "confirm", "replace"} => removed[c] = {}

PrintedKept ==
    \A c \in Calls : issues[c] = "printed" =>
        verify_client_token(c) \/ \E d \in Calls \ {c} : c \in removed[d]

TokensInv == TokensTypes /\ TokensOwned /\ PriorGone /\ DeletesOnce /\ PrintedKept

LEMMA TokensInitInv == TokensInit => TokensInv
  BY DEF TokensInit, TokensInv, TokensTypes, TokensOwned, PriorGone, DeletesOnce,
         PrintedKept, IssueSteps

\* The steps before the deletion touch neither the tokens nor what was
\* removed, and no issue that has ended.
LEMMA EarlyStep ==
    ASSUME TokensInv, NEW c \in Calls, NEW to \in {"exists", "confirm", "replace", "declined"},
           issues[c] \in {"idle", "exists", "confirm"},
           issues' = [issues EXCEPT ![c] = to],
           label_of' \in [Calls -> Labels],
           \A d \in Calls \ {c} : label_of'[d] = label_of[d],
           UNCHANGED << client_tokens, prior, removed >>
    PROVE  TokensInv'
  <1>1. TokensTypes'
    BY DEF TokensInv, TokensTypes, IssueSteps
  <1>2. \A d \in Calls : issues[d] \in {"printed", "failed"} =>
            issues'[d] = issues[d] /\ label_of'[d] = label_of[d]
    BY DEF TokensInv, TokensTypes
  <1>3. TokensOwned'
    BY <1>2 DEF TokensInv, TokensTypes, TokensOwned
  <1>4. PriorGone'
    BY <1>2 DEF TokensInv, TokensTypes, PriorGone, verify_client_token
  <1>5. DeletesOnce'
    BY DEF TokensInv, TokensTypes, DeletesOnce
  <1>6. PrintedKept'
    BY DEF TokensInv, TokensTypes, PrintedKept, verify_client_token
  <1> QED
    BY <1>1, <1>3, <1>4, <1>5, <1>6 DEF TokensInv

LEMMA DeleteStep ==
    ASSUME TokensInv, NEW c \in Calls, delete_by_label(c)
    PROVE  TokensInv'
  <1> DEFINE gone == Superseded(label_of[c])
             tokens == {d.token : d \in gone}
             seen == {d \in Stored : label_of[d] = label_of[c]}
  <1>1. /\ issues[c] = "replace" /\ issues' = [issues EXCEPT ![c] = "create"]
        /\ client_tokens' = client_tokens \ gone
        /\ removed' = [removed EXCEPT ![c] = tokens]
        /\ prior' = [prior EXCEPT ![c] = seen]
        /\ label_of' = label_of
    BY DEF delete_by_label, IssueGoes
  <1>2. tokens \subseteq Calls /\ seen \subseteq Calls
    BY DEF TokensInv, TokensTypes, Superseded, Stored
  <1>3. TokensTypes'
    BY <1>1, <1>2 DEF TokensInv, TokensTypes, IssueSteps
  <1>4. TokensOwned'
    BY <1>1 DEF TokensInv, TokensTypes, TokensOwned
  <1>5. \A d \in seen : ~verify_client_token(d)' /\ issues'[d] \in {"printed", "failed"}
    BY <1>1 DEF TokensInv, TokensTypes, TokensOwned, Stored, Superseded, verify_client_token
  <1>6. \A e \in Calls : \A d \in prior[e] :
            ~verify_client_token(d)' /\ issues'[d] \in {"printed", "failed"}
    BY <1>1 DEF TokensInv, TokensTypes, PriorGone, verify_client_token
  <1>7. PriorGone'
    BY <1>1, <1>5, <1>6 DEF TokensInv, TokensTypes, PriorGone, verify_client_token
  <1>8. DeletesOnce'
    BY <1>1 DEF TokensInv, TokensTypes, DeletesOnce
  <1>9. PrintedKept'
    <2> SUFFICES ASSUME NEW e \in Calls, issues'[e] = "printed"
                 PROVE  verify_client_token(e)' \/ \E d \in Calls \ {e} : e \in removed'[d]
      BY DEF PrintedKept, verify_client_token
    <2>1. e # c /\ issues[e] = "printed"
      BY <1>1 DEF TokensInv, TokensTypes
    <2>2. CASE verify_client_token(e)
      <3>1. PICK t \in client_tokens : t.token = e
        BY <2>2 DEF verify_client_token
      <3>2. t \in gone => e \in removed'[c]
        BY <1>1, <3>1 DEF TokensInv, TokensTypes
      <3>3. t \notin gone => verify_client_token(e)'
        BY <1>1, <3>1 DEF verify_client_token
      <3> QED
        BY <2>1, <3>2, <3>3
    <2>3. CASE \E d \in Calls \ {e} : e \in removed[d]
      <3>1. PICK d \in Calls \ {e} : e \in removed[d]
        BY <2>3
      <3>2. d # c
        BY <1>1, <3>1 DEF TokensInv, DeletesOnce
      <3>3. e \in removed'[d]
        BY <1>1, <3>1, <3>2 DEF TokensInv, TokensTypes
      <3> QED
        BY <3>1, <3>3
    <2> QED
      BY <2>1, <2>2, <2>3 DEF TokensInv, PrintedKept
  <1> QED
    BY <1>3, <1>4, <1>7, <1>8, <1>9 DEF TokensInv

\* create, or an issue that ends with its token stored after all.
LEMMA CreateStep ==
    ASSUME TokensInv, NEW c \in Calls, issues[c] = "create",
           NEW to \in {"printed", "failed"}, issues' = [issues EXCEPT ![c] = to],
           client_tokens' = client_tokens \cup {[token |-> c, label |-> label_of[c]]},
           UNCHANGED << label_of, prior, removed >>
    PROVE  TokensInv'
  <1>1. TokensTypes'
    BY DEF TokensInv, TokensTypes, IssueSteps
  <1>2. TokensOwned'
    BY DEF TokensInv, TokensTypes, TokensOwned
  <1>3. \A d \in Calls \ {c} : verify_client_token(d)' <=> verify_client_token(d)
    BY DEF TokensInv, TokensTypes, verify_client_token
  <1>4. verify_client_token(c)'
    <2> DEFINE d == [token |-> c, label |-> label_of[c]]
    <2>1. d \in client_tokens' /\ d.token = c
      OBVIOUS
    <2>2. \E e \in client_tokens' : e.token = c
      BY <2>1
    <2> QED
      BY <2>2 DEF verify_client_token
  <1>5. PriorGone'
    BY <1>3 DEF TokensInv, TokensTypes, PriorGone
  <1>6. DeletesOnce'
    BY DEF TokensInv, TokensTypes, DeletesOnce
  <1>7. PrintedKept'
    BY <1>3, <1>4 DEF TokensInv, TokensTypes, PrintedKept
  <1> QED
    BY <1>1, <1>2, <1>5, <1>6, <1>7 DEF TokensInv

\* An issue that ends without having stored its token.
LEMMA FailStep ==
    ASSUME TokensInv, NEW c \in Calls,
           issues[c] \in {"exists", "confirm", "replace", "create"},
           issues' = [issues EXCEPT ![c] = "failed"],
           UNCHANGED << client_tokens, label_of, prior, removed >>
    PROVE  TokensInv'
  <1>1. TokensTypes'
    BY DEF TokensInv, TokensTypes, IssueSteps
  <1>2. TokensOwned'
    BY DEF TokensInv, TokensTypes, TokensOwned
  <1>3. PriorGone'
    BY DEF TokensInv, TokensTypes, PriorGone, verify_client_token
  <1>4. DeletesOnce'
    BY DEF TokensInv, TokensTypes, DeletesOnce
  <1>5. PrintedKept'
    BY DEF TokensInv, TokensTypes, PrintedKept, verify_client_token
  <1> QED
    BY <1>1, <1>2, <1>3, <1>4, <1>5 DEF TokensInv

LEMMA TokensNextInv == TokensInv /\ [TokensNext]_tokenVars => TokensInv'
  <1> SUFFICES ASSUME TokensInv, [TokensNext]_tokenVars PROVE TokensInv'
    OBVIOUS
  <1>1. ASSUME NEW c \in Calls, NEW label \in Labels, IssueBegins(c, label)
        PROVE  TokensInv'
    BY <1>1, EarlyStep DEF IssueBegins, IssueGoes, TokensInv, TokensTypes
  <1>2. ASSUME NEW c \in Calls, NEW yes \in BOOLEAN, exists_by_label(c, yes)
        PROVE  TokensInv'
    <2> DEFINE to == IF (\E d \in client_tokens : d.label = label_of[c]) /\ ~yes
                     THEN "confirm" ELSE "replace"
    <2>1. to \in {"exists", "confirm", "replace", "declined"}
      OBVIOUS
    <2> QED
      BY <1>2, <2>1, EarlyStep DEF exists_by_label, IssueGoes, TokensInv, TokensTypes
  <1>3. ASSUME NEW c \in Calls, NEW answer \in BOOLEAN, confirm_overwrite(c, answer)
        PROVE  TokensInv'
    <2> DEFINE to == IF answer THEN "replace" ELSE "declined"
    <2>1. to \in {"exists", "confirm", "replace", "declined"}
      OBVIOUS
    <2> QED
      BY <1>3, <2>1, EarlyStep DEF confirm_overwrite, IssueGoes, TokensInv, TokensTypes
  <1>4. ASSUME NEW c \in Calls, create(c)
        PROVE  TokensInv'
    BY <1>4, CreateStep DEF create, IssueGoes
  <1>5. ASSUME NEW c \in Calls, IssueFails(c)
        PROVE  TokensInv'
    <2>1. CASE client_tokens' = client_tokens
      BY <1>5, <2>1, FailStep DEF IssueFails, IssueGoes
    <2>2. CASE client_tokens' # client_tokens
      <3>1. /\ issues[c] = "create"
            /\ client_tokens' = client_tokens \cup {[token |-> c, label |-> label_of[c]]}
        BY <1>5, <2>2 DEF IssueFails
      <3> QED
        BY <1>5, <3>1, CreateStep DEF IssueFails, IssueGoes
    <2> QED
      BY <2>1, <2>2
  <1>6. CASE UNCHANGED tokenVars
    BY <1>6 DEF tokenVars, TokensInv, TokensTypes, TokensOwned, PriorGone, DeletesOnce,
                PrintedKept, verify_client_token
  <1> QED
    BY <1>1, <1>2, <1>3, <1>4, <1>5, <1>6, DeleteStep DEF TokensNext, Issue

LEMMA TokensInvIssued == TokensInv => IssuedTokens
  BY DEF TokensInv, PriorGone, PrintedKept, IssuedTokens

(* scripts/issue_client_token.py: whatever issues overlap and wherever     *)
(* they are killed, a printed token is accepted until another issue        *)
(* deletes it, and none that its issue saw stored is accepted any more.    *)
THEOREM TokensSpecIssued == TokensSpec => []IssuedTokens
  BY TokensInitInv, TokensNextInv, TokensInvIssued, PTL DEF TokensSpec

-----------------------------------------------------------------------------
(***************************************************************************)
(* ButtonActionOnce for any number of presses, of saved actions and of     *)
(* restarts.  The invariant adds which steps a press that took nothing can *)
(* be at, and that what was taken or has expired had been saved.           *)
(***************************************************************************)
ButtonTypes ==
    /\ presses \in [Calls -> PressSteps]
    /\ custom_id \in [Calls -> Actions \cup {"command", "approval", "other"}]
    /\ took \in [Calls -> BOOLEAN] /\ ran \in [Calls -> BOOLEAN]
    /\ button_actions \subseteq saved /\ expired \subseteq saved

FreshPress ==
    \A c \in Calls :
        /\ presses[c] = "idle" => ~took[c] /\ ~ran[c]
        /\ presses[c] = "find" => ~took[c] /\ ~ran[c]
        /\ presses[c] \in {"defer", "run"} => took[c] \/ custom_id[c] = "command"

TakenOnce ==
    /\ \A c, d \in Calls : took[c] /\ took[d] /\ custom_id[c] = custom_id[d] => c = d
    /\ \A c \in Calls : took[c] => custom_id[c] \in saved

RunsItsOwn == \A c \in Calls : ran[c] => took[c] \/ custom_id[c] = "command"

NoneGoesAstray ==
    \A a \in saved : a \in button_actions <=>
        a \notin expired /\ ~\E c \in Calls : took[c] /\ custom_id[c] = a

ButtonsInv == ButtonTypes /\ FreshPress /\ TakenOnce /\ RunsItsOwn /\ NoneGoesAstray

LEMMA ButtonsInitInv == ButtonsInit => ButtonsInv
  BY DEF ButtonsInit, ButtonsInv, ButtonTypes, FreshPress, TakenOnce, RunsItsOwn,
         NoneGoesAstray, PressSteps

LEMMA SaveStep ==
    ASSUME ButtonsInv, NEW a \in Actions, save(a)
    PROVE  ButtonsInv'
  <1>1. ButtonTypes' /\ FreshPress' /\ RunsItsOwn'
    BY DEF save, ButtonsInv, ButtonTypes, FreshPress, RunsItsOwn
  <1>2. TakenOnce'
    BY DEF save, ButtonsInv, TakenOnce
  <1>3. NoneGoesAstray'
    BY DEF save, ButtonsInv, ButtonTypes, TakenOnce, NoneGoesAstray
  <1> QED
    BY <1>1, <1>2, <1>3 DEF ButtonsInv

LEMMA PressStep ==
    ASSUME ButtonsInv, NEW c \in Calls, NEW id, handle_interaction(c, id),
           id \in Actions \cup {"command", "approval", "other"}
    PROVE  ButtonsInv'
  <1>1. PICK to \in {"refused", "defer", "delegated", "done", "find"} :
            presses' = [presses EXCEPT ![c] = to] /\ (to = "defer" => id = "command")
    BY DEF handle_interaction, Moves
  <1>2. /\ presses[c] = "idle" /\ custom_id' = [custom_id EXCEPT ![c] = id]
        /\ UNCHANGED << button_actions, saved, expired, took, ran >>
    BY DEF handle_interaction
  <1>3. ~took[c] /\ ~ran[c]
    BY <1>2 DEF ButtonsInv, FreshPress
  <1>4. ButtonTypes'
    BY <1>1, <1>2 DEF ButtonsInv, ButtonTypes, PressSteps
  <1>5. \A d \in Calls \ {c} : presses'[d] = presses[d] /\ custom_id'[d] = custom_id[d]
    BY <1>1, <1>2 DEF ButtonsInv, ButtonTypes
  <1>6. presses'[c] = to /\ custom_id'[c] = id
    BY <1>1, <1>2 DEF ButtonsInv, ButtonTypes
  <1>7. FreshPress'
    BY <1>1, <1>2, <1>3, <1>5, <1>6 DEF ButtonsInv, FreshPress
  <1>8. TakenOnce' /\ RunsItsOwn'
    BY <1>2, <1>3, <1>5 DEF ButtonsInv, TakenOnce, RunsItsOwn
  <1>9. NoneGoesAstray'
    BY <1>2, <1>3, <1>5 DEF ButtonsInv, NoneGoesAstray
  <1> QED
    BY <1>4, <1>7, <1>8, <1>9 DEF ButtonsInv

\* The document is there: the press takes it, and no other had.
LEMMA TakeStep ==
    ASSUME ButtonsInv, NEW c \in Calls, presses[c] = "find", Taken(c),
           NEW to \in {"defer", "failed"}, presses' = [presses EXCEPT ![c] = to],
           took' = [took EXCEPT ![c] = TRUE],
           button_actions' = button_actions \ {custom_id[c]},
           UNCHANGED << saved, expired, custom_id, ran >>
    PROVE  ButtonsInv'
  <1>1. custom_id[c] \in button_actions /\ custom_id[c] \in saved
    BY DEF Taken, ButtonsInv, ButtonTypes
  <1>2. \A d \in Calls : took[d] => custom_id[d] # custom_id[c]
    BY <1>1 DEF ButtonsInv, NoneGoesAstray
  <1>3. took'[c] /\ \A d \in Calls \ {c} : took'[d] = took[d]
    BY DEF ButtonsInv, ButtonTypes
  <1>4. ButtonTypes'
    BY DEF ButtonsInv, ButtonTypes, PressSteps
  <1>5. FreshPress'
    BY <1>3 DEF ButtonsInv, ButtonTypes, FreshPress
  <1>6. TakenOnce' /\ RunsItsOwn'
    BY <1>1, <1>2, <1>3 DEF ButtonsInv, TakenOnce, RunsItsOwn
  <1>7. NoneGoesAstray'
    BY <1>1, <1>3 DEF ButtonsInv, NoneGoesAstray
  <1> QED
    BY <1>4, <1>5, <1>6, <1>7 DEF ButtonsInv

\* A step that takes nothing, removes nothing and starts nothing new.
LEMMA QuietStep ==
    ASSUME ButtonsInv, presses' \in [Calls -> PressSteps],
           \A d \in Calls : presses'[d] \in {presses[d], "reply", "report", "done", "failed"}
                            \/ (presses[d] = "defer" /\ presses'[d] = "run"),
           UNCHANGED << button_actions, saved, expired, custom_id, took, ran >>
    PROVE  ButtonsInv'
  <1>1. ButtonTypes' /\ TakenOnce' /\ RunsItsOwn' /\ NoneGoesAstray'
    BY DEF ButtonsInv, ButtonTypes, TakenOnce, RunsItsOwn, NoneGoesAstray
  <1>2. FreshPress'
    BY DEF ButtonsInv, FreshPress
  <1> QED
    BY <1>1, <1>2 DEF ButtonsInv

LEMMA FindStep ==
    ASSUME ButtonsInv, NEW c \in Calls, find_one_and_delete(c)
    PROVE  ButtonsInv'
  <1>0. presses[c] = "find" /\ ~took[c] /\ UNCHANGED << saved, expired, custom_id, ran >>
    BY DEF find_one_and_delete, ButtonsInv, FreshPress
  <1>1. CASE Moves(c, "failed") /\ UNCHANGED << took, button_actions >>
    <2>1. presses' \in [Calls -> PressSteps] /\ \A d \in Calls : presses'[d] \in {presses[d], "failed"}
      BY <1>1 DEF Moves, ButtonsInv, ButtonTypes, PressSteps
    <2> QED
      BY <1>0, <1>1, <2>1, QuietStep
  <1>2. CASE /\ took' = [took EXCEPT ![c] = Taken(c)]
             /\ button_actions' = button_actions \ {custom_id[c]}
             /\ Moves(c, IF Taken(c) THEN "defer" ELSE "reply") \/ Moves(c, "failed")
    <2>1. CASE Taken(c)
      <3>1. PICK to \in {"defer", "failed"} : presses' = [presses EXCEPT ![c] = to]
        BY <1>2, <2>1 DEF Moves
      <3>2. took' = [took EXCEPT ![c] = TRUE]
        BY <1>2, <2>1
      <3> QED
        BY <1>0, <1>2, <2>1, <3>1, <3>2, TakeStep
    <2>2. CASE ~Taken(c)
      <3>1. button_actions' = button_actions
        BY <1>2, <2>2 DEF Taken
      <3>2. took' = took
        <4>1. took[c] \in BOOLEAN /\ Taken(c) \in BOOLEAN
          BY DEF ButtonsInv, ButtonTypes, Taken
        <4>2. took[c] = FALSE /\ Taken(c) = FALSE
          BY <1>0, <2>2, <4>1
        <4>3. took' = [took EXCEPT ![c] = FALSE]
          BY <1>2, <4>2
        <4> QED
          BY <4>2, <4>3 DEF ButtonsInv, ButtonTypes
      <3>3. PICK to \in {"reply", "failed"} : presses' = [presses EXCEPT ![c] = to]
        BY <1>2, <2>2 DEF Moves
      <3>4. /\ presses' \in [Calls -> PressSteps]
            /\ \A d \in Calls : presses'[d] \in {presses[d], "reply", "failed"}
        BY <3>3 DEF ButtonsInv, ButtonTypes, PressSteps
      <3> QED
        BY <1>0, <3>1, <3>2, <3>4, QuietStep
    <2> QED
      BY <2>1, <2>2
  <1> QED
    BY <1>1, <1>2 DEF find_one_and_delete

LEMMA ExpiredStep ==
    ASSUME ButtonsInv, NEW c \in Calls, FindsExpired(c)
    PROVE  ButtonsInv'
  <1>1. /\ presses[c] = "find" /\ custom_id[c] \in button_actions
        /\ button_actions' = button_actions \ {custom_id[c]}
        /\ expired' = expired \cup {custom_id[c]}
        /\ presses' = [presses EXCEPT ![c] = "reply"]
        /\ UNCHANGED << saved, custom_id, took, ran >>
    BY DEF FindsExpired, Moves
  <1>2. ButtonTypes'
    BY <1>1 DEF ButtonsInv, ButtonTypes, PressSteps
  <1>3. FreshPress'
    BY <1>1 DEF ButtonsInv, ButtonTypes, FreshPress
  <1>4. TakenOnce' /\ RunsItsOwn'
    BY <1>1 DEF ButtonsInv, TakenOnce, RunsItsOwn
  <1>5. NoneGoesAstray'
    BY <1>1 DEF ButtonsInv, NoneGoesAstray
  <1> QED
    BY <1>2, <1>3, <1>4, <1>5 DEF ButtonsInv

LEMMA RunStep ==
    ASSUME ButtonsInv, NEW c \in Calls, _execute_button_action(c)
    PROVE  ButtonsInv'
  <1>1. /\ presses[c] = "run" /\ ran' = [ran EXCEPT ![c] = TRUE]
        /\ presses' = [presses EXCEPT ![c] = "report"]
        /\ UNCHANGED << button_actions, saved, expired, custom_id, took >>
    BY DEF _execute_button_action, Moves
  <1>2. took[c] \/ custom_id[c] = "command"
    BY <1>1 DEF ButtonsInv, FreshPress
  <1>3. ButtonTypes'
    BY <1>1 DEF ButtonsInv, ButtonTypes, PressSteps
  <1>4. FreshPress' /\ RunsItsOwn'
    BY <1>1, <1>2 DEF ButtonsInv, ButtonTypes, FreshPress, RunsItsOwn
  <1>5. TakenOnce' /\ NoneGoesAstray'
    BY <1>1 DEF ButtonsInv, TakenOnce, NoneGoesAstray
  <1> QED
    BY <1>3, <1>4, <1>5 DEF ButtonsInv

LEMMA ButtonsNextInv == ButtonsInv /\ [ButtonsNext \/ PressesLost]_buttonVars => ButtonsInv'
  <1> SUFFICES ASSUME ButtonsInv, [ButtonsNext \/ PressesLost]_buttonVars PROVE ButtonsInv'
    OBVIOUS
  <1>1. ASSUME NEW c \in Calls, Defers(c) PROVE ButtonsInv'
    <2>1. /\ presses' \in [Calls -> PressSteps]
          /\ \A d \in Calls : presses'[d] \in {presses[d], "failed"}
                              \/ (presses[d] = "defer" /\ presses'[d] = "run")
      BY <1>1 DEF Defers, Moves, ButtonsInv, ButtonTypes, PressSteps
    <2> QED
      BY <1>1, <2>1, QuietStep DEF Defers
  <1>2. ASSUME NEW c \in Calls, Answers(c) PROVE ButtonsInv'
    <2>1. /\ presses' \in [Calls -> PressSteps]
          /\ \A d \in Calls : presses'[d] \in {presses[d], "done", "failed"}
      BY <1>2 DEF Answers, Moves, ButtonsInv, ButtonTypes, PressSteps
    <2> QED
      BY <1>2, <2>1, QuietStep DEF Answers
  <1>3. CASE PressesLost
    <2>1. /\ presses' \in [Calls -> PressSteps]
          /\ \A d \in Calls : presses'[d] \in {presses[d], "failed"}
      BY <1>3 DEF PressesLost, ButtonsInv, ButtonTypes, PressSteps
    <2> QED
      BY <1>3, <2>1, QuietStep DEF PressesLost
  <1>4. CASE UNCHANGED buttonVars
    BY <1>4 DEF buttonVars, ButtonsInv, ButtonTypes, FreshPress, TakenOnce, RunsItsOwn,
                NoneGoesAstray
  <1>5. ASSUME NEW c \in Calls, Press(c) PROVE ButtonsInv'
    BY <1>1, <1>2, <1>5, PressStep, FindStep, ExpiredStep, RunStep DEF Press
  <1> QED
    BY <1>3, <1>4, <1>5, SaveStep DEF ButtonsNext

(* handlers/interaction_handler.py: however often a button is pressed,     *)
(* and wherever presses fail or are lost with the process, one press at    *)
(* most gets the saved action and runs it, and an unserved press leaves it *)
(* saved.                                                                  *)
THEOREM ButtonsSpecOnce == ButtonsSpec => []ButtonActionOnce
  <1>1. ButtonsInv => ButtonActionOnce
    BY DEF ButtonsInv, TakenOnce, RunsItsOwn, NoneGoesAstray, ButtonActionOnce
  <1> QED
    BY <1>1, ButtonsInitInv, ButtonsNextInv, PTL DEF ButtonsSpec

-----------------------------------------------------------------------------
(***************************************************************************)
(* The dashboard.  A request is followed from its arrival: which tokens    *)
(* and epochs it can carry, who owns a session, and that a cookie is sent  *)
(* by nobody before its login was answered.                                *)
(***************************************************************************)
Requests ==
    [kind : {"none", "setup", "status", "login", "page", "logout"},
     at : {"idle", "body", "hash", "saved", "read", "check", "create", "delete", "done", "lost"},
     status : Nat, ip : Ips \cup {"none"}, password : Passwords \cup {"none"}, token : Nat,
     required : BOOLEAN, save : {"none", "upserted", "matched"}, epoch : Nat,
     read : Passwords \cup {"none"}, expires_at : Nat, cookie : Calls \cup {None},
     looked : Nat, ended : SUBSET Calls]

DashboardTypes ==
    /\ {now, deletions, setup_token, issued} \subseteq Nat /\ setup_token <= issued
    /\ credential \in {None} \cup [password : Passwords \cup {"none"}, by : Calls \cup {None}]
    /\ sessions \subseteq [id : Calls, expires_at : Nat]
    /\ requests \in [Calls -> Requests]

\* What a save recorded is still so, unless the record was deleted since.
PasswordKept ==
    /\ \A c \in Calls : requests[c].epoch <= deletions
    /\ \A c, d \in Calls :
           requests[c].save = "upserted" /\ requests[d].save = "upserted"
           /\ requests[c].epoch = requests[d].epoch => c = d
    /\ \A c \in Calls : requests[c].save = "upserted" /\ requests[c].epoch = deletions =>
           credential = [password |-> requests[c].password, by |-> c]

\* No request carries a token that is yet to be issued.
TokensPast ==
    /\ \A c \in Calls : requests[c].token <= issued
    /\ UsedTokensDead

\* A session belongs to a login that was answered, with the expiry it was
\* given; a cookie is sent by nobody before that, and its log-out is final.
OfLogins ==
    \A s \in sessions :
        /\ requests[s.id].kind = "login" /\ requests[s.id].at = "done"
        /\ requests[s.id].status = 200 => requests[s.id].expires_at = s.expires_at
ChecksPassed ==
    \A c \in Calls :
        requests[c].kind = "login" /\ (requests[c].at = "create" \/ Answered(c, 200)) =>
            requests[c].password = requests[c].read
CookiesGiven ==
    \A c \in Calls :
        \/ requests[c].kind = "logout" /\ (requests[c].at = "delete" \/ Answered(c, 200))
        \/ requests[c].kind = "page" /\ Answered(c, 200)
        => requests[c].cookie \in Cookies
LoggedOut ==
    \A c \in Calls : requests[c].kind = "logout" /\ Answered(c, 200) =>
        \A s \in sessions : s.id # requests[c].cookie

\* No request but a set-up carries a token or comes to a save.
OnlySetupsSave ==
    \A c \in Calls : requests[c].kind # "setup" =>
        requests[c].save = "none" /\ requests[c].epoch = 0 /\ requests[c].token = 0

LoginsHaveIps ==
    \A c \in Calls : requests[c].kind = "login" /\ requests[c].at \in {"body", "check"} =>
        requests[c].ip \in Ips

DashboardInv == DashboardTypes /\ LoginsHaveIps /\ OnlySetupsSave /\ PasswordKept /\ TokensPast /\ OfLogins /\ ChecksPassed
                /\ CookiesGiven /\ LoggedOut /\ SessionsEarned

-----------------------------------------------------------------------------
LEMMA NoneIsNoCall ==
    \A password, by : None # [password |-> password, by |-> by]
  <1> TAKE password, by
  <1>1. SUFFICES ASSUME None = [password |-> password, by |-> by] PROVE FALSE
    OBVIOUS
  <1>2. DOMAIN None = {"none"} /\ DOMAIN [password |-> password, by |-> by] = {"password", "by"}
    BY DEF None
  <1> QED
    BY <1>1, <1>2

LEMMA BlankIsRequest == Blank \in Requests
  BY DEF Blank, Requests

LEMMA ReplyIsRequest ==
    ASSUME NEW kind \in {"setup", "status", "login", "page", "logout"}, NEW status \in Nat
    PROVE  /\ Reply(kind, status) \in Requests
           /\ Reply(kind, status).kind = kind /\ Reply(kind, status).at = "done"
           /\ Reply(kind, status).status = status /\ Reply(kind, status).token = 0
           /\ Reply(kind, status).save = "none" /\ Reply(kind, status).epoch = 0
  BY DEF Reply, Blank, Requests

\* A step of one request that has not been answered.
Moved(c, r) ==
    requests' = [requests EXCEPT ![c] = r] /\ requests[c].at # "done"

LEMMA MovedOne ==
    ASSUME DashboardInv, NEW c \in Calls, NEW r \in Requests, Moved(c, r)
    PROVE  /\ requests'[c] = r /\ \A d \in Calls \ {c} : requests'[d] = requests[d]
           /\ requests' \in [Calls -> Requests]
           /\ \A d \in Calls : requests[d].at = "done" => requests'[d] = requests[d]
           /\ Cookies \subseteq Cookies'
  <1>1. requests \in [Calls -> Requests]
    BY DEF DashboardInv, DashboardTypes
  <1>2. /\ requests'[c] = r /\ \A d \in Calls \ {c} : requests'[d] = requests[d]
        /\ requests' \in [Calls -> Requests]
        /\ \A d \in Calls : requests[d].at = "done" => requests'[d] = requests[d]
    BY <1>1 DEF Moved
  <1> QED
    BY <1>2 DEF Cookies, IsA, Answered

LEMMA PasswordStep ==
    ASSUME DashboardInv, NEW c \in Calls, NEW r \in Requests, Moved(c, r),
           UNCHANGED << credential, deletions >>, r.epoch <= deletions,
           r.save = "upserted" => /\ requests[c].save = "upserted"
                                  /\ r.epoch = requests[c].epoch
                                  /\ r.password = requests[c].password
    PROVE  PasswordKept'
  BY MovedOne DEF DashboardInv, PasswordKept

LEMMA SaveKeepsPassword ==
    ASSUME DashboardInv, NEW c \in Calls, NEW r \in Requests, Moved(c, r),
           save_password_hash(c), r.epoch = deletions,
           r.save = IF credential = None THEN "upserted" ELSE "matched",
           r.password = requests[c].password
    PROVE  PasswordKept'
  <1>1. CASE credential = None
    BY <1>1, MovedOne, NoneIsNoCall DEF DashboardInv, DashboardTypes, PasswordKept, save_password_hash
  <1>2. CASE credential # None
    BY <1>2, MovedOne DEF DashboardInv, DashboardTypes, PasswordKept, save_password_hash
  <1> QED
    BY <1>1, <1>2

\* What a step of one request must see to, its save apart.
LEMMA RequestStep ==
    ASSUME DashboardInv, NEW c \in Calls, NEW r \in Requests, Moved(c, r),
           PasswordKept', UNCHANGED << now, deletions >>,
           credential' \in {None} \cup [password : Passwords \cup {"none"}, by : Calls \cup {None}],
           {setup_token', issued'} \subseteq Nat, setup_token' <= issued', issued <= issued',
           setup_token' \in {0, setup_token} \/ setup_token' > issued,
           r.token <= issued',
           r.kind # "setup" => r.save = "none" /\ r.epoch = 0 /\ r.token = 0,
           r.kind = "login" /\ r.at \in {"body", "check"} => r.ip \in Ips,
           r.at = "done" /\ r.save # "none" /\ r.status # 500 => setup_token' = 0,
           \A s \in sessions' : s \in sessions \/
               /\ s \in [id : {c}, expires_at : Nat]
               /\ r.kind = "login" /\ r.at = "done"
               /\ r.status = 200 => r.expires_at = s.expires_at,
           r.kind = "login" /\ (r.at = "create" \/ (r.at = "done" /\ r.status = 200)) =>
               r.password = r.read,
           \/ r.kind = "logout" /\ (r.at = "delete" \/ (r.at = "done" /\ r.status = 200))
           \/ r.kind = "page" /\ r.at = "done" /\ r.status = 200
           => r.cookie \in Cookies,
           r.kind = "logout" /\ r.at = "done" /\ r.status = 200 =>
               \A s \in sessions' : s.id # r.cookie,
           r.kind = "page" /\ r.at = "done" /\ r.status = 200 =>
               r.looked < requests[r.cookie].expires_at /\ r.ended = {}
    PROVE  DashboardInv'
  <1>1. DashboardTypes'
    BY MovedOne DEF DashboardInv, DashboardTypes
  <1>2. TokensPast'
    <2>1. ASSUME NEW d \in Calls PROVE requests'[d].token <= issued'
      <3>1. requests[d].token \in Nat /\ requests[d].token <= issued
        BY DEF DashboardInv, DashboardTypes, TokensPast, Requests
      <3> QED
        BY <3>1, MovedOne DEF DashboardInv, DashboardTypes
    <2>2. ASSUME NEW d \in Calls, requests'[d].at = "done", requests'[d].save # "none",
                 requests'[d].status # 500, setup_token' # 0
          PROVE  setup_token' # requests'[d].token
      <3>1. d # c /\ requests'[d] = requests[d]
        BY <2>2, MovedOne
      <3>2. requests[d].token \in Nat /\ requests[d].token <= issued
        BY DEF DashboardInv, DashboardTypes, TokensPast, Requests
      <3>3. setup_token = 0 \/ setup_token # requests[d].token
        BY <2>2, <3>1 DEF DashboardInv, TokensPast, UsedTokensDead, Saves, _is_valid_setup_token
      <3> QED
        BY <2>2, <3>1, <3>2, <3>3 DEF DashboardInv, DashboardTypes
    <2> QED
      BY <2>1, <2>2 DEF TokensPast, UsedTokensDead, Saves, _is_valid_setup_token
  <1>3. OfLogins'
    BY MovedOne DEF DashboardInv, DashboardTypes, OfLogins
  <1>4. ASSUME NEW d \in Calls, requests'[d].kind = "login",
               requests'[d].at = "create" \/ Answered(d, 200)'
        PROVE  requests'[d].password = requests'[d].read
    <2>1. CASE d = c
      BY <1>4, <2>1, MovedOne DEF Answered
    <2>2. CASE d # c
      <3>1. requests'[d] = requests[d]
        BY <2>2, MovedOne
      <3> QED
        BY <1>4, <3>1 DEF DashboardInv, ChecksPassed, Answered
    <2> QED
      BY <2>1, <2>2
  <1>5. ASSUME NEW d \in Calls,
               \/ requests'[d].kind = "logout" /\ (requests'[d].at = "delete" \/ Answered(d, 200)')
               \/ requests'[d].kind = "page" /\ Answered(d, 200)'
        PROVE  requests'[d].cookie \in Cookies
    <2>1. CASE d = c
      BY <1>5, <2>1, MovedOne DEF Answered
    <2>2. CASE d # c
      <3>1. requests'[d] = requests[d]
        BY <2>2, MovedOne
      <3> QED
        BY <1>5, <3>1 DEF DashboardInv, CookiesGiven, Answered
    <2> QED
      BY <2>1, <2>2
  <1>6. CookiesGiven'
    BY <1>5, MovedOne DEF CookiesGiven
  <1>8. LoggedOut'
    <2>1. SUFFICES ASSUME NEW d \in Calls, requests'[d].kind = "logout", Answered(d, 200)',
                          NEW s \in sessions'
                   PROVE  s.id # requests'[d].cookie
      BY DEF LoggedOut
    <2>2. CASE d = c
      BY <2>1, <2>2, MovedOne DEF Answered
    <2>3. CASE d # c /\ s \in sessions
      BY <2>1, <2>3, MovedOne DEF Answered, DashboardInv, LoggedOut
    <2>4. CASE s.id = c
      <3>1. requests'[d].cookie # c
        BY <2>1, <1>5 DEF Cookies, Answered, Moved
      <3> QED
        BY <3>1, <2>4
    <2> QED
      BY <2>2, <2>3, <2>4
  <1>7. SessionsEarned'
    <2>1. SUFFICES ASSUME NEW d \in Calls, (IsA(d, "page") /\ Answered(d, 200))'
                   PROVE  LET login == requests'[requests'[d].cookie] IN
                          /\ login.password = login.read
                          /\ requests'[d].looked < login.expires_at
                          /\ requests'[d].ended = {}
      BY DEF SessionsEarned
    <2>2. requests'[d].cookie \in Cookies
      BY <2>1, <1>5 DEF IsA
    <2>3. requests'[requests'[d].cookie] = requests[requests'[d].cookie]
      BY <2>2, MovedOne DEF Cookies, Answered
    <2>4. requests'[requests'[d].cookie].password = requests'[requests'[d].cookie].read
      BY <2>2, <2>3 DEF DashboardInv, ChecksPassed, Cookies, IsA
    <2>5. CASE d = c
      BY <2>1, <2>3, <2>4, <2>5, MovedOne DEF IsA, Answered
    <2>6. CASE d # c
      BY <2>1, <2>3, <2>4, <2>6, MovedOne DEF DashboardInv, SessionsEarned, IsA, Answered
    <2> QED
      BY <2>5, <2>6
  <1>10. OnlySetupsSave'
    BY MovedOne DEF DashboardInv, OnlySetupsSave
  <1>11. LoginsHaveIps'
    BY MovedOne DEF DashboardInv, LoginsHaveIps
  <1>9. ChecksPassed'
    BY <1>4 DEF ChecksPassed
  <1> QED
    BY <1>1, <1>2, <1>3, <1>6, <1>7, <1>8, <1>9, <1>10, <1>11 DEF DashboardInv

-----------------------------------------------------------------------------
\* A step that leaves the database and the set-up token alone, of a request
\* that is at no save.
LEMMA QuietRequest ==
    ASSUME DashboardInv, NEW c \in Calls, NEW r \in Requests, Moved(c, r),
           UNCHANGED << credential, deletions, sessions, setup_token, issued, now >>,
           r.save = "none", r.epoch = 0, r.token \in 0 .. issued,
           r.kind = "setup" \/ r.token = 0,
           r.kind = "login" /\ r.at \in {"body", "check"} => r.ip \in Ips,
           r.kind = "login" /\ (r.at = "create" \/ (r.at = "done" /\ r.status = 200)) =>
               r.password = r.read,
           r.kind = "logout" => /\ r.at # "done" \/ r.status # 200
                                /\ r.at = "delete" => r.cookie \in Cookies,
           r.kind = "page" /\ r.at = "done" /\ r.status = 200 =>
               /\ r.cookie \in Cookies
               /\ r.looked < requests[r.cookie].expires_at /\ r.ended = {}
    PROVE  DashboardInv'
  <1>1. {setup_token, issued, deletions} \subseteq Nat /\ setup_token <= issued
        /\ credential \in {None} \cup [password : Passwords \cup {"none"}, by : Calls \cup {None}]
    BY DEF DashboardInv, DashboardTypes
  <1>2. PasswordKept'
    BY <1>1, PasswordStep
  <1> QED
    BY <1>1, <1>2, RequestStep

LEMMA ReplyStep ==
    ASSUME DashboardInv, NEW c \in Calls, requests[c].at # "done",
           NEW kind \in {"setup", "status", "login", "page", "logout"},
           NEW status \in Nat, Becomes(c, Reply(kind, status)),
           status = 200 => kind = "status",
           UNCHANGED << credential, deletions, sessions, setup_token, issued, now >>
    PROVE  DashboardInv'
  <1> DEFINE r == Reply(kind, status)
  <1>1. /\ r \in Requests /\ r.kind = kind /\ r.at = "done" /\ r.status = status
        /\ r.token = 0 /\ r.save = "none" /\ r.epoch = 0
    BY ReplyIsRequest
  <1>2. Moved(c, r)
    BY DEF Becomes, Moved
  <1>3. issued \in Nat
    BY DEF DashboardInv, DashboardTypes
  <1> HIDE DEF r
  <1> QED
    BY <1>1, <1>2, <1>3, QuietRequest

LEMMA SetupArrivesStep ==
    ASSUME DashboardInv, NEW c \in Calls, SetupArrives(c)
    PROVE  DashboardInv'
  <1>0. UNCHANGED << credential, deletions, sessions, setup_token, issued, now >>
        /\ requests[c].at # "done" /\ issued \in Nat
    BY DEF SetupArrives, Arrives, memory, db, outside, DashboardInv, DashboardTypes
  <1>1. CASE Arrives(c, Reply("setup", 403))
    BY <1>0, <1>1, ReplyStep DEF Arrives
  <1>2. ASSUME NEW password \in Passwords, NEW token \in 0 .. issued,
               Arrives(c, [Blank EXCEPT !.kind = "setup", !.at = "body",
                                        !.password = password, !.token = token])
        PROVE  DashboardInv'
    <2> DEFINE r == [Blank EXCEPT !.kind = "setup", !.at = "body",
                                  !.password = password, !.token = token]
    <2>1. token \in Nat
      BY <1>0
    <2>2. /\ r \in Requests /\ r.kind = "setup" /\ r.at = "body" /\ r.save = "none"
          /\ r.epoch = 0 /\ r.token = token
      BY <2>1 DEF Blank, Requests
    <2>3. Moved(c, r)
      BY <1>0, <1>2 DEF Arrives, Becomes, Moved
    <2> HIDE DEF r
    <2> QED
      BY <1>0, <2>2, <2>3, QuietRequest
  <1> QED
    BY <1>1, <1>2 DEF SetupArrives

LEMMA SetupStep ==
    ASSUME DashboardInv, NEW c \in Calls, handle_api_setup(c)
    PROVE  DashboardInv'
  <1>0. /\ requests[c] \in Requests /\ {setup_token, issued, deletions} \subseteq Nat
        /\ setup_token <= issued /\ requests[c].token <= issued /\ requests[c].epoch <= deletions
        /\ credential \in {None} \cup [password : Passwords \cup {"none"}, by : Calls \cup {None}]
    BY DEF DashboardInv, DashboardTypes, TokensPast, PasswordKept
  <1>1. /\ UNCHANGED << credential, deletions, sessions, now >>
        /\ requests[c].kind = "setup" /\ requests[c].at = "body"
    BY DEF handle_api_setup, db, outside, IsA
  <1>2. /\ {setup_token', issued'} \subseteq Nat /\ setup_token' <= issued'
        /\ issued <= issued' /\ (setup_token' = setup_token \/ setup_token' > issued)
    BY <1>0 DEF handle_api_setup, _ensure_setup_token
  <1>3. ASSUME NEW status \in {400, 403}, Becomes(c, Reply("setup", status))
        PROVE  DashboardInv'
    <2> DEFINE r == Reply("setup", status)
    <2>1. /\ r \in Requests /\ r.kind = "setup" /\ r.at = "done" /\ r.status = status
          /\ r.token = 0 /\ r.save = "none" /\ r.epoch = 0
      BY ReplyIsRequest
    <2>2. Moved(c, r)
      BY <1>1, <1>3 DEF Becomes, Moved
    <2> HIDE DEF r
    <2>3. PasswordKept'
      BY <1>0, <1>1, <2>1, <2>2, PasswordStep
    <2> QED
      BY <1>0, <1>1, <1>2, <2>1, <2>2, <2>3, RequestStep
  <1>4. CASE Becomes(c, [requests[c] EXCEPT !.at = "hash"])
    <2> DEFINE r == [requests[c] EXCEPT !.at = "hash"]
    <2>1. /\ r \in Requests /\ r.kind = requests[c].kind /\ r.at = "hash"
          /\ r.token = requests[c].token /\ r.save = requests[c].save
          /\ r.epoch = requests[c].epoch /\ r.password = requests[c].password
      BY <1>0 DEF Requests
    <2>2. Moved(c, r)
      BY <1>1, <1>4 DEF Becomes, Moved
    <2>3. requests[c].token \in Nat
      BY <1>0 DEF Requests
    <2> HIDE DEF r
    <2>4. PasswordKept'
      BY <1>0, <1>1, <2>1, <2>2, PasswordStep
    <2> QED
      BY <1>0, <1>1, <1>2, <2>1, <2>2, <2>3, <2>4, RequestStep
  <1> QED
    BY <1>1, <1>3, <1>4 DEF handle_api_setup, Replies

\* The save, whether its answer arrives (at "saved") or not.
LEMMA SavedStep ==
    ASSUME DashboardInv, NEW c \in Calls, requests[c].at = "hash", requests[c].kind = "setup",
           save_password_hash(c), UNCHANGED << setup_token, issued, now >>,
           NEW r \in Requests, Moved(c, r),
           r.kind = "setup", r.token = requests[c].token, r.password = requests[c].password,
           r.save = IF credential = None THEN "upserted" ELSE "matched",
           r.epoch = deletions, r.at = "saved" \/ r.status = 500
    PROVE  DashboardInv'
  <1>1. /\ requests[c] \in Requests /\ {setup_token, issued, deletions} \subseteq Nat
        /\ setup_token <= issued /\ requests[c].token <= issued
        /\ credential \in {None} \cup [password : Passwords \cup {"none"}, by : Calls \cup {None}]
    BY DEF DashboardInv, DashboardTypes, TokensPast
  <1>2. PasswordKept'
    BY SaveKeepsPassword
  <1>3. r.at # "done" \/ r.status = 500
    OBVIOUS
  <1>4. UNCHANGED << deletions, sessions >>
    BY DEF save_password_hash
  <1>5. credential' \in {None} \cup [password : Passwords \cup {"none"}, by : Calls \cup {None}]
    BY <1>1 DEF save_password_hash, Requests
  <1> QED
    BY <1>1, <1>2, <1>3, <1>4, <1>5, RequestStep

Ended(f, status) == [f EXCEPT !.at = "done", !.status = status]

LEMMA EndedIsRequest ==
    ASSUME NEW f \in Requests, NEW status \in Nat
    PROVE  /\ Ended(f, status) \in Requests
           /\ Ended(f, status).at = "done" /\ Ended(f, status).status = status
           /\ Ended(f, status).kind = f.kind /\ Ended(f, status).token = f.token
           /\ Ended(f, status).password = f.password /\ Ended(f, status).read = f.read
           /\ Ended(f, status).save = f.save /\ Ended(f, status).epoch = f.epoch
           /\ Ended(f, status).cookie = f.cookie
           /\ Ended(f, status).expires_at = f.expires_at
  BY DEF Requests, Ended

LEMMA UpsertIsRequest ==
    ASSUME NEW f \in Requests, deletions \in Nat
    PROVE  /\ Upsert(f) \in Requests /\ Upsert(f).epoch = deletions
           /\ Upsert(f).save = IF credential = None THEN "upserted" ELSE "matched"
           /\ Upsert(f).kind = f.kind /\ Upsert(f).token = f.token
           /\ Upsert(f).password = f.password
  <1>1. PICK result \in {"upserted", "matched"} :
            result = IF credential = None THEN "upserted" ELSE "matched"
    OBVIOUS
  <1>2. Upsert(f) = [f EXCEPT !.save = result, !.epoch = deletions]
    BY <1>1 DEF Upsert
  <1> QED
    BY <1>1, <1>2 DEF Requests

LEMMA SavedIsRequest ==
    ASSUME NEW f \in Requests
    PROVE  LET r == [f EXCEPT !.at = "saved"] IN
           /\ r \in Requests /\ r.at = "saved"
           /\ r.kind = f.kind /\ r.token = f.token /\ r.password = f.password
           /\ r.save = f.save /\ r.epoch = f.epoch
  BY DEF Requests

LEMMA SetupSavesStep ==
    ASSUME DashboardInv, NEW c \in Calls, SetupSaves(c)
    PROVE  DashboardInv'
  <1> DEFINE r == [Upsert(requests[c]) EXCEPT !.at = "saved"]
  <1>1. /\ UNCHANGED << setup_token, issued, now >> /\ save_password_hash(c)
        /\ requests[c].at = "hash" /\ requests[c].kind = "setup"
    BY DEF SetupSaves, IsA, memory, outside
  <1>2. requests[c] \in Requests /\ deletions \in Nat
    BY DEF DashboardInv, DashboardTypes
  <1>3. /\ r \in Requests /\ r.kind = requests[c].kind /\ r.token = requests[c].token
        /\ r.password = requests[c].password /\ r.at = "saved" /\ r.epoch = deletions
        /\ r.save = IF credential = None THEN "upserted" ELSE "matched"
    BY <1>2, UpsertIsRequest, SavedIsRequest
  <1>4. Moved(c, r)
    BY <1>1 DEF SetupSaves, Becomes, Moved
  <1> HIDE DEF r
  <1> QED
    BY <1>1, <1>3, <1>4, SavedStep

LEMMA SaveRaisesStep ==
    ASSUME DashboardInv, NEW c \in Calls, SaveRaises(c)
    PROVE  DashboardInv'
  <1>1. /\ UNCHANGED << setup_token, issued, now >>
        /\ requests[c].at = "hash" /\ requests[c].kind = "setup"
    BY DEF SaveRaises, IsA, memory, outside
  <1>2. requests[c] \in Requests /\ deletions \in Nat
    BY DEF DashboardInv, DashboardTypes
  <1>3. CASE UNCHANGED db /\ Replies(c, 500)
    BY <1>1, <1>3, ReplyStep DEF db, Replies
  <1>4. ASSUME save_password_hash(c),
               Becomes(c, [Upsert(requests[c]) EXCEPT !.at = "done", !.status = 500])
        PROVE  DashboardInv'
    <2> DEFINE r == Ended(Upsert(requests[c]), 500)
    <2>1. /\ r \in Requests /\ r.kind = requests[c].kind /\ r.token = requests[c].token
          /\ r.password = requests[c].password /\ r.status = 500 /\ r.epoch = deletions
          /\ r.save = IF credential = None THEN "upserted" ELSE "matched"
      BY <1>2, UpsertIsRequest, EndedIsRequest
    <2>2. Moved(c, r)
      BY <1>1, <1>4 DEF Becomes, Moved, Ended
    <2> HIDE DEF r
    <2> QED
      BY <1>1, <1>4, <2>1, <2>2, SavedStep
  <1> QED
    BY <1>3, <1>4 DEF SaveRaises

LEMMA SetupDoneStep ==
    ASSUME DashboardInv, NEW c \in Calls, SetupDone(c)
    PROVE  DashboardInv'
  <1>0. /\ requests[c] \in Requests /\ {setup_token, issued, deletions} \subseteq Nat
        /\ setup_token <= issued /\ requests[c].token <= issued /\ requests[c].epoch <= deletions
        /\ credential \in {None} \cup [password : Passwords \cup {"none"}, by : Calls \cup {None}]
    BY DEF DashboardInv, DashboardTypes, TokensPast, PasswordKept
  <1>1. PICK status \in {201, 403} :
            Becomes(c, [requests[c] EXCEPT !.at = "done", !.status = status])
    BY DEF SetupDone, Ends
  <1>2. /\ UNCHANGED << credential, deletions, sessions, now, issued >> /\ setup_token' = 0
        /\ requests[c].kind = "setup" /\ requests[c].at = "saved"
    BY DEF SetupDone, _discard_setup_token, IsA, db, outside
  <1> DEFINE r == Ended(requests[c], status)
  <1>3. /\ r \in Requests /\ r.kind = requests[c].kind /\ r.token = requests[c].token
        /\ r.password = requests[c].password /\ r.epoch = requests[c].epoch
        /\ r.save = requests[c].save
    <2>1. requests[c] \in Requests /\ status \in Nat
      BY <1>0
    <2> QED
      BY ONLY <2>1, EndedIsRequest
  <1>4. Moved(c, r)
    BY <1>1, <1>2 DEF Becomes, Moved, Ended
  <1> HIDE DEF r
  <1>5. PasswordKept'
    BY <1>0, <1>2, <1>3, <1>4, PasswordStep
  <1> QED
    BY <1>0, <1>2, <1>3, <1>4, <1>5, RequestStep

LEMMA StatusArrivesStep ==
    ASSUME DashboardInv, NEW c \in Calls, StatusArrives(c)
    PROVE  DashboardInv'
  <1> DEFINE r == [Blank EXCEPT !.kind = "status", !.at = "read",
                                !.required = (credential = None)]
  <1>1. UNCHANGED << credential, deletions, sessions, setup_token, issued, now >>
        /\ Moved(c, r) /\ issued \in Nat
    BY DEF StatusArrives, Arrives, Becomes, Moved, memory, db, outside, DashboardInv,
           DashboardTypes
  <1>2. (credential = None) \in BOOLEAN
    OBVIOUS
  <1>3. /\ r \in Requests /\ r.kind = "status" /\ r.token = 0 /\ r.save = "none" /\ r.epoch = 0
    BY <1>2 DEF Blank, Requests
  <1> HIDE DEF r
  <1> QED
    BY <1>1, <1>3, QuietRequest

LEMMA StatusStep ==
    ASSUME DashboardInv, NEW c \in Calls, handle_api_auth_status(c)
    PROVE  DashboardInv'
  <1>0. /\ {setup_token, issued, deletions} \subseteq Nat /\ setup_token <= issued
        /\ credential \in {None} \cup [password : Passwords \cup {"none"}, by : Calls \cup {None}]
    BY DEF DashboardInv, DashboardTypes
  <1>1. /\ UNCHANGED << credential, deletions, sessions, now >>
        /\ requests[c].kind = "status" /\ requests[c].at = "read"
    BY DEF handle_api_auth_status, db, outside, IsA
  <1>2. /\ {setup_token', issued'} \subseteq Nat /\ setup_token' <= issued'
        /\ issued <= issued' /\ (setup_token' = setup_token \/ setup_token' > issued)
    BY <1>0 DEF handle_api_auth_status, _ensure_setup_token
  <1> DEFINE r == Reply("status", 200)
  <1>3. /\ r \in Requests /\ r.kind = "status" /\ r.token = 0 /\ r.save = "none" /\ r.epoch = 0
    BY ReplyIsRequest
  <1>4. Moved(c, r)
    BY <1>1 DEF handle_api_auth_status, Replies, Becomes, Moved
  <1> HIDE DEF r
  <1>5. PasswordKept'
    BY <1>0, <1>1, <1>3, <1>4, PasswordStep
  <1> QED
    BY <1>0, <1>1, <1>2, <1>3, <1>4, <1>5, RequestStep

LEMMA LoginArrivesStep ==
    ASSUME DashboardInv, NEW c \in Calls, LoginArrives(c)
    PROVE  DashboardInv'
  <1>0. UNCHANGED << credential, deletions, sessions, setup_token, issued, now >>
        /\ issued \in Nat
    BY DEF LoginArrives, db, outside, DashboardInv, DashboardTypes
  <1>1. CASE Arrives(c, Reply("login", 429))
    BY <1>0, <1>1, ReplyStep DEF Arrives
  <1>2. ASSUME NEW ip \in Ips, NEW password \in Passwords,
               Arrives(c, [Blank EXCEPT !.kind = "login", !.at = "body", !.ip = ip,
                                        !.password = password])
        PROVE  DashboardInv'
    <2> DEFINE r == [Blank EXCEPT !.kind = "login", !.at = "body", !.ip = ip,
                                  !.password = password]
    <2>1. /\ r \in Requests /\ r.kind = "login" /\ r.at = "body" /\ r.save = "none"
          /\ r.epoch = 0 /\ r.token = 0 /\ r.ip = ip
      BY DEF Blank, Requests
    <2>2. Moved(c, r)
      BY <1>2 DEF Arrives, Becomes, Moved
    <2> HIDE DEF r
    <2> QED
      BY <1>0, <2>1, <2>2, QuietRequest
  <1> QED
    BY <1>1, <1>2 DEF LoginArrives

Reads(f, hash) == [f EXCEPT !.at = "check", !.read = hash]
Creates(f, expiry) == [f EXCEPT !.at = "create", !.expires_at = expiry]
Shown(f, cookie, when, ended) ==
    [f EXCEPT !.cookie = cookie, !.looked = when, !.ended = ended]

LEMMA ReadsIsRequest ==
    ASSUME NEW f \in Requests, NEW hash \in Passwords \cup {"none"}
    PROVE  /\ Reads(f, hash) \in Requests /\ Reads(f, hash).at = "check"
           /\ Reads(f, hash).kind = f.kind /\ Reads(f, hash).save = f.save
           /\ Reads(f, hash).ip = f.ip /\ Reads(f, hash).epoch = f.epoch /\ Reads(f, hash).token = f.token
  BY DEF Requests, Reads

LEMMA CreatesIsRequest ==
    ASSUME NEW f \in Requests, NEW expiry \in Nat
    PROVE  /\ Creates(f, expiry) \in Requests /\ Creates(f, expiry).at = "create"
           /\ Creates(f, expiry).kind = f.kind /\ Creates(f, expiry).save = f.save
           /\ Creates(f, expiry).epoch = f.epoch /\ Creates(f, expiry).token = f.token
           /\ Creates(f, expiry).password = f.password /\ Creates(f, expiry).read = f.read
  BY DEF Requests, Creates

LEMMA ShownIsRequest ==
    ASSUME NEW f \in Requests, NEW cookie \in Calls, NEW when \in Nat, NEW ended \in SUBSET Calls
    PROVE  LET r == Shown(f, cookie, when, ended) IN
           /\ r \in Requests /\ r.kind = f.kind /\ r.at = f.at /\ r.save = f.save
           /\ r.epoch = f.epoch /\ r.token = f.token
           /\ r.cookie = cookie /\ r.looked = when /\ r.ended = ended
  BY DEF Requests, Shown

LEMMA GetHashStep ==
    ASSUME DashboardInv, NEW c \in Calls, get_password_hash(c)
    PROVE  DashboardInv'
  <1>0. /\ UNCHANGED << credential, deletions, sessions, setup_token, issued, now >>
        /\ requests[c].kind = "login" /\ requests[c].at = "body" /\ issued \in Nat
        /\ requests[c] \in Requests
        /\ credential \in {None} \cup [password : Passwords \cup {"none"}, by : Calls \cup {None}]
    BY DEF get_password_hash, IsA, db, memory, outside, DashboardInv, DashboardTypes
  <1>1. CASE Replies(c, 403)
    BY <1>0, <1>1, ReplyStep DEF Replies
  <1>2. ASSUME credential # None,
               Becomes(c, [requests[c] EXCEPT !.at = "check", !.read = credential.password])
        PROVE  DashboardInv'
    <2>1. credential.password \in Passwords \cup {"none"}
      BY <1>0, <1>2
    <2> DEFINE r == Reads(requests[c], credential.password)
    <2>2. /\ r \in Requests /\ r.kind = requests[c].kind /\ r.at = "check"
          /\ r.save = requests[c].save /\ r.epoch = requests[c].epoch
          /\ r.token = requests[c].token /\ r.ip = requests[c].ip
      BY <1>0, <2>1, ReadsIsRequest
    <2>3. Moved(c, r)
      BY <1>0, <1>2 DEF Becomes, Moved, Reads
    <2> HIDE DEF r
    <2>4. /\ r.kind = "login" /\ r.save = "none" /\ r.epoch = 0 /\ r.token = 0
          /\ r.ip \in Ips
      BY <1>0, <2>2 DEF DashboardInv, OnlySetupsSave, LoginsHaveIps
    <2> QED
      BY <1>0, <2>2, <2>3, <2>4, QuietRequest
  <1> QED
    BY <1>1, <1>2 DEF get_password_hash

LEMMA LoginStep ==
    ASSUME DashboardInv, NEW c \in Calls, handle_api_login(c)
    PROVE  DashboardInv'
  <1>0. /\ UNCHANGED << credential, deletions, sessions, setup_token, issued, now >>
        /\ requests[c].kind = "login" /\ requests[c].at = "check" /\ issued \in Nat
        /\ requests[c] \in Requests /\ now \in Nat /\ SESSION_TTL \in Nat
    BY DashboardAssumption
    DEF handle_api_login, IsA, db, outside, DashboardInv, DashboardTypes
  <1>1. CASE Replies(c, 401)
    BY <1>0, <1>1, ReplyStep DEF Replies
  <1>2. ASSUME requests[c].password = requests[c].read,
               Becomes(c, [requests[c] EXCEPT !.at = "create", !.expires_at = now + SESSION_TTL])
        PROVE  DashboardInv'
    <2>1. now + SESSION_TTL \in Nat
      BY <1>0
    <2> DEFINE r == Creates(requests[c], now + SESSION_TTL)
    <2>2. /\ r \in Requests /\ r.kind = requests[c].kind /\ r.at = "create"
          /\ r.save = requests[c].save /\ r.epoch = requests[c].epoch
          /\ r.token = requests[c].token /\ r.password = requests[c].password
          /\ r.read = requests[c].read
      BY <1>0, <2>1, CreatesIsRequest
    <2>3. Moved(c, r)
      BY <1>0, <1>2 DEF Becomes, Moved, Creates
    <2> HIDE DEF r
    <2>4. /\ r.kind = "login" /\ r.save = "none" /\ r.epoch = 0 /\ r.token = 0
          /\ r.password = r.read
      BY <1>0, <1>2, <2>2 DEF DashboardInv, OnlySetupsSave
    <2> QED
      BY <1>0, <2>2, <2>3, <2>4, QuietRequest
  <1> QED
    BY <1>1, <1>2 DEF handle_api_login

LEMMA LoggedInStep ==
    ASSUME DashboardInv, NEW c \in Calls, LoggedIn(c)
    PROVE  DashboardInv'
  <1>0. /\ UNCHANGED << credential, deletions, setup_token, issued, now >>
        /\ requests[c].kind = "login" /\ requests[c].at = "create"
        /\ requests[c] \in Requests /\ {setup_token, issued, deletions} \subseteq Nat
        /\ setup_token <= issued
        /\ credential \in {None} \cup [password : Passwords \cup {"none"}, by : Calls \cup {None}]
        /\ requests[c].password = requests[c].read
    BY DEF LoggedIn, create_session, IsA, db, memory, outside, DashboardInv, DashboardTypes,
           ChecksPassed
  <1>1. requests[c].save = "none" /\ requests[c].epoch = 0 /\ requests[c].token = 0
        /\ requests[c].expires_at \in Nat
    BY <1>0 DEF DashboardInv, OnlySetupsSave, Requests
  <1>2. PICK r \in Requests :
            /\ Moved(c, r) /\ r.kind = "login" /\ r.at = "done" /\ r.save = "none"
            /\ r.epoch = 0 /\ r.token = 0
            /\ r.status = 200 => r.password = r.read /\ r.expires_at = requests[c].expires_at
    <2>1. CASE Ends(c, 200)
      <3>1. Moved(c, Ended(requests[c], 200))
        BY <1>0, <2>1 DEF Ends, Becomes, Moved, Ended
      <3> DEFINE r == Ended(requests[c], 200)
      <3>2. /\ r \in Requests /\ r.kind = "login" /\ r.at = "done" /\ r.save = "none"
            /\ r.epoch = 0 /\ r.token = 0 /\ r.password = r.read
            /\ r.expires_at = requests[c].expires_at
        <4>1. /\ r \in Requests /\ r.kind = requests[c].kind /\ r.at = "done"
              /\ r.save = requests[c].save /\ r.epoch = requests[c].epoch
              /\ r.token = requests[c].token /\ r.password = requests[c].password
              /\ r.read = requests[c].read /\ r.expires_at = requests[c].expires_at
          <5>a. requests[c] \in Requests /\ 200 \in Nat
            BY <1>0
          <5> QED
            BY ONLY <5>a, EndedIsRequest
        <4> HIDE DEF r
        <4> QED
          BY <1>0, <1>1, <4>1
      <3> HIDE DEF r
      <3>3. Moved(c, r)
        BY <3>1 DEF r
      <3> QED
        BY <3>2, <3>3
    <2>2. CASE Replies(c, 500)
      <3>1. Moved(c, Reply("login", 500))
        BY <1>0, <2>2 DEF Replies, Becomes, Moved
      <3> QED
        BY <3>1, ReplyIsRequest
    <2> QED
      BY <2>1, <2>2 DEF LoggedIn
  <1>3. \A s \in sessions' : s \in sessions \/
            s = [id |-> c, expires_at |-> requests[c].expires_at]
    BY DEF LoggedIn, create_session, db
  <1>4. \A s \in sessions' : s \in sessions \/
               /\ s \in [id : {c}, expires_at : Nat]
               /\ r.kind = "login" /\ r.at = "done"
               /\ r.status = 200 => r.expires_at = s.expires_at
    BY <1>1, <1>2, <1>3
  <1>5. PasswordKept'
    BY <1>0, <1>2, PasswordStep
  <1> QED
    BY <1>0, <1>2, <1>4, <1>5, RequestStep

LEMMA PageStep ==
    ASSUME DashboardInv, NEW c \in Calls, PageArrives(c)
    PROVE  DashboardInv'
  <1>0. UNCHANGED << credential, deletions, sessions, setup_token, issued, now >>
        /\ issued \in Nat /\ now \in Nat
    BY DEF PageArrives, db, memory, outside, DashboardInv, DashboardTypes
  <1>1. CASE Arrives(c, Reply("page", 401))
    BY <1>0, <1>1, ReplyStep DEF Arrives
  <1>2. ASSUME NEW cookie \in Cookies, find_valid(cookie),
               NEW ended, ended = {d \in Calls : IsA(d, "logout") /\ Answered(d, 200)
                                                 /\ requests[d].cookie = cookie},
               Arrives(c, [Reply("page", 200) EXCEPT !.cookie = cookie,
                                           !.looked = now, !.ended = ended])
        PROVE  DashboardInv'
    <2>1. cookie \in Calls /\ requests[cookie].status = 200
      BY DEF Cookies, Answered
    <2>2. now < requests[cookie].expires_at
      BY <1>2, <2>1 DEF find_valid, DashboardInv, OfLogins, DashboardTypes
    <2>3. ended = {}
      BY <1>2 DEF find_valid, DashboardInv, LoggedOut, IsA
    <2> DEFINE f == Reply("page", 200)
               r == Shown(f, cookie, now, ended)
    <2>4. /\ f \in Requests /\ f.kind = "page" /\ f.save = "none" /\ f.epoch = 0 /\ f.token = 0
      BY ReplyIsRequest
    <2>5. Moved(c, r)
      BY <1>2 DEF Arrives, Becomes, Moved, Shown
    <2> HIDE DEF f
    <2>6. /\ r \in Requests /\ r.kind = f.kind /\ r.save = f.save
          /\ r.epoch = f.epoch /\ r.token = f.token /\ r.cookie = cookie /\ r.looked = now
          /\ r.ended = ended
      BY <1>0, <2>1, <2>3, <2>4, ShownIsRequest
    <2> HIDE DEF r
    <2> QED
      BY <1>0, <2>2, <2>3, <2>4, <2>5, <2>6, QuietRequest
  <1> QED
    BY <1>1, <1>2 DEF PageArrives

LEMMA LogoutArrivesStep ==
    ASSUME DashboardInv, NEW c \in Calls, LogoutArrives(c)
    PROVE  DashboardInv'
  <1>0. UNCHANGED << credential, deletions, sessions, setup_token, issued, now >>
        /\ issued \in Nat
    BY DEF LogoutArrives, db, memory, outside, DashboardInv, DashboardTypes
  <1>1. CASE Arrives(c, Reply("logout", 401))
    BY <1>0, <1>1, ReplyStep DEF Arrives
  <1>2. ASSUME NEW cookie \in Cookies,
               Arrives(c, [Blank EXCEPT !.kind = "logout", !.at = "delete", !.cookie = cookie])
        PROVE  DashboardInv'
    <2>1. cookie \in Calls
      BY DEF Cookies
    <2> DEFINE r == [Blank EXCEPT !.kind = "logout", !.at = "delete", !.cookie = cookie]
    <2>2. /\ r \in Requests /\ r.kind = "logout" /\ r.at = "delete" /\ r.save = "none"
          /\ r.epoch = 0 /\ r.token = 0 /\ r.cookie = cookie
      BY <2>1 DEF Blank, Requests
    <2>3. Moved(c, r)
      BY <1>2 DEF Arrives, Becomes, Moved
    <2> HIDE DEF r
    <2> QED
      BY <1>0, <2>2, <2>3, QuietRequest
  <1> QED
    BY <1>1, <1>2 DEF LogoutArrives

LEMMA LogoutStep ==
    ASSUME DashboardInv, NEW c \in Calls, handle_api_logout(c)
    PROVE  DashboardInv'
  <1>0. /\ UNCHANGED << credential, deletions, setup_token, issued, now >>
        /\ requests[c].kind = "logout" /\ requests[c].at = "delete"
        /\ requests[c] \in Requests /\ {setup_token, issued, deletions} \subseteq Nat
        /\ setup_token <= issued
        /\ credential \in {None} \cup [password : Passwords \cup {"none"}, by : Calls \cup {None}]
        /\ requests[c].cookie \in Cookies
        /\ requests[c].token = 0 /\ requests[c].save = "none" /\ requests[c].epoch = 0
    BY DEF handle_api_logout, delete_session, IsA, db, memory, outside, DashboardInv,
           DashboardTypes, CookiesGiven, OnlySetupsSave
  <1>1. sessions' \subseteq sessions
    BY DEF handle_api_logout, delete_session, db
  <1>2. PICK r \in Requests :
            /\ Moved(c, r) /\ r.kind = "logout" /\ r.at = "done" /\ r.save = "none"
            /\ r.epoch = 0 /\ r.token = 0
            /\ r.status = 200 => /\ r.cookie = requests[c].cookie
                                 /\ \A s \in sessions' : s.id # r.cookie
    <2>1. CASE delete_session(c) /\ Ends(c, 200)
      <3> DEFINE r == Ended(requests[c], 200)
      <3>1. /\ r \in Requests /\ r.kind = requests[c].kind /\ r.at = "done"
            /\ r.save = requests[c].save /\ r.epoch = requests[c].epoch
            /\ r.token = requests[c].token /\ r.cookie = requests[c].cookie
        <4>a. requests[c] \in Requests /\ 200 \in Nat
          BY <1>0
        <4> QED
          BY ONLY <4>a, EndedIsRequest
      <3>2. Moved(c, r)
        BY <1>0, <2>1 DEF Ends, Becomes, Moved, Ended
      <3> HIDE DEF r
      <3>3. \A s \in sessions' : s.id # r.cookie
        BY <2>1, <3>1 DEF delete_session
      <3> QED
        BY <1>0, <3>1, <3>2, <3>3
    <2>2. CASE Replies(c, 500)
      <3>1. Moved(c, Reply("logout", 500))
        BY <1>0, <2>2 DEF Replies, Becomes, Moved
      <3> QED
        BY <3>1, ReplyIsRequest
    <2> QED
      BY <2>1, <2>2 DEF handle_api_logout
  <1>3. PasswordKept'
    BY <1>0, <1>2, PasswordStep
  <1> QED
    BY <1>0, <1>1, <1>2, <1>3, RequestStep

LEMMA TickStep == ASSUME DashboardInv, Tick PROVE DashboardInv'
  BY DEF Tick, db, memory, DashboardInv, DashboardTypes, LoginsHaveIps, OnlySetupsSave, PasswordKept, TokensPast,
         UsedTokensDead, Saves, _is_valid_setup_token, OfLogins, ChecksPassed, CookiesGiven,
         LoggedOut, SessionsEarned, Answered, IsA, Cookies

\* What the surroundings do to the database.
LEMMA DatabaseStep ==
    ASSUME DashboardInv, TtlDeletes \/ DeletedByHand
    PROVE  DashboardInv'
  <1>1. /\ UNCHANGED << requests, setup_token, issued, now >> /\ sessions' \subseteq sessions
        /\ deletions' \in Nat /\ credential' \in {None, credential}
        /\ deletions' = deletions => credential' = credential
        /\ deletions' >= deletions /\ deletions \in Nat
    BY DEF TtlDeletes, DeletedByHand, memory, outside, DashboardInv, DashboardTypes
  <1>2. DashboardTypes' /\ LoginsHaveIps' /\ OnlySetupsSave'
    BY <1>1 DEF DashboardInv, DashboardTypes, LoginsHaveIps, OnlySetupsSave
  <1>3. PasswordKept'
    <2>1. \A c \in Calls : requests[c].epoch \in Nat /\ requests[c].epoch <= deletions
      BY DEF DashboardInv, DashboardTypes, PasswordKept, Requests
    <2> QED
      BY <1>1, <2>1 DEF DashboardInv, PasswordKept
  <1>4. TokensPast'
    BY <1>1 DEF DashboardInv, TokensPast, UsedTokensDead, Saves, _is_valid_setup_token
  <1>5. OfLogins' /\ LoggedOut'
    BY <1>1 DEF DashboardInv, OfLogins, LoggedOut, Answered
  <1>6. ChecksPassed' /\ CookiesGiven' /\ SessionsEarned'
    BY <1>1 DEF DashboardInv, ChecksPassed, CookiesGiven, SessionsEarned, Answered, IsA, Cookies
  <1> QED
    BY <1>2, <1>3, <1>4, <1>5, <1>6 DEF DashboardInv

AtLost(f) == [f EXCEPT !.at = "lost"]
Forgotten(kind) == [Blank EXCEPT !.kind = kind, !.at = "lost"]

LEMMA AtLostIsRequest ==
    ASSUME NEW f \in Requests
    PROVE  /\ AtLost(f) \in Requests /\ AtLost(f).at = "lost" /\ AtLost(f).kind = f.kind
           /\ AtLost(f).token = f.token /\ AtLost(f).save = f.save
           /\ AtLost(f).epoch = f.epoch /\ AtLost(f).password = f.password
  BY DEF Requests, AtLost

LEMMA ForgottenIsRequest ==
    ASSUME NEW kind \in {"none", "setup", "status", "login", "page", "logout"}
    PROVE  /\ Forgotten(kind) \in Requests /\ Forgotten(kind).at = "lost"
           /\ Forgotten(kind).kind = kind /\ Forgotten(kind).token = 0
           /\ Forgotten(kind).save = "none" /\ Forgotten(kind).epoch = 0
  BY DEF Blank, Requests, Forgotten

\* A restart keeps what was answered; what it loses is at no step any more.
LEMMA RestartStep == ASSUME DashboardInv, Restart PROVE DashboardInv'
  <1>1. ASSUME NEW c \in Calls
        PROVE  /\ requests'[c] \in Requests /\ requests'[c].kind = requests[c].kind
               /\ requests[c].at \in {"idle", "done"} => requests'[c] = requests[c]
               /\ requests[c].at \notin {"idle", "done"} => requests'[c].at = "lost"
               /\ \/ /\ requests'[c].token = requests[c].token
                     /\ requests'[c].save = requests[c].save
                     /\ requests'[c].epoch = requests[c].epoch
                     /\ requests'[c].password = requests[c].password
                  \/ /\ requests'[c].token = 0 /\ requests'[c].save = "none"
                     /\ requests'[c].epoch = 0
    <2>1. requests'[c] = Lost(c) /\ requests[c] \in Requests
      BY DEF Restart, DashboardInv, DashboardTypes
    <2>2. /\ requests[c].at \in {"idle", "done"} => Lost(c) = requests[c]
          /\ requests[c].at \notin {"idle", "done"} =>
                 Lost(c) \in {AtLost(requests[c]), Forgotten(requests[c].kind)}
      BY DEF Lost, AtLost, Forgotten
    <2>3. requests[c].kind \in {"none", "setup", "status", "login", "page", "logout"}
      BY <2>1 DEF Requests
    <2> QED
      BY <2>1, <2>2, <2>3, AtLostIsRequest, ForgottenIsRequest
  <1>2. requests' \in [Calls -> Requests]
    <2>1. requests' = [c \in Calls |-> Lost(c)]
      BY DEF Restart
    <2>2. \A c \in Calls : Lost(c) \in Requests
      BY <1>1, <2>1
    <2> QED
      BY <2>1, <2>2
  <1>3. /\ UNCHANGED << credential, deletions, sessions, now >>
        /\ {setup_token', issued', deletions} \subseteq Nat /\ setup_token' <= issued'
        /\ issued <= issued' /\ {issued, deletions} \subseteq Nat
        /\ setup_token' = 0 \/ setup_token' > issued
    BY DEF Restart, Prepared, db, DashboardInv, DashboardTypes
  <1>4. DashboardTypes' /\ LoginsHaveIps' /\ OnlySetupsSave'
    BY <1>1, <1>2, <1>3 DEF DashboardInv, DashboardTypes, LoginsHaveIps, OnlySetupsSave
  <1>5. PasswordKept'
    BY <1>1, <1>3 DEF DashboardInv, PasswordKept
  <1>6. \A c \in Calls : requests'[c].token <= issued /\ requests'[c].token \in Nat
    BY <1>1, <1>3 DEF DashboardInv, TokensPast, Requests
  <1>7. TokensPast'
    BY <1>3, <1>6 DEF TokensPast, UsedTokensDead, _is_valid_setup_token
  <1>8. Cookies' = Cookies
    BY <1>1 DEF Cookies, IsA, Answered
  <1>9. OfLogins' /\ ChecksPassed' /\ CookiesGiven'
    BY <1>1, <1>3, <1>8 DEF DashboardInv, DashboardTypes, OfLogins, ChecksPassed, CookiesGiven, Answered
  <1>10. LoggedOut'
    BY <1>1, <1>3 DEF DashboardInv, LoggedOut, Answered
  <1>11. SessionsEarned'
    <2>1. SUFFICES ASSUME NEW c \in Calls, (IsA(c, "page") /\ Answered(c, 200))'
                   PROVE  LET login == requests'[requests'[c].cookie] IN
                          /\ login.password = login.read
                          /\ requests'[c].looked < login.expires_at
                          /\ requests'[c].ended = {}
      BY DEF SessionsEarned
    <2>2. requests'[c] = requests[c] /\ IsA(c, "page") /\ Answered(c, 200)
      BY <1>1, <2>1 DEF IsA, Answered
    <2>3. requests[c].cookie \in Cookies
      BY <2>2 DEF DashboardInv, CookiesGiven, IsA
    <2>4. requests'[requests[c].cookie] = requests[requests[c].cookie]
      BY <1>1, <2>3 DEF Cookies, Answered
    <2> QED
      BY <2>2, <2>4 DEF DashboardInv, SessionsEarned
  <1> QED
    BY <1>4, <1>5, <1>7, <1>9, <1>10, <1>11 DEF DashboardInv

LEMMA DashboardInitInv == DashboardInit => DashboardInv
  <1> SUFFICES ASSUME DashboardInit PROVE DashboardInv
    OBVIOUS
  <1>1. /\ requests = [c \in Calls |-> Blank] /\ sessions = {} /\ now = 0 /\ deletions = 0
        /\ \A c \in Calls : requests[c] = Blank
        /\ credential \in {None} \cup [password : Passwords \cup {"none"}, by : Calls \cup {None}]
        /\ {setup_token, issued} \subseteq Nat /\ setup_token <= issued
    BY DEF DashboardInit
  <1>2. DashboardTypes
    BY <1>1, BlankIsRequest DEF DashboardTypes
  <1>3. Blank.kind = "none" /\ Blank.at = "idle" /\ Blank.save = "none" /\ Blank.epoch = 0
        /\ Blank.token = 0
    BY DEF Blank
  <1>4. LoginsHaveIps /\ OnlySetupsSave /\ PasswordKept /\ TokensPast
    BY <1>1, <1>2, <1>3
    DEF DashboardTypes, LoginsHaveIps, OnlySetupsSave, PasswordKept, TokensPast, UsedTokensDead, Saves
  <1>5. OfLogins /\ ChecksPassed /\ CookiesGiven /\ LoggedOut /\ SessionsEarned
    BY <1>1, <1>3 DEF OfLogins, ChecksPassed, CookiesGiven, LoggedOut, SessionsEarned, IsA, Answered
  <1> QED
    BY <1>2, <1>4, <1>5 DEF DashboardInv

LEMMA DashboardStep ==
    DashboardInv /\ [DashboardNext \/ Restart]_dashboardVars => DashboardInv'
  <1> SUFFICES ASSUME DashboardInv, [DashboardNext \/ Restart]_dashboardVars
               PROVE  DashboardInv'
    OBVIOUS
  <1>1. ASSUME NEW c \in Calls, Request(c) PROVE DashboardInv'
    BY <1>1, SetupArrivesStep, SetupStep, SetupSavesStep, SaveRaisesStep, SetupDoneStep,
       StatusArrivesStep, StatusStep, LoginArrivesStep, GetHashStep, LoginStep, LoggedInStep,
       PageStep, LogoutArrivesStep, LogoutStep DEF Request
  <1>2. CASE UNCHANGED dashboardVars
    BY <1>2 DEF dashboardVars, DashboardInv, DashboardTypes, LoginsHaveIps, OnlySetupsSave, PasswordKept,
         TokensPast, UsedTokensDead, Saves, _is_valid_setup_token, OfLogins, ChecksPassed,
         CookiesGiven, LoggedOut, SessionsEarned, Answered, IsA, Cookies
  <1> QED
    BY <1>1, <1>2, TickStep, DatabaseStep, RestartStep DEF DashboardNext

(* One password between two deletions, dead tokens, and pages for whom     *)
(* they are meant (DashboardAccess), for any number of requests and        *)
(* restarts.                                                               *)
THEOREM AccessGuarded == DashboardSpec => []DashboardAccess
  <1>1. DashboardInv => DashboardAccess
    BY DEF DashboardInv, PasswordKept, TokensPast, DashboardAccess, OnePassword
  <1> QED
    BY <1>1, DashboardInitInv, DashboardStep, PTL DEF DashboardSpec

-----------------------------------------------------------------------------
\* What the throttle keeps of an address are failures of it since its last
\* success, and of those the window holds it keeps each one.
Logged == [by : Calls, ip : Ips, ok : BOOLEAN, at : Nat]
Since(ip) == {[by |-> logins[k].by, at |-> logins[k].at] : k \in FailedSince(ip)}

ThrottleTypes ==
    /\ logins \in Seq(Logged)
    /\ failures \in [Ips -> SUBSET [by : Calls, at : Nat]]
Throttled ==
    \A ip \in Ips : failures[ip] \subseteq Since(ip) /\ Live(Since(ip)) \subseteq failures[ip]
ThrottleInv == ThrottleTypes /\ Throttled

\* A login that is logged: a failure is one more since the last success of
\* its address, and a success leaves none.
LEMMA SinceAfter ==
    ASSUME ThrottleTypes, NEW l \in Logged, logins' = Append(logins, l), NEW ip \in Ips
    PROVE  Since(ip)' = IF l.ip # ip THEN Since(ip)
                        ELSE IF l.ok THEN {}
                        ELSE Since(ip) \cup {[by |-> l.by, at |-> l.at]}
  <1>1. /\ logins \in Seq(Logged) /\ Len(logins) \in Nat /\ DOMAIN logins = 1 .. Len(logins)
        /\ DOMAIN logins' = 1 .. Len(logins) + 1 /\ Len(logins') = Len(logins) + 1
        /\ logins'[Len(logins) + 1] = l
        /\ \A k \in DOMAIN logins : logins'[k] = logins[k] /\ logins[k] \in Logged
    BY DEF ThrottleTypes
  <1> DEFINE Failed(k) == [by |-> logins[k].by, at |-> logins[k].at]
  <1>2. Since(ip)' = {[by |-> logins'[k].by, at |-> logins'[k].at] : k \in FailedSince(ip)'}
    BY DEF Since
  <1>3. CASE l.ip # ip
    <2>1. FailedSince(ip)' = FailedSince(ip)
      BY <1>1, <1>3 DEF FailedSince
    <2>2. \A k \in FailedSince(ip) : logins'[k] = logins[k]
      BY <1>1 DEF FailedSince
    <2> QED
      BY <1>2, <1>3, <2>1, <2>2 DEF Since
  <1>4. CASE l.ip = ip /\ l.ok
    <2>1. \A k \in DOMAIN logins' : Len(logins) + 1 \in k .. Len(logins')
      BY <1>1
    <2>2. FailedSince(ip)' = {}
      BY <1>1, <1>4, <2>1 DEF FailedSince
    <2> QED
      BY <1>2, <1>4, <2>2
  <1>5. CASE l.ip = ip /\ ~l.ok
    <2>1. FailedSince(ip)' = FailedSince(ip) \cup {Len(logins) + 1}
      BY <1>1, <1>5 DEF FailedSince
    <2>2. \A k \in FailedSince(ip) : logins'[k] = logins[k]
      BY <1>1 DEF FailedSince
    <2> QED
      BY <1>1, <1>2, <1>5, <2>1, <2>2 DEF Since
  <1> QED
    BY <1>3, <1>4, <1>5

LEMMA SinceFailures ==
    ASSUME ThrottleTypes, NEW ip \in Ips
    PROVE  Since(ip) \subseteq [by : Calls, at : Nat]
  <1>1. \A k \in DOMAIN logins : logins[k] \in Logged
    BY DEF ThrottleTypes
  <1>2. \A k \in FailedSince(ip) : logins[k].by \in Calls /\ logins[k].at \in Nat
    BY <1>1 DEF FailedSince, Logged
  <1> QED
    BY <1>2 DEF Since

LEMMA LiveIs ==
    ASSUME NEW S, NEW f
    PROVE  f \in Live(S) <=> f \in S /\ now - f.at < LOGIN_ATTEMPT_WINDOW
  BY DEF Live

LEMMA LoginArrivesThrottled ==
    ASSUME ThrottleInv, NEW c \in Calls, LoginArrives(c)
    PROVE  ThrottleInv'
  <1>1. PICK ip \in Ips : failures' = [failures EXCEPT ![ip] = Live(failures[ip])]
    BY DEF LoginArrives
  <1>2. UNCHANGED << logins, now >>
    BY DEF LoginArrives, outside
  <1>3. ThrottleTypes'
    BY <1>1, <1>2 DEF ThrottleInv, ThrottleTypes, Live
  <1>4. ASSUME NEW i \in Ips
        PROVE  /\ failures'[i] \subseteq failures[i] /\ Live(failures[i]) \subseteq failures'[i]
    BY <1>1 DEF ThrottleInv, ThrottleTypes, Live
  <1>5. Throttled'
    <2>1. ASSUME NEW i \in Ips PROVE Since(i)' = Since(i) /\ Live(Since(i))' = Live(Since(i))
      BY <1>2 DEF Since, FailedSince, Live
    <2>2. ASSUME NEW i \in Ips PROVE Live(Since(i)) \subseteq Live(failures[i])
      BY LiveIs DEF ThrottleInv, Throttled
    <2> QED
      BY <1>4, <2>1, <2>2 DEF ThrottleInv, Throttled
  <1> QED
    BY <1>3, <1>5 DEF ThrottleInv

LEMMA LoginThrottled ==
    ASSUME ThrottleInv, DashboardInv, NEW c \in Calls, handle_api_login(c)
    PROVE  ThrottleInv'
  <1>1. requests[c].ip \in Ips /\ now \in Nat
    BY DEF handle_api_login, IsA, DashboardInv, DashboardTypes, LoginsHaveIps
  <1>2. PICK ok \in BOOLEAN : ok <=> requests[c].password = requests[c].read
    OBVIOUS
  <1>3. PICK ip \in Ips : ip = requests[c].ip
    BY <1>1
  <1> DEFINE l == [by |-> c, ip |-> ip, ok |-> ok, at |-> now]
             new == [by |-> c, at |-> now]
  <1>4. /\ logins' = Append(logins, l) /\ now' = now
        /\ failures' = IF ok THEN _clear_login_failures(c) ELSE _record_login_failure(c)
    BY <1>2, <1>3 DEF handle_api_login, outside
  <1>5. l \in Logged /\ l.ip = ip /\ (l.ok <=> ok) /\ l.by = c /\ l.at = now
    BY <1>1 DEF Logged
  <1>6. ThrottleTypes
    BY DEF ThrottleInv
  <1>7. new \in [by : Calls, at : Nat]
    BY <1>1
  <1> HIDE DEF l, new
  <1>8. ASSUME NEW i \in Ips
        PROVE  Since(i)' = IF ip # i THEN Since(i) ELSE IF ok THEN {}
                           ELSE Since(i) \cup {new}
    BY <1>4, <1>5, <1>6, SinceAfter DEF new
  <1>9. ASSUME NEW i \in Ips PROVE Live(Since(i))' = Live(Since(i)')
    BY <1>4 DEF Live
  <1>10. CASE ok
    <2>1. failures' = [failures EXCEPT ![ip] = {}]
      BY <1>3, <1>4, <1>10 DEF _clear_login_failures
    <2>2. ThrottleTypes'
      BY <1>4, <1>5, <1>6, <2>1 DEF ThrottleTypes
    <2>3. Throttled'
      BY <1>8, <1>9, <1>10, <1>6, <2>1, LiveIs DEF ThrottleInv, ThrottleTypes, Throttled
    <2> QED
      BY <2>2, <2>3 DEF ThrottleInv
  <1>11. CASE ~ok
    <2>1. PICK kept \in [Ips -> SUBSET [by : Calls, at : Nat]] :
              /\ failures' = [kept EXCEPT ![ip] = @ \cup {new}]
              /\ \A i \in Ips : kept[i] \subseteq failures[i] /\ Live(failures[i]) \subseteq kept[i]
      <3>1. CASE Purges
        <4> DEFINE kept == [i \in Ips |-> IF Live(failures[i]) = {} THEN {} ELSE failures[i]]
        <4>1. failures' = [kept EXCEPT ![ip] = @ \cup {new}]
          BY <1>3, <1>4, <1>11, <3>1 DEF _record_login_failure, new
        <4>2. kept \in [Ips -> SUBSET [by : Calls, at : Nat]]
          BY <1>6 DEF ThrottleTypes
        <4>3. \A i \in Ips : kept[i] \subseteq failures[i] /\ Live(failures[i]) \subseteq kept[i]
          BY LiveIs
        <4> HIDE DEF kept
        <4> QED
          BY <4>1, <4>2, <4>3
      <3>2. CASE ~Purges
        <4>1. failures' = [failures EXCEPT ![ip] = @ \cup {new}]
          BY <1>3, <1>4, <1>11, <3>2 DEF _record_login_failure, new
        <4>2. \A i \in Ips : Live(failures[i]) \subseteq failures[i]
          BY LiveIs
        <4> QED
          BY <4>1, <4>2, <1>6 DEF ThrottleTypes
      <3> QED
        BY <3>1, <3>2
    <2>2. failures' \in [Ips -> SUBSET [by : Calls, at : Nat]]
      BY <2>1, <1>7
    <2>3. ThrottleTypes'
      BY <1>4, <1>5, <1>6, <2>2 DEF ThrottleTypes
    <2>4. ASSUME NEW i \in Ips
          PROVE  failures'[i] \subseteq Since(i)' /\ Live(Since(i)') \subseteq failures'[i]
      <3>1. failures[i] \subseteq Since(i) /\ Live(Since(i)) \subseteq failures[i]
        BY DEF ThrottleInv, Throttled
      <3>2. Live(Since(i)) \subseteq Live(failures[i])
        BY <3>1, LiveIs
      <3>3. Live(Since(i)) \subseteq kept[i] /\ kept[i] \subseteq Since(i)
        BY <2>1, <3>1, <3>2
      <3>4. CASE i # ip
        BY <1>8, <2>1, <3>3, <3>4
      <3>5. CASE i = ip
        BY <1>8, <1>11, <2>1, <3>3, <3>5, LiveIs
      <3> QED
        BY <3>4, <3>5
    <2> QED
      BY <2>3, <2>4, <1>9 DEF ThrottleInv, Throttled
  <1> QED
    BY <1>10, <1>11

LEMMA RestartThrottled == ASSUME ThrottleInv, Restart PROVE ThrottleInv'
  <1>1. failures' = [i \in Ips |-> {}] /\ logins' = << >>
    BY DEF Restart
  <1>2. \A i \in Ips : Since(i)' = {}
    BY <1>1 DEF Since, FailedSince
  <1> QED
    BY <1>1, <1>2, LiveIs DEF ThrottleInv, ThrottleTypes, Throttled, Live

LEMMA TickThrottled ==
    ASSUME ThrottleInv, DashboardInv, Tick
    PROVE  ThrottleInv'
  <1>1. UNCHANGED << failures, logins >> /\ now' = now + 1 /\ now \in Nat
        /\ LOGIN_ATTEMPT_WINDOW \in Nat
    BY DashboardAssumption DEF Tick, memory, DashboardInv, DashboardTypes
  <1>2. ThrottleTypes'
    BY <1>1 DEF ThrottleInv, ThrottleTypes
  <1>3. ASSUME NEW i \in Ips PROVE Since(i)' = Since(i)
    BY <1>1 DEF Since, FailedSince
  <1>4. ASSUME NEW i \in Ips PROVE Live(Since(i))' \subseteq Live(Since(i))
    <2>1. \A f \in Since(i) : f.at \in Nat
      BY SinceFailures DEF ThrottleInv
    <2> QED
      BY <1>1, <1>3, <2>1 DEF Live
  <1> QED
    BY <1>1, <1>2, <1>3, <1>4 DEF ThrottleInv, Throttled

LEMMA OthersThrottled ==
    ASSUME ThrottleInv, UNCHANGED << failures, logins, now >>
    PROVE  ThrottleInv'
  BY DEF ThrottleInv, ThrottleTypes, Throttled, Since, FailedSince, Live

LEMMA ThrottleStep ==
    DashboardInv /\ ThrottleInv /\ [DashboardNext \/ Restart]_dashboardVars => ThrottleInv'
  <1> SUFFICES ASSUME DashboardInv, ThrottleInv, [DashboardNext \/ Restart]_dashboardVars
               PROVE  ThrottleInv'
    OBVIOUS
  <1>1. ASSUME NEW c \in Calls, Request(c) PROVE ThrottleInv'
    <2>1. CASE LoginArrives(c) \/ handle_api_login(c)
      BY <2>1, LoginArrivesThrottled, LoginThrottled
    <2>2. CASE ~LoginArrives(c) /\ ~handle_api_login(c)
      <3>1. UNCHANGED << failures, logins, now >>
        BY <1>1, <2>2 DEF Request, SetupArrives, handle_api_setup, SetupSaves, SaveRaises,
             SetupDone, StatusArrives, handle_api_auth_status, get_password_hash, LoggedIn,
             PageArrives, LogoutArrives, handle_api_logout, memory, outside
      <3> QED
        BY <3>1, OthersThrottled
    <2> QED
      BY <2>1, <2>2
  <1>2. CASE TtlDeletes \/ DeletedByHand \/ UNCHANGED dashboardVars
    BY <1>2, OthersThrottled DEF TtlDeletes, DeletedByHand, memory, outside, dashboardVars
  <1> QED
    BY <1>1, <1>2, TickThrottled, RestartThrottled DEF DashboardNext

(* ThrottleCountsFailures for any number of addresses, logins and          *)
(* restarts, whatever the window and the limits are.                       *)
THEOREM ThrottleExact == DashboardSpec => []ThrottleCountsFailures
  <1>1. DashboardInit => ThrottleInv
    BY DEF DashboardInit, ThrottleInv, ThrottleTypes, Throttled, Since, FailedSince, Live
  <1>2. ThrottleInv => ThrottleCountsFailures
    <2> SUFFICES ASSUME ThrottleInv, NEW ip \in Ips
                 PROVE  Live(failures[ip]) = Live(Since(ip))
      BY DEF ThrottleCountsFailures, Since
    <2> QED
      BY LiveIs DEF ThrottleInv, Throttled
  <1> QED
    BY <1>1, <1>2, DashboardInitInv, DashboardStep, ThrottleStep, PTL DEF DashboardSpec

-----------------------------------------------------------------------------
LEMMA WebParts ==
    Spec => DashboardSpec /\ TokensSpec /\ ButtonsSpec
  <1>1. Init => DashboardInit /\ TokensInit /\ ButtonsInit
    BY DEF Init
  <1>2. [Next]_vars => [DashboardNext \/ Restart]_dashboardVars
    BY DEF Next, vars
  <1>3. [Next]_vars => [TokensNext]_tokenVars
    BY DEF Next, vars
  <1>4. [Next]_vars => [ButtonsNext \/ PressesLost]_buttonVars
    BY DEF Next, vars
  <1> QED
    BY <1>1, <1>2, <1>3, <1>4, PTL DEF Spec, DashboardSpec, TokensSpec, ButtonsSpec

(* The four promises hold of the process as a whole, in any mix and order  *)
(* of requests, presses and issues.                                        *)
THEOREM WebKept ==
    Spec => [](DashboardAccess /\ ThrottleCountsFailures /\ IssuedTokens /\ ButtonActionOnce)
  BY WebParts, AccessGuarded, ThrottleExact, TokensSpecIssued, ButtonsSpecOnce, PTL
=============================================================================
