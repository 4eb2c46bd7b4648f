---------------------------- MODULE ClientTokens ----------------------------
(***************************************************************************)
(* The tokens of the shared HTTP server: scripts/issue_client_token.py on  *)
(* top of repository/client_token_repository.py.  Every issue is a process *)
(* of its own, so issues overlap and may be killed at any point; the token *)
(* a call issues is named after the call.                                  *)
(***************************************************************************)
EXTENDS WebCalls, Naturals, FiniteSets

CONSTANT Labels

VARIABLES
    client_tokens,  \* the documents: [token, label]
    issues,         \* issues[c]: what the issue of call c does next
    label_of,       \* label_of[c]: the label it was called with
    prior,          \* prior[c]: the tokens that had been stored when c deleted
    removed         \* removed[c]: the tokens c deleted

tokenVars == << client_tokens, issues, label_of, prior, removed >>

IssueSteps == {"idle", "exists", "confirm", "replace", "create", "printed",
               "declined", "failed"}

(* verify_client_token: what the HTTP server accepts.                      *)
verify_client_token(token) == \E d \in client_tokens : d.token = token

Stored == {c \in Calls : issues[c] \in {"printed", "failed"}}

IssueGoes(c, to) == issues' = [issues EXCEPT ![c] = to]

IssueBegins(c, label) ==
    /\ issues[c] = "idle"
    /\ IssueGoes(c, "exists")
    /\ label_of' = [label_of EXCEPT ![c] = label]
    /\ UNCHANGED << client_tokens, prior, removed >>

(* Only a token that is already there has to be confirmed, unless --yes.   *)
exists_by_label(c, yes) ==
    /\ issues[c] = "exists"
    /\ IssueGoes(c, IF (\E d \in client_tokens : d.label = label_of[c]) /\ ~yes
               THEN "confirm" ELSE "replace")
    /\ UNCHANGED << client_tokens, label_of, prior, removed >>

confirm_overwrite(c, answer) ==
    /\ issues[c] = "confirm"
    /\ IssueGoes(c, IF answer THEN "replace" ELSE "declined")
    /\ UNCHANGED << client_tokens, label_of, prior, removed >>

(* For the mutant: delete_one instead of delete_many.                      *)
OldestSuperseded(label) ==
    LET all == {d \in client_tokens : d.label = label}
    IN IF all = {} THEN {} ELSE {CHOOSE d \in all : TRUE}
Superseded(label) == {d \in client_tokens : d.label = label}

delete_by_label(c) ==
    /\ issues[c] = "replace"
    /\ IssueGoes(c, "create")
    /\ LET gone == Superseded(label_of[c]) IN
         /\ client_tokens' = client_tokens \ gone
         /\ removed' = [removed EXCEPT ![c] = {d.token : d \in gone}]
         /\ prior' = [prior EXCEPT ![c] =
                {d \in Stored : label_of[d] = label_of[c]}]
    /\ UNCHANGED label_of

create(c) ==
    /\ issues[c] = "create"
    /\ client_tokens' = client_tokens \cup {[token |-> c, label |-> label_of[c]]}
    /\ IssueGoes(c, "printed")
    /\ UNCHANGED << label_of, prior, removed >>

(* Killed, or MongoDB raises; the insert may have been applied.            *)
IssueFails(c) ==
    /\ issues[c] \in {"exists", "confirm", "replace", "create"}
    /\ IssueGoes(c, "failed")
    /\ client_tokens' \in {client_tokens} \cup
           IF issues[c] = "create"
           THEN {client_tokens \cup {[token |-> c, label |-> label_of[c]]}} ELSE {}
    /\ UNCHANGED << label_of, prior, removed >>

TokensInit ==
    /\ client_tokens = {}
    /\ issues = [c \in Calls |-> "idle"]
    /\ label_of \in [Calls -> Labels]
    /\ prior = [c \in Calls |-> {}] /\ removed = [c \in Calls |-> {}]

Issue(c) ==
    \/ \E label \in Labels : IssueBegins(c, label)
    \/ \E yes \in BOOLEAN : exists_by_label(c, yes)
    \/ \E answer \in BOOLEAN : confirm_overwrite(c, answer)
    \/ delete_by_label(c) \/ create(c) \/ IssueFails(c)

TokensNext == \E c \in Calls : Issue(c)
TokensSpec == TokensInit /\ [][TokensNext]_tokenVars

-----------------------------------------------------------------------------
(* A token that was printed is accepted until another issue for its label  *)
(* deletes it, and an issue that printed its token left no older token of  *)
(* its label accepted (replace: delete first, then store).                 *)
IssuedTokens ==
    \A c \in Calls : issues[c] = "printed" =>
        /\ verify_client_token(c) \/ \E d \in Calls \ {c} : c \in removed[d]
        /\ \A d \in prior[c] : ~verify_client_token(d)
=============================================================================
