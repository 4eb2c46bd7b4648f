---------------------------- MODULE GoogleGrant -----------------------------
(***************************************************************************)
(* One record of the credentials collection, shared by everything that     *)
(* calls the same Google API: extensions/google_oauth (token.py,           *)
(* callback.py, client.py) and the check of the scopes in                  *)
(* extensions/google_drive/client.py.                                      *)
(*                                                                         *)
(* Reading, posting to Google and upserting are three awaits, so calls of  *)
(* the API, the start of a new flow and the callbacks of old ones          *)
(* interleave.  An access or refresh token is the number of the code whose *)
(* exchange began its grant; a state is the number of the flow.            *)
(***************************************************************************)
EXTENDS Naturals, Sequences

CONSTANTS
    Calls,          \* bound: calls of the API and callbacks, each used once
    SCOPES,         \* the scopes the client asks for
    ChecksScopes,   \* whether it compares them first (GoogleDriveClient)
    ConsentScopes,  \* the sets of scopes the owner may consent to
    FirstScopes,    \* what a record of an earlier configuration may say
    MaxConsents     \* bound: consents of the owner

VARIABLES
    record,     \* [state, access, valid, refresh, scopes]; 0: not there;
                \* scopes: those on record, {} or {the set of them}
    started,    \* how many flows have been started
    consents,   \* consents[k]: the flow and the scopes behind code k
    exchanged,  \* the codes that Google has exchanged
    revoked,    \* the grants that were revoked
    does,       \* does[c]: what call c does next
    holds       \* holds[c]: the refresh token, or the code, call c carries

grantVars == << record, started, consents, exchanged, revoked, does, holds >>
google == << consents, exchanged, revoked >>

ApiSteps == {"read", "refresh", "store", "reauth"}
CallbackSteps == {"clear", "exchange", "save"}
Ended == {"sent", "failed", "asked", "refused", "unused", "saved", "lost"}

Goes(c, to) == does' = [does EXCEPT ![c] = to]
Carries(c, token) == holds' = [holds EXCEPT ![c] = token]

-----------------------------------------------------------------------------
(* A call of the API needs an access token.                                *)

Covered == \A scopes \in record.scopes : SCOPES \subseteq scopes

ApiCallBegins(c) ==
    /\ does[c] = "idle"
    /\ Goes(c, IF ChecksScopes /\ ~Covered THEN "reauth" ELSE "read")
    /\ UNCHANGED << record, started, google, holds >>

(* The record is read again here, not taken over from the check.           *)
get_google_access_token(c) ==
    /\ does[c] = "read"
    /\ \/ record.valid /\ Goes(c, "sent") /\ Carries(c, record.access)
       \/ ~record.valid /\ record.refresh = 0 /\ Goes(c, "reauth") /\ UNCHANGED holds
       \/ ~record.valid /\ record.refresh # 0 /\ Goes(c, "refresh")
              /\ Carries(c, record.refresh)
    /\ UNCHANGED << record, started, google >>

(* Google answers, invalid_grant or not; or the request fails.             *)
_refresh_google_access_token(c) ==
    /\ does[c] = "refresh"
    /\ \/ holds[c] \notin revoked /\ Goes(c, "store")
       \/ holds[c] \in revoked /\ Goes(c, "reauth")
       \/ Goes(c, "failed")
    /\ UNCHANGED << record, started, google, holds >>

(* build_token_credentials with the refresh token it was called with.      *)
(* For the mutant: without it, as Google returns no refresh token.         *)
WithoutFallback(token) ==
    [record EXCEPT !.access = token, !.refresh = 0, !.valid = TRUE]
Refreshed(token) ==
    [record EXCEPT !.access = token, !.refresh = token, !.valid = TRUE]

StoresToken(c) ==
    /\ does[c] = "store"
    /\ record' = Refreshed(holds[c])
    /\ Goes(c, "sent")
    /\ UNCHANGED << started, google, holds >>

(* tool_reauth_required: a new flow, whose link the owner is shown.        *)
start_google_authentication(c) ==
    /\ does[c] = "reauth"
    /\ started' = started + 1
    /\ record' = [record EXCEPT !.state = started + 1]
    /\ Goes(c, "asked")
    /\ UNCHANGED << google, holds >>

-----------------------------------------------------------------------------
(* The way back from Google.                                               *)

(* The owner follows any link that was shown, an old one too.              *)
Consents(flow, scopes) ==
    /\ flow \in 1 .. started /\ Len(consents) < MaxConsents
    /\ consents' = Append(consents, [state |-> flow, scopes |-> scopes])
    /\ UNCHANGED << record, started, exchanged, revoked, does, holds >>

(* A browser may come back twice with one code.                            *)
handle_google_callback(c, code) ==
    /\ does[c] = "idle" /\ code \in DOMAIN consents
    /\ Carries(c, code)
    /\ Goes(c, IF record.state = consents[code].state THEN "clear" ELSE "refused")
    /\ UNCHANGED << record, started, google >>

(* Another state may stand in the record by now: it is cleared as well.    *)
ClearsState(c) ==
    /\ does[c] = "clear"
    /\ record' = [record EXCEPT !.state = 0]
    /\ Goes(c, "exchange")
    /\ UNCHANGED << started, google, holds >>

(* Google exchanges a code once; a failure leaves the state used up.       *)
Exchanges(c) ==
    /\ does[c] = "exchange"
    /\ \/ /\ holds[c] \notin exchanged
          /\ exchanged' = exchanged \cup {holds[c]} /\ Goes(c, "save")
       \/ UNCHANGED exchanged /\ Goes(c, "unused")
    /\ UNCHANGED << record, started, consents, revoked, holds >>

SavesTokens(c) ==
    /\ does[c] = "save"
    /\ record' = [record EXCEPT !.access = holds[c], !.refresh = holds[c],
                                !.valid = TRUE, !.scopes = {consents[holds[c]].scopes}]
    /\ Goes(c, "saved")
    /\ UNCHANGED << started, google, holds >>

-----------------------------------------------------------------------------
(* The surroundings.                                                       *)

Expires ==
    /\ record.valid
    /\ record' = [record EXCEPT !.valid = FALSE]
    /\ UNCHANGED << started, google, does, holds >>

Revokes(grant) ==
    /\ grant \in exchanged \ revoked
    /\ revoked' = revoked \cup {grant}
    /\ UNCHANGED << record, started, consents, exchanged, does, holds >>

GrantCallsLost ==
    /\ does' = [c \in Calls |->
           IF does[c] \in ApiSteps \cup CallbackSteps THEN "lost" ELSE does[c]]
    /\ UNCHANGED << record, started, google, holds >>

(* No record yet, or one of an earlier configuration, its token run out.   *)
GrantInit ==
    /\ revoked = {}
    /\ \/ /\ record = [state |-> 0, access |-> 0, valid |-> FALSE, refresh |-> 0, scopes |-> {}]
          /\ started = 0 /\ consents = << >> /\ exchanged = {}
       \/ \E scopes \in FirstScopes :
              /\ record = [state |-> 0, access |-> 1, valid |-> FALSE, refresh |-> 1,
                           scopes |-> {scopes}]
              /\ started = 1 /\ exchanged = {1}
              /\ consents = << [state |-> 1, scopes |-> scopes] >>
    /\ does = [c \in Calls |-> "idle"] /\ holds = [c \in Calls |-> 0]

GrantCall(c) ==
    \/ ApiCallBegins(c) \/ get_google_access_token(c) \/ _refresh_google_access_token(c)
    \/ StoresToken(c) \/ start_google_authentication(c)
    \/ \E code \in DOMAIN consents : handle_google_callback(c, code)
    \/ ClearsState(c) \/ Exchanges(c) \/ SavesTokens(c)

GrantNext ==
    \/ \E c \in Calls : GrantCall(c)
    \/ \E flow \in 1 .. started, scopes \in ConsentScopes : Consents(flow, scopes)
    \/ Expires
    \/ \E grant \in exchanged : Revokes(grant)

GrantSpec == GrantInit /\ [][GrantNext \/ GrantCallsLost]_grantVars

-----------------------------------------------------------------------------
(* The access and the refresh token in the record belong to one grant,     *)
(* whoever wrote last: a refresh that comes after a callback puts the old  *)
(* pair back, never half of it.                                            *)
TokensOfOneGrant == record.access = record.refresh

(* Once a grant is stored, nothing - no refresh, no new flow, no failed    *)
(* callback - leaves the record without a refresh token of an exchanged    *)
(* code, so a call asks for a login only when Google refuses that token or *)
(* its scopes do not do.                                                   *)
RefreshTokenKept ==
    /\ (\E c \in Calls : does[c] = "saved") => record.refresh # 0
    /\ record.refresh # 0 => record.refresh \in exchanged

(* A state that let a callback through lets no later one through, whether  *)
(* the exchange succeeded or not.                                          *)
UsedStatesDead ==
    \A c \in Calls : does[c] \in {"exchange", "save", "unused", "saved"} =>
        record.state # consents[holds[c]].state

GrantSound == TokensOfOneGrant /\ RefreshTokenKept /\ UsedStatesDead
=============================================================================
