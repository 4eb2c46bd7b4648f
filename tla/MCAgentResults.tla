---------------------------- MODULE MCAgentResults ----------------------------
(* Small instances of AgentResults for TLC. *)
EXTENDS AgentResults, TLC

CONSTANTS r1, r2, a1, a2

Posts(k, a, r) == [kind |-> k, author |-> a, req |-> r]

\* An answer in one message; and an answer in two messages with a message of
\* another agent between them.
TwoScripts == {
    << Posts("full", a1, r1) >>,
    << Posts("front", a1, r1), Posts("front", a2, r2),
       Posts("file", a1, r1) >> }

OneOfEach == r1 :> "discord" @@ r2 :> "extension"
=============================================================================
