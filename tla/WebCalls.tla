------------------------------ MODULE WebCalls ------------------------------
(* What Dashboard, ClientTokens and ButtonActions count their calls by.    *)
CONSTANT Calls      \* bound: the calls from outside, each used once
=============================================================================
