-------------------------------- MODULE Web ---------------------------------
(***************************************************************************)
(* What reaches one process and its database from outside: requests to the *)
(* dashboard, presses of buttons, and the issuing of client tokens, which  *)
(* is a process of its own.  A bounded number of calls comes in any mix    *)
(* and order; a restart loses what the bot itself had under way.           *)
(***************************************************************************)
EXTENDS Dashboard, ClientTokens, ButtonActions

vars == << dashboardVars, tokenVars, buttonVars >>

(* A call is one of the three.                                             *)
UsedOnce ==
    \A c \in Calls :
        Cardinality({k \in 1 .. 3 : << requests[c].at, issues[c], presses[c] >>[k] # "idle"}) <= 1

Init == DashboardInit /\ TokensInit /\ ButtonsInit

Next ==
    /\ \/ DashboardNext /\ UNCHANGED << tokenVars, buttonVars >>
       \/ TokensNext /\ UNCHANGED << dashboardVars, buttonVars >>
       \/ ButtonsNext /\ UNCHANGED << dashboardVars, tokenVars >>
       \/ Restart /\ PressesLost /\ UNCHANGED tokenVars
    /\ UsedOnce'

Spec == Init /\ [][Next]_vars
=============================================================================
