------------------------------ MODULE MCSignIn ------------------------------
(***************************************************************************)
(* The instance of SignIn that TLC explores.                               *)
(***************************************************************************)
EXTENDS SignIn

Beyond(p) ==
    \/ at[p] \notin Ended \cup {"load", "refresh", "ask", "poll", "save", "write", "device"}
    \/ at[p] = "device" /\ (party[p] # "realms" \/ try[p] > 1)

\* Programs share the Live token only, and are alike: what comes after it is explored
\* for one of them.
First == CHOOSE p \in Program : TRUE
OneBeyond == \A p \in Program \ {First} : ~Beyond(p) /\ config[p] = config[First]
=============================================================================
