--------------------------- MODULE MCRakNetChannel ---------------------------
(***************************************************************************)
(* Instances of RakNetChannel for TLC.                                     *)
(***************************************************************************)
EXTENDS RakNetChannel, TLC

CONSTANTS ClientWrites, ServerWrites, ClientPings, ServerPings

Writes == (Client :> ClientWrites) @@ (Server :> ServerWrites)
Pings == (Client :> ClientPings) @@ (Server :> ServerPings)

\* A ping is sent instead of packets.
PingsAlone == \A p \in Peer : Count(p, "ping") = 0 \/ Count(p, "game") = 0
=============================================================================
