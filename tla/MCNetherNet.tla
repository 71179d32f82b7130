---------------------------- MODULE MCNetherNet ----------------------------
(***************************************************************************)
(* The instance of NetherNetNetwork that TLC explores.                     *)
(***************************************************************************)
EXTENDS NetherNetNetwork

\* Packets are explored after a first attempt that succeeded and at most one message of
\* the server; what the server does otherwise, without packets.
OneAtATime == written # <<>> => attempt = 1 /\ sent <= 1 /\ ws # "lost"
=============================================================================
