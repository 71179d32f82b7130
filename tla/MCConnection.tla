---------------------------- MODULE MCConnection ----------------------------
(***************************************************************************)
(* The instance of Connection that TLC explores.                           *)
(***************************************************************************)
EXTENDS Connection

\* Up to two packets are written while others are read.  A read is cancelled when none is
\* written; a batch is too large, and more packets are written, when none is read.
OneWay ==
    /\ cancels > 0 => accepted = 0
    /\ fails > 0 \/ accepted > 2 => arrived = 0 /\ getTask = 0
=============================================================================
