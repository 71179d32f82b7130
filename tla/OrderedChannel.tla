--------------------------- MODULE OrderedChannel ---------------------------
(***************************************************************************)
(* What mcbe's transports promise to the layer above them: between two     *)
(* endpoints, each direction is a queue.  The packets an endpoint has      *)
(* been handed are, at every moment, a prefix of those the other one       *)
(* sent: nothing is lost from the middle, duplicated, altered or           *)
(* overtaken.  How datagrams achieve this is the business of the modules   *)
(* that implement this one (RakNetChannel).                                *)
(***************************************************************************)
EXTENDS Naturals, Sequences

CONSTANTS
    End,           \* the two endpoints
    Opposite(_)    \* the endpoint at the other side

VARIABLES
    outgoing,      \* outgoing[e]: every packet e has sent, oldest first
    delivered      \* delivered[e]: every packet handed to e, oldest first

cvars == <<outgoing, delivered>>

Extends(longer, shorter) ==
    /\ Len(shorter) <= Len(longer)
    /\ \A i \in 1..Len(shorter) : longer[i] = shorter[i]

Init ==
    /\ outgoing = [e \in End |-> <<>>]
    /\ delivered = [e \in End |-> <<>>]

(* One endpoint is handed the next packets addressed to it, any number of  *)
(* them, and sends some of its own, possibly in answer.                    *)
Exchange(e) ==
    /\ \A d \in End \ {e} : /\ outgoing'[d] = outgoing[d]
                            /\ delivered'[d] = delivered[d]
    /\ Extends(outgoing'[e], outgoing[e])
    /\ Extends(delivered'[e], delivered[e])
    /\ Extends(outgoing[Opposite(e)], delivered'[e])

Next == \E e \in End : Exchange(e)

Spec == Init /\ [][Next]_cvars

=============================================================================
