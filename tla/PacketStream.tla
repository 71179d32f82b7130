---------------------------- MODULE PacketStream ----------------------------
(***************************************************************************)
(* What a Connection promises the application.  Packets are numbered, as   *)
(* in Connection.  Reading: the packets that have come, the next one each  *)
(* time, except those that went to a read that was given up; then an       *)
(* error, and nothing after it.  Writing: a packet waits until all that    *)
(* wait are sent together, in the order of the calls, or is sent at once.  *)
(* How four tasks, a queue and a buffer achieve this is the business of    *)
(* Connection, which implements this module.                               *)
(***************************************************************************)
EXTENDS Naturals, Sequences, FiniteSets, Functions

VARIABLES
    arrived,       \* number of packets that have come
    over,          \* no more will come
    short,         \* the transport has ended with packets in its hands
    closed,        \* the application has closed
    got,           \* the packets read
    gone,          \* the packets that went to reads given up
    givenUp,       \* number of reads given up
    raised,        \* a read has ended with an error
    accepted,      \* number of packets written
    atOnce,        \* those of them written to be sent at once
    sent,          \* the packets handed to the transport
    failed         \* the packets that the transport did not take

readVars == <<arrived, over, short, closed, got, gone, givenUp, raised>>
writeVars == <<accepted, atOnce, sent, failed>>

-----------------------------------------------------------------------------
(* Reading.                                                                *)

ToRead == (1 .. arrived) \ (Range(got) \cup gone)

ReadInit ==
    /\ arrived = 0 /\ ~over /\ ~short /\ ~closed
    /\ got = <<>> /\ gone = {} /\ givenUp = 0 /\ ~raised

Come ==
    /\ ~over
    /\ arrived' \in Nat /\ arrived' > arrived
    /\ UNCHANGED <<over, short, closed, got, gone, givenUp, raised>>

End ==
    /\ over' = TRUE /\ short' \in BOOLEAN
    /\ UNCHANGED <<arrived, closed, got, gone, givenUp, raised>>

Close ==
    /\ closed' = TRUE
    /\ UNCHANGED <<arrived, over, short, got, gone, givenUp, raised>>

\* The next packet.
Return ==
    /\ raised => closed
    /\ \E x \in ToRead :
         /\ \A y \in ToRead : x <= y
         /\ got' = Append(got, x)
    /\ UNCHANGED <<arrived, over, short, closed, gone, givenUp, raised>>

\* A read is given up, or one that was given up takes a packet with it: one each.
GiveUp ==
    /\ givenUp' \in {givenUp, givenUp + 1}
    /\ gone' = gone \/ \E x \in ToRead : gone' = gone \cup {x}
    /\ Cardinality(gone') <= givenUp'
    /\ UNCHANGED <<arrived, over, short, closed, got, raised>>

Raise ==
    /\ closed \/ short \/ (over /\ ToRead = {})
    /\ raised' = TRUE
    /\ UNCHANGED <<arrived, over, short, closed, got, gone, givenUp>>

Reading == ReadInit /\ [][Come \/ End \/ Close \/ Return \/ GiveUp \/ Raise]_readVars

-----------------------------------------------------------------------------
(* Writing.                                                                *)

ToSend == (1 .. accepted) \ (Range(sent) \cup failed)

WriteInit == accepted = 0 /\ atOnce = {} /\ sent = <<>> /\ failed = {}

Accept ==
    /\ accepted' = accepted + 1
    /\ UNCHANGED <<atOnce, sent, failed>>

SendAtOnce ==
    /\ accepted' = accepted + 1 /\ atOnce' = atOnce \cup {accepted + 1}
    /\ \/ sent' = Append(sent, accepted + 1) /\ UNCHANGED failed
       \/ failed' = failed \cup {accepted + 1} /\ UNCHANGED sent

\* All that wait, in the order of the calls, behind what has been sent.
SendAll ==
    /\ Len(sent) <= Len(sent')
    /\ \A i \in 1 .. Len(sent) : sent'[i] = sent[i]
    /\ LET new == Len(sent) + 1 .. Len(sent') IN
       /\ \A x \in ToSend : \E i \in new : sent'[i] = x
       /\ \A i \in new : sent'[i] \in ToSend
       /\ \A i, j \in new : i < j => sent'[i] < sent'[j]
    /\ UNCHANGED <<accepted, atOnce, failed>>

FailAll ==
    /\ failed' = failed \cup ToSend
    /\ UNCHANGED <<accepted, atOnce, sent>>

Writing == WriteInit /\ [][Accept \/ SendAtOnce \/ SendAll \/ FailAll]_writeVars

Spec == Reading /\ Writing
=============================================================================
