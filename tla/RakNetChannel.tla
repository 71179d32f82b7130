---------------------------- MODULE RakNetChannel ----------------------------
(***************************************************************************)
(* The reliability layer of mcbe's RakNet (raknet/connection.py): one      *)
(* RakNetClientConnection and the RakNetServerConnection the listener made *)
(* for it, over a network that reorders, loses and duplicates datagrams.   *)
(* The module starts when both objects exist and the client is about to    *)
(* send ConnectionRequest.                                                 *)
(*                                                                         *)
(* Every payload goes out RELIABLE_ORDERED on channel 0, one frame in a    *)
(* frame set, cut into fragments when it exceeds the MTU.  A receiver      *)
(* acknowledges each frame set, asks once for each gap it sees in the      *)
(* sequence numbers, reassembles fragments and hands payloads on in the    *)
(* order of their ordered index.  Counters are unbounded Python integers   *)
(* on the sender's side and are cut to a fixed width on the wire: the      *)
(* operators Seq24, Ord24 and Cid16 are what the receiver reads.           *)
(***************************************************************************)
EXTENDS Integers, Sequences, FiniteSets, Bags

CONSTANTS
    Client, Server,
    WriteSizes,     \* the numbers of frames a game packet takes
    IndexMod,       \* 2^24: sequence numbers and ordered indices on the wire
    CompoundMod,    \* 2^16: compound ids
    RequestBound,   \* ConnectionRequests: connect() sends 1; 0 leaves it waiting
    WriteBound,     \* WriteBound[p]: game packets p's application writes
    PingBound,      \* PingBound[p]: ConnectedPings p sends (mcbe sends none,
                    \* other implementations of RakNet do)
    Closers,        \* the peers whose application calls close()
    LossBound,      \* datagrams the network loses
    LossKinds,      \* ... of these kinds
    CopyBound       \* datagrams the network duplicates

Peer == {Client, Server}

ASSUME PeersDiffer == Client # Server
ASSUME WidthsArePositive == /\ IndexMod \in Nat \ {0}
                            /\ CompoundMod \in Nat \ {0}
                            /\ WriteSizes \subseteq Nat \ {0}
ASSUME BoundsAreNatural == /\ RequestBound \in 0..1
                           /\ WriteBound \in [Peer -> Nat]
                           /\ PingBound \in [Peer -> Nat]
                           /\ Closers \subseteq Peer
                           /\ LossBound \in Nat /\ CopyBound \in Nat
                           /\ LossKinds \subseteq {"frameset", "ack", "nack"}

Other(p) == IF p = Client THEN Server ELSE Client

VARIABLES
    net,          \* net[p]: the bag of datagrams on their way to p
    sent,         \* sent[p]: the payloads p has sent; _ordered_index is its length
    sendSeq,      \* _send_seq
    compoundId,   \* the compound ids taken; _compound_id is this % 2^16
    recovery,     \* _recovery: the frames kept for retransmission
    expectedSeq,  \* _expected_seq
    ackQueue,     \* _ack_queue, as the set that _encode_ack_nack makes of it
    nackQueue,    \* _nack_queue, likewise
    fragments,    \* _fragments: compound id -> _FragmentBuffer
    orderedQueue, \* _ordered_queue[0]: index -> payload
    processed,    \* the payloads given to _process_payload, in that order;
                  \* _ordered_read_index[0] is its length
    closed,       \* _closed
    crashed,      \* an exception has ended the client's _recv_loop
    lost, copied  \* what the network has used of its bounds

vars == <<net, sent, sendSeq, compoundId, recovery, expectedSeq, ackQueue,
          nackQueue, fragments, orderedQueue, processed, closed, crashed,
          lost, copied>>

sendState == <<sent, sendSeq, compoundId>>
receiveState == <<expectedSeq, fragments, orderedQueue, processed>>
networkState == <<lost, copied>>

-----------------------------------------------------------------------------
(* Payloads, frames, datagrams.                                            *)

Kind == {"game", "ping", "pong", "request", "accepted", "newincoming",
         "disconnect"}

(* What _send_frame is given, with the counters it was sent under.         *)
Packet == [kind : Kind, size : Nat \ {0}, ord : Nat, comp : Nat, seq : Nat]

Frame == {f \in [pkt : Packet, idx : Nat] : f.idx < f.pkt.size}

FramesOf(x) == {[pkt |-> x, idx |-> i] : i \in 0..x.size - 1}

Fragmented(f) == f.pkt.size > 1

(* The sequence number a frame was sent under, and what the wire carries.  *)
SeqNum(f) == f.pkt.seq + f.idx
Seq24(f) == SeqNum(f) % IndexMod
Ord24(f) == f.pkt.ord % IndexMod
Cid16(f) == f.pkt.comp % CompoundMod

(* A payload at the receiver is the sequence of the bodies it is made of.  *)
Payload == {d \in Seq(Frame) : Len(d) > 0}

Whole(x) == [i \in 1..x.size |-> [pkt |-> x, idx |-> i - 1]]

(* _process_payload looks at the first byte only.                          *)
KindOf(payload) == payload[1].pkt.kind

FrameSet(f) == [kind |-> "frameset", frame |-> f]

Datagram == [kind : {"frameset"}, frame : Frame]
            \cup [kind : {"ack", "nack"}, seqs : SUBSET Nat]

-----------------------------------------------------------------------------
(* The network.                                                            *)

InFlight(p) == BagToSet(net[p])

(* p takes the datagrams "taken" out of the network and sends "given".     *)
Transmit(p, taken, given) ==
    net' = [net EXCEPT ![p] = @ (-) SetToBag(taken),
                       ![Other(p)] = @ (+) SetToBag(given)]

(* The client's receive loop ends with the connection or on an exception;  *)
(* the listener gives the server's object every datagram from its address. *)
Listening(p) == p = Server \/ (~closed[p] /\ ~crashed[p])

-----------------------------------------------------------------------------
(* Sending.                                                                *)

(* Mutants of PacketOf: _next_compound_id and _next_ordered_index without  *)
(* the step they should make.                                              *)
PacketOfSharedCompound(p, kind, size) ==
    [kind |-> kind, size |-> size, ord |-> Len(sent[p]), comp |-> 0,
     seq |-> sendSeq[p]]

PacketOfRepeatedIndex(p, kind, size) ==
    [kind |-> kind, size |-> size,
     ord |-> IF sent[p] = <<>> THEN 0 ELSE Len(sent[p]) - 1,
     comp |-> IF size > 1 THEN compoundId[p] ELSE 0, seq |-> sendSeq[p]]

(* _send_frame of a payload cut into "size" frames.                        *)
PacketOf(p, kind, size) ==
    [kind |-> kind, size |-> size, ord |-> Len(sent[p]),
     comp |-> IF size > 1 THEN compoundId[p] ELSE 0, seq |-> sendSeq[p]]

SendFrame(p, kind, size) ==
    LET x == PacketOf(p, kind, size) IN
    /\ sent' = [sent EXCEPT ![p] = Append(@, x)]
    /\ sendSeq' = [sendSeq EXCEPT ![p] = @ + size]
    /\ compoundId' = [compoundId EXCEPT ![p] = IF size > 1 THEN @ + 1 ELSE @]
    /\ recovery' = [recovery EXCEPT ![p] = @ \cup FramesOf(x)]

(* A run of unfragmented payloads, sent one after the other.               *)
PacketsOf(p, kinds) ==
    [i \in 1..Len(kinds) |->
        [kind |-> kinds[i], size |-> 1, ord |-> Len(sent[p]) + i - 1,
         comp |-> 0, seq |-> sendSeq[p] + i - 1]]

SingleFrames(xs) == {[pkt |-> xs[i], idx |-> 0] : i \in 1..Len(xs)}

SendReplies(p, kinds) ==
    LET xs == PacketsOf(p, kinds) IN
    /\ sent' = [sent EXCEPT ![p] = @ \o xs]
    /\ sendSeq' = [sendSeq EXCEPT ![p] = @ + Len(kinds)]
    /\ recovery' = [recovery EXCEPT ![p] = @ \cup SingleFrames(xs)]
    /\ UNCHANGED compoundId

Count(p, kind) == Cardinality({i \in DOMAIN sent[p] : sent[p][i].kind = kind})

(* _connected: the client has processed ConnectionRequestAccepted.         *)
Connected == \E i \in DOMAIN processed[Client] :
                 KindOf(processed[Client][i]) = "accepted"

(* connect() gives the client's connection to the application only once it *)
(* is connected; the listener queues the server's for accept() at once.    *)
Usable(p) == ~closed[p] /\ (p = Server \/ Connected)

-----------------------------------------------------------------------------
Init ==
    /\ net = [p \in Peer |-> EmptyBag]
    /\ sent = [p \in Peer |-> <<>>]
    /\ sendSeq = [p \in Peer |-> 0]
    /\ compoundId = [p \in Peer |-> 0]
    /\ recovery = [p \in Peer |-> {}]
    /\ expectedSeq = [p \in Peer |-> 0]
    /\ ackQueue = [p \in Peer |-> {}]
    /\ nackQueue = [p \in Peer |-> {}]
    /\ fragments = [p \in Peer |-> <<>>]
    /\ orderedQueue = [p \in Peer |-> <<>>]
    /\ processed = [p \in Peer |-> <<>>]
    /\ closed = [p \in Peer |-> FALSE]
    /\ crashed = [p \in Peer |-> FALSE]
    /\ lost = 0
    /\ copied = 0

-----------------------------------------------------------------------------
(* What the application does, and connect().                               *)

Send(p, kind, size) ==
    /\ SendFrame(p, kind, size)
    /\ Transmit(p, {}, {FrameSet(f) : f \in FramesOf(PacketOf(p, kind, size))})
    /\ UNCHANGED <<receiveState, ackQueue, nackQueue, closed, crashed, networkState>>

(* connect(): start() and _send_connection_request, once.                  *)
SendConnectionRequest ==
    /\ Count(Client, "request") < RequestBound
    /\ Send(Client, "request", 1)

(* write_packet, of a batch that takes "size" frames.                      *)
WritePacket(p) ==
    \E size \in WriteSizes :
        /\ Usable(p)
        /\ Count(p, "game") < WriteBound[p]
        /\ Send(p, "game", size)

(* External: the peer of a connection may be another implementation, which *)
(* keeps the connection alive with ConnectedPings.                         *)
SendPing(p) ==
    /\ Usable(p)
    /\ Count(p, "ping") < PingBound[p]
    /\ Send(p, "ping", 1)

(* The datagrams of _flush_acks, which leaves both queues empty.           *)
Acknowledgements(p) ==
    {dg \in {[kind |-> "ack", seqs |-> ackQueue[p]],
             [kind |-> "nack", seqs |-> nackQueue[p]]} : dg.seqs # {}}

FlushAcks(p) ==
    /\ ackQueue' = [ackQueue EXCEPT ![p] = {}]
    /\ nackQueue' = [nackQueue EXCEPT ![p] = {}]

(* Mutant of Close: nothing tells the peer.                                *)
CloseSilently(p) ==
    /\ p \in Closers
    /\ Usable(p)
    /\ closed' = [closed EXCEPT ![p] = TRUE]
    /\ FlushAcks(p)
    /\ Transmit(p, {}, Acknowledgements(p))
    /\ UNCHANGED <<sendState, recovery, receiveState, crashed, networkState>>

(* close(): a DisconnectionNotification and the acknowledgements go out;   *)
(* the client's loops and its socket end, the server's object lives on.    *)
Close(p) ==
    /\ p \in Closers
    /\ Usable(p)
    /\ closed' = [closed EXCEPT ![p] = TRUE]
    /\ SendFrame(p, "disconnect", 1)
    /\ FlushAcks(p)
    /\ Transmit(p, {}, Acknowledgements(p)
                       \cup {FrameSet(f) : f \in FramesOf(PacketOf(p, "disconnect", 1))})
    /\ UNCHANGED <<receiveState, crashed, networkState>>

(* The 50 ms tick.  A tick that finds both queues empty changes nothing.   *)
Tick(p) ==
    /\ Acknowledgements(p) # {}
    /\ FlushAcks(p)
    /\ Transmit(p, {}, Acknowledgements(p))
    /\ UNCHANGED <<sendState, recovery, receiveState, closed, crashed, networkState>>

-----------------------------------------------------------------------------
(* Receiving.                                                              *)

(* Mutant of ReceiveAck: an ACK taken to be cumulative.                    *)
ReceiveCumulativeAck(p) ==
    \E dg \in InFlight(p) :
        /\ Listening(p)
        /\ dg.kind = "ack"
        /\ Transmit(p, {dg}, {})
        /\ recovery' = [recovery EXCEPT
               ![p] = {f \in @ : \A s \in dg.seqs : s < SeqNum(f)}]
        /\ UNCHANGED <<sendState, receiveState, ackQueue, nackQueue, closed,
                       crashed, networkState>>

(* _handle_ack.  The keys of _recovery are the sender's own counters, the  *)
(* numbers of an ACK what the wire left of them.                           *)
ReceiveAck(p) ==
    \E dg \in InFlight(p) :
        /\ Listening(p)
        /\ dg.kind = "ack"
        /\ Transmit(p, {dg}, {})
        /\ recovery' = [recovery EXCEPT ![p] = {f \in @ : SeqNum(f) \notin dg.seqs}]
        /\ UNCHANGED <<sendState, receiveState, ackQueue, nackQueue, closed,
                       crashed, networkState>>

(* _handle_nack: what is still in _recovery is sent again.                 *)
ReceiveNack(p) ==
    \E dg \in InFlight(p) :
        /\ Listening(p)
        /\ dg.kind = "nack"
        /\ Transmit(p, {dg},
                    {FrameSet(f) : f \in {g \in recovery[p] : SeqNum(g) \in dg.seqs}})
        /\ UNCHANGED <<sendState, recovery, receiveState, ackQueue, nackQueue,
                       closed, crashed, networkState>>

(* A Python dict d after d[k] = v.                                         *)
Put(d, k, v) == [x \in DOMAIN d \cup {k} |-> IF x = k THEN v ELSE d[x]]

(* Mutant of NoteSequence: the first missing number is not asked for.      *)
NoteSequenceShort(p, f) ==
    LET w == Seq24(f) IN
    /\ ackQueue' = [ackQueue EXCEPT ![p] = @ \cup {w}]
    /\ nackQueue' = [nackQueue EXCEPT ![p] = @ \cup (expectedSeq[p] + 1..w - 1)]
    /\ expectedSeq' = [expectedSeq EXCEPT ![p] = IF w >= @ THEN w + 1 ELSE @]

(* _handle_frame_set, before its frame is looked at: the number is noted   *)
(* for an ACK and every number skipped over for a NACK.                    *)
NoteSequence(p, f) ==
    LET w == Seq24(f) IN
    /\ ackQueue' = [ackQueue EXCEPT ![p] = @ \cup {w}]
    /\ nackQueue' = [nackQueue EXCEPT ![p] = @ \cup (expectedSeq[p]..w - 1)]
    /\ expectedSeq' = [expectedSeq EXCEPT ![p] = IF w >= @ THEN w + 1 ELSE @]

(* The _FragmentBuffer a fragment belongs to, with the fragment added.  A  *)
(* buffer is found by compound id alone and is never removed.              *)
BufferWith(p, f) ==
    LET c == Cid16(f)
        old == IF c \in DOMAIN fragments[p] THEN fragments[p][c]
               ELSE [size |-> f.pkt.size, parts |-> <<>>]
    IN [size |-> old.size, parts |-> Put(old.parts, f.idx, f)]

(* Mutant of Full: compared before the fragment is counted.                *)
FullTooLate(buf) == Cardinality(DOMAIN buf.parts) > buf.size

(* add() compares the number of fragments with the size, then joins the    *)
(* fragments 0 .. size-1: without one of them the join is a KeyError.      *)
Full(buf) == Cardinality(DOMAIN buf.parts) = buf.size
Joins(buf) == DOMAIN buf.parts = 0..buf.size - 1

Reassembled(p, f) == Fragmented(f) => Full(BufferWith(p, f)) /\ Joins(BufferWith(p, f))

PayloadOf(p, f) ==
    IF Fragmented(f)
    THEN LET buf == BufferWith(p, f) IN [i \in 1..buf.size |-> buf.parts[i - 1]]
    ELSE <<f>>

StoreFragment(p, f) ==
    fragments' = IF Fragmented(f)
                 THEN [fragments EXCEPT ![p] = Put(@, Cid16(f), BufferWith(p, f))]
                 ELSE fragments

FrameArrives(p, f) ==
    /\ Listening(p)
    /\ FrameSet(f) \in InFlight(p)
    /\ NoteSequence(p, f)
    /\ StoreFragment(p, f)

Quietly(p, f) == /\ Transmit(p, {FrameSet(f)}, {})
                 /\ UNCHANGED <<sendState, recovery, closed, networkState>>

FramesInFlight(p) == {dg.frame : dg \in {d \in InFlight(p) : d.kind = "frameset"}}

(* A fragment of a payload that is not complete yet.                       *)
ReceiveFragment(p) ==
    \E f \in FramesInFlight(p) :
        /\ FrameArrives(p, f)
        /\ Fragmented(f) /\ ~Full(BufferWith(p, f))
        /\ Quietly(p, f)
        /\ UNCHANGED <<orderedQueue, processed, crashed>>

(* The join of add() fails.  The exception ends the client's receive loop; *)
(* the server's event loop logs it and goes on.                            *)
ReceiveMisfit(p) ==
    \E f \in FramesInFlight(p) :
        /\ FrameArrives(p, f)
        /\ Fragmented(f) /\ Full(BufferWith(p, f)) /\ ~Joins(BufferWith(p, f))
        /\ crashed' = [crashed EXCEPT ![p] = p = Client]
        /\ Quietly(p, f)
        /\ UNCHANGED <<orderedQueue, processed>>

(* Mutant of ReceiveEarly: a payload ahead of its turn is not kept.        *)
ReceiveEarlyDropped(p) ==
    \E f \in FramesInFlight(p) :
        /\ FrameArrives(p, f)
        /\ Reassembled(p, f)
        /\ Ord24(f) > Len(processed[p])
        /\ Quietly(p, f)
        /\ UNCHANGED <<orderedQueue, processed, crashed>>

(* _handle_ordered, index > expected.                                      *)
ReceiveEarly(p) ==
    \E f \in FramesInFlight(p) :
        /\ FrameArrives(p, f)
        /\ Reassembled(p, f)
        /\ Ord24(f) > Len(processed[p])
        /\ orderedQueue' = [orderedQueue EXCEPT ![p] = Put(@, Ord24(f), PayloadOf(p, f))]
        /\ Quietly(p, f)
        /\ UNCHANGED <<processed, crashed>>

(* _handle_ordered, index < expected: "duplicate, ignore".                 *)
ReceiveStale(p) ==
    \E f \in FramesInFlight(p) :
        /\ FrameArrives(p, f)
        /\ Reassembled(p, f)
        /\ Ord24(f) < Len(processed[p])
        /\ Quietly(p, f)
        /\ UNCHANGED <<orderedQueue, processed, crashed>>

(* What _process_payload sends in answer to a payload, "none" if nothing.  *)
Reply(p, payload) ==
    CASE KindOf(payload) = "ping" -> "pong"
      [] KindOf(payload) = "request" /\ p = Server -> "accepted"
      [] KindOf(payload) = "accepted" /\ p = Client -> "newincoming"
      [] OTHER -> "none"

(* The increasing enumerations of a finite set of numbers: there is one.   *)
Enumerations(S) ==
    {g \in [1..Cardinality(S) -> S] :
        \A i, j \in 1..Cardinality(S) : i < j => g[i] < g[j]}

(* Mutant of Run: the queue is drained before the payload that arrived.    *)
RunQueueFirst(p, f, next) ==
    LET e == Len(processed[p]) IN
    [i \in 1..next - e - 1 |-> orderedQueue[p][e + i]] \o <<PayloadOf(p, f)>>

(* The payloads of one in-order run: the one that arrived and those the    *)
(* queue holds for the indices up to "next".                               *)
Run(p, f, next) ==
    LET e == Len(processed[p]) IN
    <<PayloadOf(p, f)>> \o [i \in 1..next - e - 1 |-> orderedQueue[p][e + i]]

(* What a run is answered with, payload by payload.                        *)
Answered(p, run) == {i \in 1..Len(run) : Reply(p, run[i]) # "none"}

Answers(p, run, g) ==
    [i \in 1..Cardinality(Answered(p, run)) |-> Reply(p, run[g[i]])]

(* _handle_ordered, index = expected: the payload is processed, and then   *)
(* those of the queue up to the next index missing.                        *)
ReceiveInOrder(p) ==
    \E f \in FramesInFlight(p), next \in 1..IndexMod :
        LET e == Len(processed[p])
            run == Run(p, f, next)
        IN
        /\ FrameArrives(p, f)
        /\ Reassembled(p, f)
        /\ Ord24(f) = e
        /\ next > e /\ next \notin DOMAIN orderedQueue[p]
        /\ e + 1 .. next - 1 \subseteq DOMAIN orderedQueue[p]
        /\ orderedQueue' = [orderedQueue EXCEPT
               ![p] = [o \in DOMAIN @ \ (e + 1 .. next - 1) |-> @[o]]]
        /\ processed' = [processed EXCEPT ![p] = @ \o run]
        /\ closed' = [closed EXCEPT
               ![p] = @ \/ \E i \in 1..Len(run) : KindOf(run[i]) = "disconnect"]
        /\ \E g \in Enumerations(Answered(p, run)) :
              LET kinds == Answers(p, run, g) IN
              /\ SendReplies(p, kinds)
              /\ Transmit(p, {FrameSet(f)},
                          {FrameSet(h) : h \in SingleFrames(PacketsOf(p, kinds))})
        /\ UNCHANGED <<crashed, networkState>>

-----------------------------------------------------------------------------
(* What the network does: UDP promises nothing.                            *)

Lose(p) ==
    \E dg \in InFlight(p) :
        /\ lost < LossBound
        /\ dg.kind \in LossKinds
        /\ lost' = lost + 1
        /\ Transmit(p, {dg}, {})
        /\ UNCHANGED <<sendState, recovery, receiveState, ackQueue, nackQueue,
                       closed, crashed, copied>>

Copy(p) ==
    \E dg \in InFlight(p) :
        /\ copied < CopyBound
        /\ copied' = copied + 1
        /\ Transmit(Other(p), {}, {dg})
        /\ UNCHANGED <<sendState, recovery, receiveState, ackQueue, nackQueue,
                       closed, crashed, lost>>

-----------------------------------------------------------------------------
Receive(p) ==
    \/ ReceiveAck(p)
    \/ ReceiveNack(p)
    \/ ReceiveFragment(p)
    \/ ReceiveMisfit(p)
    \/ ReceiveEarly(p)
    \/ ReceiveStale(p)
    \/ ReceiveInOrder(p)

Next ==
    \/ SendConnectionRequest
    \/ \E p \in Peer :
        \/ WritePacket(p)
        \/ SendPing(p)
        \/ Close(p)
        \/ Tick(p)
        \/ Receive(p)
        \/ Lose(p)
        \/ Copy(p)

Spec == Init /\ [][Next]_vars

(* The event loop runs the tick and the receive callbacks, and datagrams   *)
(* that are not lost arrive.  Nothing forces an application to write.      *)
Fairness ==
    /\ WF_vars(SendConnectionRequest)
    /\ \A p \in Peer : WF_vars(Tick(p)) /\ WF_vars(Receive(p))

FairSpec == Spec /\ Fairness

-----------------------------------------------------------------------------
(***************************************************************************)
(* Properties.                                                             *)
(***************************************************************************)

(* A dict: some of the Keys, each with one of the Values.                  *)
IsDict(d, Keys, Values) == DOMAIN d \subseteq Keys /\ d \in [DOMAIN d -> Values]

BufferOK(buf) == /\ buf.size \in Nat \ {0}
                 /\ IsDict(buf.parts, Nat, Frame)

(* Types: every counter is a number, every queue holds frames or payloads, *)
(* and what a receiver keys on fits its width on the wire.                 *)
TypeOK ==
    /\ DOMAIN net = Peer
    /\ \A p \in Peer : IsABag(net[p]) /\ InFlight(p) \subseteq Datagram
    /\ sent \in [Peer -> Seq(Packet)]
    /\ sendSeq \in [Peer -> Nat]
    /\ compoundId \in [Peer -> Nat]
    /\ recovery \in [Peer -> SUBSET Frame]
    /\ expectedSeq \in [Peer -> 0..IndexMod]
    /\ ackQueue \in [Peer -> SUBSET (0..IndexMod - 1)]
    /\ nackQueue \in [Peer -> SUBSET (0..IndexMod - 1)]
    /\ DOMAIN fragments = Peer
    /\ \A p \in Peer : /\ DOMAIN fragments[p] \subseteq 0..CompoundMod - 1
                       /\ \A c \in DOMAIN fragments[p] : BufferOK(fragments[p][c])
    /\ DOMAIN orderedQueue = Peer
    /\ \A p \in Peer : IsDict(orderedQueue[p], 0..IndexMod - 1, Payload)
    /\ processed \in [Peer -> Seq(Payload)]
    /\ closed \in [Peer -> BOOLEAN]
    /\ crashed \in [Peer -> BOOLEAN]
    /\ lost \in 0..LossBound
    /\ copied \in 0..CopyBound

(* p has not used up a counter that is narrower on the wire than in the    *)
(* sender: 2^24 sequence numbers and ordered indices, 2^16 compound ids.   *)
Unwrapped(p) ==
    /\ Len(sent[p]) <= IndexMod
    /\ sendSeq[p] <= IndexMod
    /\ compoundId[p] <= CompoundMod

(* The payloads an endpoint processes are the ones the other end sent, in  *)
(* the order they were sent, whole and each once: _handle_ordered and      *)
(* _FragmentBuffer undo what the network does to the datagrams, as long as *)
(* no counter of the sender has wrapped.                                   *)
ProcessesAsSent(p) ==
    \A i \in 1..Len(processed[p]) :
        /\ i <= Len(sent[Other(p)])
        /\ processed[p][i] = Whole(sent[Other(p)][i])

InOrderExactlyOnce == \A p \in Peer : Unwrapped(Other(p)) => ProcessesAsSent(p)

(* p has the frame: in a fragment buffer, queued for its turn, or processed. *)
Has(p, f) ==
    \/ \E c \in DOMAIN fragments[p] :
          \E k \in DOMAIN fragments[p][c].parts : fragments[p][c].parts[k] = f
    \/ \E o \in DOMAIN orderedQueue[p] :
          \E i \in DOMAIN orderedQueue[p][o] : orderedQueue[p][o][i] = f
    \/ \E n \in DOMAIN processed[p] :
          \E i \in DOMAIN processed[p][n] : processed[p][n][i] = f

(* A frame that has left _recovery, so that a NACK can no longer bring it  *)
(* back, has reached the other end: an ACK never releases a frame that is  *)
(* still needed, whatever order ACKs, NACKs and frames arrive in.          *)
ReleasedWasReceived ==
    \A p \in Peer : Unwrapped(Other(p)) =>
        \A i \in DOMAIN sent[Other(p)] : \A f \in FramesOf(sent[Other(p)][i]) :
            f \in recovery[Other(p)] \/ Has(p, f)

(* A payload is kept back only for a frame that has not arrived: once p    *)
(* has every frame of the first n payloads it has processed n of them.     *)
(* No packet sits complete in a buffer, or in the queue behind one that    *)
(* has been processed, until something else happens to arrive.             *)
WaitsOnlyForMissing ==
    \A p \in Peer : Unwrapped(Other(p)) =>
        \A n \in DOMAIN sent[Other(p)] :
            (\A i \in 1..n : \A f \in FramesOf(sent[Other(p)][i]) : Has(p, f))
                => n <= Len(processed[p])

(* If nothing has been lost and no frame set is on its way to p, p has     *)
(* processed everything that was sent to it: what SentIsProcessed waits    *)
(* for is only that datagrams arrive, never that something more is sent.   *)
QuietIsDone ==
    lost = 0 => \A p \in Peer :
        (Unwrapped(Other(p)) /\ FramesInFlight(p) = {})
            => Len(processed[p]) = Len(sent[Other(p)])

(* p has a number on its list for a NACK, or a NACK with it is on its way. *)
AskedFor(p, s) ==
    \/ s \in nackQueue[p]
    \/ \E dg \in InFlight(Other(p)) : dg.kind = "nack" /\ s \in dg.seqs

(* A gap that a receiver has passed is never given up: after one loss, of  *)
(* whatever kind, each frame it has passed over is with it, on its way, or *)
(* asked for.  What GapsAreRepaired waits for is only that datagrams       *)
(* arrive.  A second loss can end it: a number is asked for once.          *)
RepairIsUnderWay ==
    lost <= 1 => \A p \in Peer : Unwrapped(Other(p)) =>
        \A i \in DOMAIN sent[Other(p)] : \A f \in FramesOf(sent[Other(p)][i]) :
            SeqNum(f) < expectedSeq[p]
                => Has(p, f) \/ f \in FramesInFlight(p) \/ AskedFor(p, SeqNum(f))

(* What _handle_ordered drops as "index < expected: duplicate, ignore" has *)
(* been processed before.                                                  *)
DropsOnlyDuplicates(p) ==
    \A f \in FramesInFlight(p) :
        Reassembled(p, f) /\ Ord24(f) < Len(processed[p])
            => \E n \in DOMAIN processed[p] :
                   \E i \in DOMAIN processed[p][n] : processed[p][n][i] = f

StaleIsDuplicate == \A p \in Peer : Unwrapped(Other(p)) => DropsOnlyDuplicates(p)

(* Refinement: the channel is a queue in each direction.  The payloads of  *)
(* a peer count as delivered when they are processed.                      *)
Channel == INSTANCE OrderedChannel WITH
    End <- Peer,
    Opposite <- Other,
    outgoing <- [p \in Peer |-> [i \in DOMAIN sent[p] |-> Whole(sent[p][i])]],
    delivered <- processed

ImplementsChannel == Channel!Spec

(* Reliability: without a loss what is sent is processed in the end.  Only *)
(* a client that closes misses something, for it stops receiving.  (There  *)
(* is no timer: a frame set lost behind everything else is not missed.)    *)
SentIsProcessed ==
    \A n \in 1..IndexMod :
        /\ Len(sent[Client]) >= n ~> Len(processed[Server]) >= n \/ lost > 0
        /\ Len(sent[Server]) >= n ~> Len(processed[Client]) >= n \/ closed[Client] \/ lost > 0

(* A close of either end closes the other one: the notification is ordered *)
(* behind everything sent before it and is processed in its turn, unless a *)
(* frame set was lost.                                                     *)
CloseReachesPeer == \A p \in Peer : closed[p] ~> closed[Other(p)] \/ lost > 0

(* A gap that a receiver has seen is repaired: each number it passed over  *)
(* is asked for and the frame sent again, unless the client is closed.     *)
GapsAreRepaired ==
    \A p \in Peer : \A s \in 0..IndexMod - 1 :
        expectedSeq[p] > s
            ~> \/ closed[Client]
               \/ \E i \in DOMAIN sent[Other(p)] :
                     \E f \in FramesOf(sent[Other(p)][i]) : SeqNum(f) = s /\ Has(p, f)

-----------------------------------------------------------------------------
(***************************************************************************)
(* The inductive invariant behind InOrderExactlyOnce.                      *)
(***************************************************************************)

SentBy(q, f) == \E i \in 1..Len(sent[q]) : f.pkt = sent[q][i]

(* Ordered indices count up, and no two payloads share a compound id.      *)
Numbered(q) ==
    /\ \A i \in 1..Len(sent[q]) :
          /\ sent[q][i].ord = i - 1
          /\ sent[q][i].size > 1 => sent[q][i].comp < compoundId[q]
    /\ \A i, j \in 1..Len(sent[q]) :
          (/\ sent[q][i].size > 1 /\ sent[q][j].size > 1
           /\ sent[q][i].comp = sent[q][j].comp) => i = j

(* Every frame of q that is kept or on its way was sent by q.              *)
OnlySent(q) ==
    /\ \A f \in recovery[q] : SentBy(q, f)
    /\ \A f \in FramesInFlight(Other(q)) : SentBy(q, f)

(* p's buffer "buf" holds fragments of x and of nothing else.              *)
BufferOf(buf, x) ==
    /\ buf.size = x.size
    /\ \A k \in DOMAIN buf.parts : buf.parts[k] = [pkt |-> x, idx |-> k]

(* What p has assembled, queued and processed is what the other end sent   *)
(* under that compound id and under that index.                            *)
BuffersFaithful(p) ==
    \A c \in DOMAIN fragments[p] : \E i \in 1..Len(sent[Other(p)]) :
        /\ sent[Other(p)][i].size > 1
        /\ sent[Other(p)][i].comp = c
        /\ BufferOf(fragments[p][c], sent[Other(p)][i])

QueueFaithful(p) ==
    \A o \in DOMAIN orderedQueue[p] :
        /\ o < Len(sent[Other(p)])
        /\ orderedQueue[p][o] = Whole(sent[Other(p)][o + 1])

Faithful(p) == BuffersFaithful(p) /\ QueueFaithful(p) /\ ProcessesAsSent(p)

ChannelInv ==
    /\ TypeOK
    /\ \A q \in Peer :
          /\ Numbered(q)
          /\ OnlySent(q)
          /\ Unwrapped(q) => Faithful(Other(q))
=============================================================================
