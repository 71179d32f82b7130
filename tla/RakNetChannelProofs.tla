------------------------- MODULE RakNetChannelProofs -------------------------
(***************************************************************************)
(* Theorems about RakNetChannel, for every value of its constants.         *)
(***************************************************************************)
EXTENDS RakNetChannel, FiniteSetTheorems, TLAPS

-----------------------------------------------------------------------------
(* Lemmas about the operators the actions are built from.                  *)

(* The other peer is a peer, and the other one of the other one is p.      *)
LEMMA OtherPeer ==
    ASSUME NEW p \in Peer
    PROVE  Other(p) \in Peer /\ Other(p) # p /\ Other(Other(p)) = p
BY PeersDiffer DEF Peer, Other

(* What is in flight after a transmission was in flight or is given.       *)
LEMMA BagOfTransmit ==
    ASSUME NEW B, IsABag(B), NEW S
    PROVE  /\ IsABag(B (+) SetToBag(S))
           /\ DOMAIN (B (+) SetToBag(S)) = DOMAIN B \cup S
           /\ IsABag(B (-) SetToBag(S))
           /\ DOMAIN (B (-) SetToBag(S)) \subseteq DOMAIN B
BY DEF IsABag, SetToBag, (+), (-)

(* What a transmission does to the datagrams in flight.                    *)
LEMMA TransmitBags ==
    ASSUME DOMAIN net = Peer,
           \A p \in Peer : IsABag(net[p]),
           NEW p \in Peer, NEW taken, NEW given,
           Transmit(p, taken, given)
    PROVE  /\ DOMAIN net' = Peer
           /\ \A q \in Peer : IsABag(net[q])'
           /\ InFlight(p)' \subseteq InFlight(p)
           /\ InFlight(Other(p))' = InFlight(Other(p)) \cup given
BY OtherPeer, BagOfTransmit DEF Transmit, InFlight, BagToSet

(* A number reduced to a width fits it; one that fits is unchanged.        *)
LEMMA Reduced ==
    ASSUME NEW x \in Nat, NEW m \in Nat \ {0}
    PROVE  /\ x % m \in 0..m - 1
           /\ x < m => x % m = x
OBVIOUS

(* A dict stays one when a key is given a value.                           *)
LEMMA DictPut ==
    ASSUME NEW d, NEW K, NEW V, IsDict(d, K, V), NEW k \in K, NEW v \in V
    PROVE  /\ IsDict(Put(d, k, v), K, V)
           /\ DOMAIN Put(d, k, v) = DOMAIN d \cup {k}
           /\ \A j \in DOMAIN d \cup {k} :
                  Put(d, k, v)[j] = IF j = k THEN v ELSE d[j]
BY DEF IsDict, Put

(* The frames of a packet are frames.                                      *)
LEMMA FramesAreFrames ==
    ASSUME NEW x \in Packet
    PROVE  /\ FramesOf(x) \subseteq Frame
           /\ Whole(x) \in Payload
           /\ Len(Whole(x)) = x.size
BY DEF FramesOf, Frame, Packet, Whole, Payload

(* Sending one payload keeps the sender's state well typed.                *)
LEMMA SendFrameTypes ==
    ASSUME TypeOK, NEW p \in Peer, NEW kind \in Kind, NEW size \in Nat \ {0},
           SendFrame(p, kind, size)
    PROVE  /\ PacketOf(p, kind, size) \in Packet
           /\ FramesOf(PacketOf(p, kind, size)) \subseteq Frame
           /\ sent' \in [Peer -> Seq(Packet)]
           /\ sendSeq' \in [Peer -> Nat]
           /\ compoundId' \in [Peer -> Nat]
           /\ recovery' \in [Peer -> SUBSET Frame]
<1>1. PacketOf(p, kind, size) \in Packet
  BY DEF PacketOf, Packet, TypeOK
<1>2. FramesOf(PacketOf(p, kind, size)) \subseteq Frame
  BY <1>1, FramesAreFrames
<1>3. QED
  BY <1>1, <1>2, SMTT(60) DEF SendFrame, TypeOK

(* So does sending answers.                                                *)
LEMMA SendRepliesTypes ==
    ASSUME TypeOK, NEW p \in Peer, NEW kinds \in Seq(Kind), SendReplies(p, kinds)
    PROVE  /\ PacketsOf(p, kinds) \in Seq(Packet)
           /\ Len(PacketsOf(p, kinds)) = Len(kinds)
           /\ SingleFrames(PacketsOf(p, kinds)) \subseteq Frame
           /\ sent' \in [Peer -> Seq(Packet)]
           /\ sendSeq' \in [Peer -> Nat]
           /\ compoundId' \in [Peer -> Nat]
           /\ recovery' \in [Peer -> SUBSET Frame]
<1>1. PacketsOf(p, kinds) \in Seq(Packet) /\ Len(PacketsOf(p, kinds)) = Len(kinds)
  BY DEF PacketsOf, Packet, TypeOK
<1>2. SingleFrames(PacketsOf(p, kinds)) \subseteq Frame
  <2> SUFFICES ASSUME NEW i \in 1..Len(PacketsOf(p, kinds))
               PROVE  [pkt |-> PacketsOf(p, kinds)[i], idx |-> 0] \in Frame
    BY DEF SingleFrames
  <2>1. PacketsOf(p, kinds)[i] \in Packet /\ PacketsOf(p, kinds)[i].size = 1
    BY <1>1 DEF PacketsOf
  <2>2. QED
    BY <2>1 DEF Frame
<1>3. QED
  BY <1>1, <1>2 DEF SendReplies, TypeOK

(* The wire's indices fit their widths.                                    *)
LEMMA WireTypes ==
    ASSUME NEW f \in Frame
    PROVE  /\ SeqNum(f) \in Nat
           /\ Seq24(f) \in 0..IndexMod - 1
           /\ Ord24(f) \in 0..IndexMod - 1
           /\ Cid16(f) \in 0..CompoundMod - 1
<1>1. f.pkt.seq + f.idx \in Nat /\ f.pkt.ord \in Nat /\ f.pkt.comp \in Nat
  BY DEF Frame, Packet
<1>2. QED
  BY <1>1, Reduced, WidthsArePositive DEF SeqNum, Seq24, Ord24, Cid16

(* A buffer with a fragment added is a buffer.                             *)
LEMMA BufferTypes ==
    ASSUME TypeOK, NEW p \in Peer, NEW f \in Frame
    PROVE  BufferOK(BufferWith(p, f))
<1> DEFINE old == IF Cid16(f) \in DOMAIN fragments[p] THEN fragments[p][Cid16(f)]
                  ELSE [size |-> f.pkt.size, parts |-> <<>>]
<1>1. f.pkt.size \in Nat \ {0} /\ f.idx \in Nat
  BY DEF Frame, Packet
<1>2. BufferOK(old)
  <2>1. CASE Cid16(f) \in DOMAIN fragments[p]
    BY <2>1 DEF TypeOK
  <2>2. CASE Cid16(f) \notin DOMAIN fragments[p]
    BY <2>2, <1>1 DEF BufferOK, IsDict
  <2>3. QED
    BY <2>1, <2>2
<1>3. BufferWith(p, f) = [size |-> old.size, parts |-> Put(old.parts, f.idx, f)]
  BY DEF BufferWith
<1> HIDE DEF old
<1>4. IsDict(Put(old.parts, f.idx, f), Nat, Frame)
  BY <1>1, <1>2, DictPut DEF BufferOK
<1>5. QED
  BY <1>2, <1>3, <1>4 DEF BufferOK

(* What a frame completes is a payload.                                    *)
LEMMA PayloadTypes ==
    ASSUME TypeOK, NEW p \in Peer, NEW f \in Frame, Reassembled(p, f)
    PROVE  PayloadOf(p, f) \in Payload
<1>1. CASE Fragmented(f)
  <2> DEFINE buf == BufferWith(p, f)
  <2>1. BufferOK(buf) /\ Joins(buf)
    BY <1>1, BufferTypes DEF Reassembled
  <2>2. PayloadOf(p, f) = [i \in 1..buf.size |-> buf.parts[i - 1]]
    BY <1>1 DEF PayloadOf
  <2> HIDE DEF buf
  <2>3. \A i \in 1..buf.size : buf.parts[i - 1] \in Frame
    BY <2>1 DEF BufferOK, IsDict, Joins
  <2>4. QED
    BY <2>1, <2>2, <2>3 DEF BufferOK, Payload
<1>2. CASE ~Fragmented(f)
  BY <1>2 DEF PayloadOf, Payload
<1>3. QED
  BY <1>1, <1>2

(* The first half of the handler of a frame set keeps the types.           *)
LEMMA FrameArrivesTypes ==
    ASSUME TypeOK, NEW p \in Peer, NEW f \in Frame, FrameArrives(p, f)
    PROVE  /\ expectedSeq' \in [Peer -> 0..IndexMod]
           /\ ackQueue' \in [Peer -> SUBSET (0..IndexMod - 1)]
           /\ nackQueue' \in [Peer -> SUBSET (0..IndexMod - 1)]
           /\ DOMAIN fragments' = Peer
           /\ \A q \in Peer :
                 /\ DOMAIN fragments[q]' \subseteq 0..CompoundMod - 1
                 /\ \A c \in DOMAIN fragments[q]' : BufferOK(fragments[q]'[c])
<1>1. Seq24(f) \in 0..IndexMod - 1 /\ Cid16(f) \in 0..CompoundMod - 1
  BY WireTypes
<1>2. expectedSeq' \in [Peer -> 0..IndexMod]
  BY <1>1, WidthsArePositive, SMTT(60) DEF FrameArrives, NoteSequence, TypeOK
<1>3. /\ ackQueue' \in [Peer -> SUBSET (0..IndexMod - 1)]
      /\ nackQueue' \in [Peer -> SUBSET (0..IndexMod - 1)]
  <2>1. expectedSeq[p]..Seq24(f) - 1 \subseteq 0..IndexMod - 1
    BY <1>1, WidthsArePositive, SMTT(60) DEF TypeOK
  <2>2. QED
    BY <1>1, <2>1 DEF FrameArrives, NoteSequence, TypeOK
<1>4. DOMAIN fragments' = Peer
  BY DEF FrameArrives, StoreFragment, TypeOK
<1>5. ASSUME NEW q \in Peer
      PROVE  /\ DOMAIN fragments'[q] \subseteq 0..CompoundMod - 1
             /\ \A c \in DOMAIN fragments'[q] : BufferOK(fragments'[q][c])
  <2>1. CASE fragments'[q] = fragments[q]
    BY <2>1 DEF TypeOK
  <2>2. CASE fragments'[q] # fragments[q]
    <3>1. q = p /\ fragments'[p] = Put(fragments[p], Cid16(f), BufferWith(p, f))
      BY <2>2 DEF FrameArrives, StoreFragment, TypeOK
    <3>2. BufferOK(BufferWith(p, f))
      BY BufferTypes
    <3>3. QED
      BY <1>1, <3>1, <3>2 DEF Put, TypeOK
  <2>3. QED
    BY <2>1, <2>2
<1>6. QED
  BY <1>2, <1>3, <1>4, <1>5

-----------------------------------------------------------------------------
(* Types.                                                                  *)

(* The part of TypeOK that is about the network.                           *)
NetOK == /\ DOMAIN net = Peer
         /\ \A p \in Peer : IsABag(net[p]) /\ InFlight(p) \subseteq Datagram

(* The network stays well typed when what is given are datagrams.          *)
LEMMA TransmitTypes ==
    ASSUME TypeOK, NEW p \in Peer, NEW taken, NEW given \in SUBSET Datagram,
           Transmit(p, taken, given)
    PROVE  NetOK'
<1>1. DOMAIN net = Peer /\ (\A q \in Peer : IsABag(net[q]))
  BY DEF TypeOK
<1>2. /\ DOMAIN net' = Peer
      /\ \A q \in Peer : IsABag(net[q])'
      /\ InFlight(p)' \subseteq InFlight(p)
      /\ InFlight(Other(p))' = InFlight(Other(p)) \cup given
  BY <1>1, TransmitBags
<1>3. InFlight(p) \subseteq Datagram /\ InFlight(Other(p)) \subseteq Datagram
  BY OtherPeer DEF TypeOK
<1>4. \A q \in Peer : q = p \/ q = Other(p)
  BY DEF Peer, Other
<1>5. ASSUME NEW q \in Peer
      PROVE  InFlight(q)' \subseteq Datagram
  BY <1>2, <1>3, <1>4
<1>6. QED
  BY <1>2, <1>5 DEF NetOK

(* Frame sets of frames, and acknowledgements, are datagrams.              *)
LEMMA FrameSetsAreDatagrams ==
    ASSUME NEW S \in SUBSET Frame
    PROVE  {FrameSet(f) : f \in S} \in SUBSET Datagram
BY DEF FrameSet, Datagram

(* What a tick sends are datagrams.                                        *)
LEMMA AcknowledgementsAreDatagrams ==
    ASSUME TypeOK, NEW p \in Peer
    PROVE  Acknowledgements(p) \in SUBSET Datagram
BY DEF Acknowledgements, Datagram, TypeOK

(* What arrives in a frame set is a frame.                                 *)
LEMMA FramesInFlightAreFrames ==
    ASSUME TypeOK, NEW p \in Peer
    PROVE  FramesInFlight(p) \subseteq Frame
BY DEF FramesInFlight, Datagram, TypeOK

(* Sending keeps the types.                                                *)
LEMMA SendTypes ==
    ASSUME TypeOK, NEW p \in Peer, NEW kind \in Kind, NEW size \in Nat \ {0},
           Send(p, kind, size)
    PROVE  TypeOK'
<1>1. /\ FramesOf(PacketOf(p, kind, size)) \in SUBSET Frame
      /\ sent' \in [Peer -> Seq(Packet)]
      /\ sendSeq' \in [Peer -> Nat]
      /\ compoundId' \in [Peer -> Nat]
      /\ recovery' \in [Peer -> SUBSET Frame]
  BY SendFrameTypes DEF Send
<1>2. NetOK'
  BY <1>1, FrameSetsAreDatagrams, TransmitTypes DEF Send
<1>3. UNCHANGED <<receiveState, ackQueue, nackQueue, closed, crashed, networkState>>
  BY DEF Send
<1>4. QED
  BY <1>1, <1>2, <1>3 DEF TypeOK, NetOK, receiveState, networkState

(* close() keeps the types.                                                *)
LEMMA CloseTypes ==
    ASSUME TypeOK, NEW p \in Peer, Close(p)
    PROVE  TypeOK'
<1>1. SendFrame(p, "disconnect", 1) /\ "disconnect" \in Kind /\ 1 \in Nat \ {0}
  BY DEF Close, Kind
<1>2. /\ FramesOf(PacketOf(p, "disconnect", 1)) \in SUBSET Frame
      /\ sent' \in [Peer -> Seq(Packet)]
      /\ sendSeq' \in [Peer -> Nat]
      /\ compoundId' \in [Peer -> Nat]
      /\ recovery' \in [Peer -> SUBSET Frame]
  BY <1>1, SendFrameTypes
<1>3. NetOK'
  <2> DEFINE given == Acknowledgements(p)
                      \cup {FrameSet(f) : f \in FramesOf(PacketOf(p, "disconnect", 1))}
  <2>1. given \in SUBSET Datagram
    BY <1>2, FrameSetsAreDatagrams, AcknowledgementsAreDatagrams
  <2>2. Transmit(p, {}, given)
    BY DEF Close
  <2> HIDE DEF given
  <2>3. QED
    BY <2>1, <2>2, TransmitTypes
<1>4. /\ ackQueue' \in [Peer -> SUBSET (0..IndexMod - 1)]
      /\ nackQueue' \in [Peer -> SUBSET (0..IndexMod - 1)]
      /\ closed' \in [Peer -> BOOLEAN]
  BY DEF Close, FlushAcks, TypeOK
<1>5. UNCHANGED <<receiveState, crashed, networkState>>
  BY DEF Close
<1>6. QED
  BY <1>2, <1>3, <1>4, <1>5 DEF TypeOK, NetOK, receiveState, networkState

(* A tick keeps the types.                                                 *)
LEMMA TickTypes ==
    ASSUME TypeOK, NEW p \in Peer, Tick(p)
    PROVE  TypeOK'
<1>1. NetOK'
  BY AcknowledgementsAreDatagrams, TransmitTypes DEF Tick
<1>2. /\ ackQueue' \in [Peer -> SUBSET (0..IndexMod - 1)]
      /\ nackQueue' \in [Peer -> SUBSET (0..IndexMod - 1)]
  BY DEF Tick, FlushAcks, TypeOK
<1>3. UNCHANGED <<sendState, recovery, receiveState, closed, crashed, networkState>>
  BY DEF Tick
<1>4. QED
  BY <1>1, <1>2, <1>3 DEF TypeOK, NetOK, sendState, receiveState, networkState

(* Handling an ACK keeps the types.                                        *)
LEMMA ReceiveAckTypes ==
    ASSUME TypeOK, NEW p \in Peer, ReceiveAck(p)
    PROVE  TypeOK'
<1>1. PICK dg \in InFlight(p) :
          /\ Transmit(p, {dg}, {})
          /\ recovery' = [recovery EXCEPT ![p] = {f \in @ : SeqNum(f) \notin dg.seqs}]
          /\ UNCHANGED <<sendState, receiveState, ackQueue, nackQueue, closed,
                         crashed, networkState>>
  BY DEF ReceiveAck
<1>2. NetOK'
  BY <1>1, TransmitTypes
<1>3. recovery' \in [Peer -> SUBSET Frame]
  BY <1>1 DEF TypeOK
<1>4. QED
  BY <1>1, <1>2, <1>3 DEF TypeOK, NetOK, sendState, receiveState, networkState

(* Handling a NACK keeps the types.                                        *)
LEMMA ReceiveNackTypes ==
    ASSUME TypeOK, NEW p \in Peer, ReceiveNack(p)
    PROVE  TypeOK'
<1>1. PICK dg \in InFlight(p) :
          /\ Transmit(p, {dg},
                      {FrameSet(f) : f \in {g \in recovery[p] : SeqNum(g) \in dg.seqs}})
          /\ UNCHANGED <<sendState, recovery, receiveState, ackQueue, nackQueue,
                         closed, crashed, networkState>>
  BY DEF ReceiveNack
<1>2. {g \in recovery[p] : SeqNum(g) \in dg.seqs} \in SUBSET Frame
  BY DEF TypeOK
<1>3. NetOK'
  BY <1>1, <1>2, FrameSetsAreDatagrams, TransmitTypes
<1>4. QED
  BY <1>1, <1>3 DEF TypeOK, NetOK, sendState, receiveState, networkState

(* A frame that is kept, dropped or buffered: no reply, nothing processed. *)
LEMMA QuietTypes ==
    ASSUME TypeOK, NEW p \in Peer, NEW f \in Frame, FrameArrives(p, f), Quietly(p, f),
           \/ UNCHANGED orderedQueue
           \/ /\ Reassembled(p, f)
              /\ orderedQueue' = [orderedQueue EXCEPT ![p] = Put(@, Ord24(f), PayloadOf(p, f))],
           crashed' \in [Peer -> BOOLEAN],
           UNCHANGED processed
    PROVE  TypeOK'
<1>1. NetOK'
  BY TransmitTypes DEF Quietly
<1>2. /\ DOMAIN orderedQueue' = Peer
      /\ \A q \in Peer : IsDict(orderedQueue[q]', 0..IndexMod - 1, Payload)
  <2>1. CASE UNCHANGED orderedQueue
    BY <2>1 DEF TypeOK
  <2>2. CASE /\ Reassembled(p, f)
             /\ orderedQueue' = [orderedQueue EXCEPT ![p] = Put(@, Ord24(f), PayloadOf(p, f))]
    <3>1. IsDict(Put(orderedQueue[p], Ord24(f), PayloadOf(p, f)), 0..IndexMod - 1, Payload)
      BY <2>2, PayloadTypes, WireTypes, DictPut, ZenonT(60) DEF TypeOK
    <3>2. QED
      BY <2>2, <3>1 DEF TypeOK
  <2>3. QED
    BY <2>1, <2>2
<1>3. UNCHANGED <<sendState, recovery, closed, networkState>>
  BY DEF Quietly
<1>4. QED
  BY <1>1, <1>2, <1>3, FrameArrivesTypes DEF TypeOK, NetOK, sendState, networkState

(* Each handling of a frame that answers nothing keeps the types.          *)
LEMMA ReceiveQuietTypes ==
    ASSUME TypeOK, NEW p \in Peer,
           \/ ReceiveFragment(p) \/ ReceiveMisfit(p)
           \/ ReceiveEarly(p) \/ ReceiveStale(p)
    PROVE  TypeOK'
<1>1. CASE ReceiveFragment(p)
  <2>1. PICK f \in FramesInFlight(p) :
            /\ FrameArrives(p, f) /\ Quietly(p, f)
            /\ UNCHANGED <<orderedQueue, processed, crashed>>
    BY <1>1 DEF ReceiveFragment
  <2>2. f \in Frame /\ crashed' \in [Peer -> BOOLEAN]
    BY <2>1, FramesInFlightAreFrames DEF TypeOK
  <2>3. QED
    BY <2>1, <2>2, QuietTypes
<1>2. CASE ReceiveMisfit(p)
  <2>1. PICK f \in FramesInFlight(p) :
            /\ FrameArrives(p, f) /\ Quietly(p, f)
            /\ crashed' = [crashed EXCEPT ![p] = p = Client]
            /\ UNCHANGED <<orderedQueue, processed>>
    BY <1>2 DEF ReceiveMisfit
  <2>2. f \in Frame /\ crashed' \in [Peer -> BOOLEAN]
    BY <2>1, FramesInFlightAreFrames DEF TypeOK
  <2>3. QED
    BY <2>1, <2>2, QuietTypes
<1>3. CASE ReceiveEarly(p)
  <2>1. PICK f \in FramesInFlight(p) :
            /\ FrameArrives(p, f) /\ Quietly(p, f)
            /\ Reassembled(p, f)
            /\ orderedQueue' = [orderedQueue EXCEPT ![p] = Put(@, Ord24(f), PayloadOf(p, f))]
            /\ UNCHANGED <<processed, crashed>>
    BY <1>3 DEF ReceiveEarly
  <2>2. f \in Frame /\ crashed' \in [Peer -> BOOLEAN]
    BY <2>1, FramesInFlightAreFrames DEF TypeOK
  <2>3. QED
    BY <2>1, <2>2, QuietTypes
<1>4. CASE ReceiveStale(p)
  <2>1. PICK f \in FramesInFlight(p) :
            /\ FrameArrives(p, f) /\ Quietly(p, f)
            /\ UNCHANGED <<orderedQueue, processed, crashed>>
    BY <1>4 DEF ReceiveStale
  <2>2. f \in Frame /\ crashed' \in [Peer -> BOOLEAN]
    BY <2>1, FramesInFlightAreFrames DEF TypeOK
  <2>3. QED
    BY <2>1, <2>2, QuietTypes
<1>5. QED
  BY <1>1, <1>2, <1>3, <1>4

(* What is processed in one go is a sequence of payloads.                 *)
LEMMA RunTypes ==
    ASSUME TypeOK, NEW p \in Peer, NEW f \in Frame, NEW next \in 1..IndexMod,
           Reassembled(p, f), next > Len(processed[p]),
           Len(processed[p]) + 1 .. next - 1 \subseteq DOMAIN orderedQueue[p]
    PROVE  /\ Run(p, f, next) \in Seq(Payload)
           /\ Len(Run(p, f, next)) = next - Len(processed[p])
           /\ Run(p, f, next)[1] = PayloadOf(p, f)
           /\ \A i \in 2..next - Len(processed[p]) :
                 Run(p, f, next)[i] = orderedQueue[p][Len(processed[p]) + i - 1]
<1> DEFINE e == Len(processed[p])
           rest == [i \in 1..next - e - 1 |-> orderedQueue[p][e + i]]
<1>1. e \in Nat /\ next \in Nat
  BY WidthsArePositive DEF TypeOK
<1>2. ASSUME NEW i \in 1..next - e - 1
      PROVE  orderedQueue[p][e + i] \in Payload
  <2>1. e + i \in e + 1 .. next - 1
    BY <1>1
  <2>2. e + i \in DOMAIN orderedQueue[p]
    BY <2>1
  <2>3. QED
    BY <2>2 DEF TypeOK, IsDict
<1>3. rest \in Seq(Payload) /\ Len(rest) = next - e - 1
  BY <1>1, <1>2
<1>4. PayloadOf(p, f) \in Payload
  BY PayloadTypes
<1>5. Run(p, f, next) = <<PayloadOf(p, f)>> \o rest
  BY DEF Run
<1>6. \A i \in 1..next - e - 1 : rest[i] = orderedQueue[p][e + i]
  OBVIOUS
<1>7. next > e
  OBVIOUS
<1> HIDE DEF rest, e
<1>8. /\ Run(p, f, next) \in Seq(Payload)
      /\ Len(Run(p, f, next)) = next - e
      /\ Run(p, f, next)[1] = PayloadOf(p, f)
  BY <1>1, <1>3, <1>4, <1>5, <1>7
<1>9. ASSUME NEW i \in 2..next - e
      PROVE  Run(p, f, next)[i] = orderedQueue[p][e + i - 1]
  <2>1. Run(p, f, next)[i] = rest[i - 1]
    BY <1>1, <1>3, <1>4, <1>5, <1>7
  <2>2. i - 1 \in 1..next - e - 1 /\ e + (i - 1) = e + i - 1
    BY <1>1
  <2>3. QED
    BY <1>6, <2>1, <2>2
<1>10. QED
  BY <1>8, <1>9 DEF e

(* An answer is a kind of payload, or none.                                *)
LEMMA ReplyTypes ==
    ASSUME NEW p, NEW payload
    PROVE  Reply(p, payload) \in Kind \cup {"none"}
BY Zenon DEF Reply, Kind

(* The answers to a run are a sequence of kinds.                           *)
LEMMA AnswersTypes ==
    ASSUME NEW p \in Peer, NEW run \in Seq(Payload),
           NEW g \in Enumerations(Answered(p, run))
    PROVE  Answers(p, run, g) \in Seq(Kind)
<1>1. Cardinality(Answered(p, run)) \in Nat
  <2>1. IsFiniteSet(1..Len(run))
    BY FS_Interval
  <2>2. IsFiniteSet(Answered(p, run))
    BY <2>1, FS_Subset DEF Answered
  <2>3. QED
    BY <2>2, FS_CardinalityType
<1>2. ASSUME NEW i \in 1..Cardinality(Answered(p, run))
      PROVE  Reply(p, run[g[i]]) \in Kind
  <2>1. g[i] \in Answered(p, run)
    BY DEF Enumerations
  <2>2. QED
    BY <2>1, ReplyTypes DEF Answered
<1>3. QED
  BY <1>1, <1>2 DEF Answers

(* Processing a run keeps the types.                                       *)
LEMMA ReceiveInOrderTypes ==
    ASSUME TypeOK, NEW p \in Peer, ReceiveInOrder(p)
    PROVE  TypeOK'
<1>1. PICK f \in FramesInFlight(p), next \in 1..IndexMod :
          /\ FrameArrives(p, f)
          /\ Reassembled(p, f)
          /\ next > Len(processed[p])
          /\ Len(processed[p]) + 1 .. next - 1 \subseteq DOMAIN orderedQueue[p]
          /\ orderedQueue' = [orderedQueue EXCEPT
                 ![p] = [o \in DOMAIN @ \ (Len(processed[p]) + 1 .. next - 1) |-> @[o]]]
          /\ processed' = [processed EXCEPT ![p] = @ \o Run(p, f, next)]
          /\ closed' = [closed EXCEPT
                 ![p] = @ \/ \E i \in 1..Len(Run(p, f, next)) :
                                KindOf(Run(p, f, next)[i]) = "disconnect"]
          /\ \E g \in Enumerations(Answered(p, Run(p, f, next))) :
                LET kinds == Answers(p, Run(p, f, next), g) IN
                /\ SendReplies(p, kinds)
                /\ Transmit(p, {FrameSet(f)},
                            {FrameSet(h) : h \in SingleFrames(PacketsOf(p, kinds))})
          /\ UNCHANGED <<crashed, networkState>>
  BY DEF ReceiveInOrder
<1>2. f \in Frame
  BY FramesInFlightAreFrames
<1>3. Run(p, f, next) \in Seq(Payload)
  BY <1>1, <1>2, RunTypes
<1>4. PICK g \in Enumerations(Answered(p, Run(p, f, next))) :
          /\ SendReplies(p, Answers(p, Run(p, f, next), g))
          /\ Transmit(p, {FrameSet(f)},
                      {FrameSet(h) : h \in SingleFrames(
                                        PacketsOf(p, Answers(p, Run(p, f, next), g)))})
  BY <1>1
<1>5. Answers(p, Run(p, f, next), g) \in Seq(Kind)
  BY <1>3, AnswersTypes
<1>6. /\ SingleFrames(PacketsOf(p, Answers(p, Run(p, f, next), g))) \in SUBSET Frame
      /\ sent' \in [Peer -> Seq(Packet)]
      /\ sendSeq' \in [Peer -> Nat]
      /\ compoundId' \in [Peer -> Nat]
      /\ recovery' \in [Peer -> SUBSET Frame]
  BY <1>4, <1>5, SendRepliesTypes
<1>7. NetOK'
  BY <1>4, <1>6, FrameSetsAreDatagrams, TransmitTypes
<1>8. processed' \in [Peer -> Seq(Payload)]
  BY <1>1, <1>3 DEF TypeOK
<1>9. /\ DOMAIN orderedQueue' = Peer
      /\ \A q \in Peer : IsDict(orderedQueue[q]', 0..IndexMod - 1, Payload)
  BY <1>1 DEF TypeOK, IsDict
<1>10. closed' \in [Peer -> BOOLEAN]
  BY <1>1 DEF TypeOK
<1>11. UNCHANGED <<crashed, networkState>>
  BY <1>1
<1>12. QED
  BY <1>1, <1>2, <1>6, <1>7, <1>8, <1>9, <1>10, <1>11, FrameArrivesTypes
  DEF TypeOK, NetOK, networkState

(* Loss and duplication keep the types.                                    *)
LEMMA NetworkTypes ==
    ASSUME TypeOK, NEW p \in Peer, Lose(p) \/ Copy(p)
    PROVE  TypeOK'
<1>1. CASE Lose(p)
  <2>1. PICK dg \in InFlight(p) :
            /\ lost < LossBound /\ lost' = lost + 1
            /\ Transmit(p, {dg}, {})
            /\ UNCHANGED <<sendState, recovery, receiveState, ackQueue, nackQueue,
                           closed, crashed, copied>>
    BY <1>1 DEF Lose
  <2>2. NetOK'
    BY <2>1, TransmitTypes
  <2>3. lost' \in 0..LossBound
    BY <2>1, BoundsAreNatural DEF TypeOK
  <2>4. QED
    BY <2>1, <2>2, <2>3 DEF TypeOK, NetOK, sendState, receiveState
<1>2. CASE Copy(p)
  <2>1. PICK dg \in InFlight(p) :
            /\ copied < CopyBound /\ copied' = copied + 1
            /\ Transmit(Other(p), {}, {dg})
            /\ UNCHANGED <<sendState, recovery, receiveState, ackQueue, nackQueue,
                           closed, crashed, lost>>
    BY <1>2 DEF Copy
  <2>2. {dg} \in SUBSET Datagram
    BY DEF TypeOK
  <2>3. NetOK'
    BY <2>1, <2>2, OtherPeer, TransmitTypes
  <2>4. QED
    BY <2>1, <2>3, BoundsAreNatural, SMTT(60) DEF TypeOK, NetOK, sendState, receiveState
<1>3. QED
  BY <1>1, <1>2

(* TypeOK is inductive as it stands.                                       *)
LEMMA TypesPreserved == TypeOK /\ [Next]_vars => TypeOK'
<1> SUFFICES ASSUME TypeOK, [Next]_vars PROVE TypeOK'
  OBVIOUS
<1>1. CASE SendConnectionRequest
  BY <1>1, SendTypes DEF SendConnectionRequest, Kind, Peer
<1>2. ASSUME NEW p \in Peer, WritePacket(p) PROVE TypeOK'
  BY <1>2, SendTypes, WidthsArePositive DEF WritePacket, Kind
<1>3. ASSUME NEW p \in Peer, SendPing(p) PROVE TypeOK'
  BY <1>3, SendTypes DEF SendPing, Kind
<1>4. ASSUME NEW p \in Peer, Receive(p) PROVE TypeOK'
  BY <1>4, ReceiveAckTypes, ReceiveNackTypes, ReceiveQuietTypes, ReceiveInOrderTypes
  DEF Receive
<1>5. CASE UNCHANGED vars
  BY <1>5 DEF vars, TypeOK, InFlight
<1>6. QED
  BY <1>1, <1>2, <1>3, <1>4, <1>5, CloseTypes, TickTypes, NetworkTypes DEF Next

(* The initial state is well typed.                                        *)
LEMMA TypesInitially == Init => TypeOK
BY WidthsArePositive, BoundsAreNatural
DEF Init, TypeOK, InFlight, BagToSet, IsABag, EmptyBag, SetToBag, IsDict

(* The state of both ends, and every datagram between them, keeps its      *)
(* type in every reachable state, whatever the widths of the counters.     *)
THEOREM TypeCorrect == Spec => []TypeOK
BY TypesInitially, TypesPreserved, PTL DEF Spec
=============================================================================
