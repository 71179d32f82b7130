----------------------- MODULE RakNetChannelOrderProofs -----------------------
(***************************************************************************)
(* The ordering and the release theorems of RakNetChannel: as long as no   *)
(* counter of the sender has wrapped, what an endpoint processes is what   *)
(* the other one sent, in order, whole and once, whatever the network      *)
(* does; a frame that has left _recovery has arrived; what waits at the    *)
(* receiver waits for something that has not arrived; without a loss, when *)
(* nothing is on its way all that was sent has been processed; and after   *)
(* one loss what a receiver has passed over is on its way or asked for.    *)
(*                                                                         *)
(* Every step has one acting peer.  The step lemmas say what the step may  *)
(* do to that peer's sending side, to its receiving side and to the        *)
(* network; the invariant is then preserved by each of the three.          *)
(***************************************************************************)
EXTENDS RakNetChannelProofs

-----------------------------------------------------------------------------
(* The shape of a step.                                                    *)

(* The acting peer a sends one payload, or answers, or sends nothing new.  *)
SenderStep(a) ==
    \/ \E kind \in Kind, size \in Nat \ {0} : SendFrame(a, kind, size)
    \/ \E kinds \in Seq(Kind) : SendReplies(a, kinds)
    \/ /\ UNCHANGED sendState
       /\ \A q \in Peer : recovery'[q] \subseteq recovery[q]

(* What it puts into the network are its own frames, or one that the       *)
(* network duplicates on its way to the other peer.                        *)
NetStep(a) ==
    \E taken, given :
        /\ Transmit(a, taken, given)
        /\ \A dg \in given : dg.kind = "frameset" =>
              dg.frame \in recovery'[a] \/ dg \in InFlight(Other(a))

InOrder(a, f, next) ==
    /\ Reassembled(a, f)
    /\ Ord24(f) = Len(processed[a])
    /\ next > Len(processed[a])
    /\ Len(processed[a]) + 1 .. next - 1 \subseteq DOMAIN orderedQueue[a]
    /\ orderedQueue' = [orderedQueue EXCEPT
           ![a] = [o \in DOMAIN @ \ (Len(processed[a]) + 1 .. next - 1) |-> @[o]]]
    /\ processed' = [processed EXCEPT ![a] = @ \o Run(a, f, next)]

Early(a, f) ==
    /\ Reassembled(a, f)
    /\ orderedQueue' = [orderedQueue EXCEPT ![a] = Put(@, Ord24(f), PayloadOf(a, f))]
    /\ UNCHANGED processed

(* It receives nothing, or a frame in one of the ways of the handler.      *)
ReceiverStep(a) ==
    \/ UNCHANGED receiveState
    \/ \E f \in FramesInFlight(a) :
          /\ StoreFragment(a, f)
          /\ \/ UNCHANGED <<orderedQueue, processed>>
             \/ Early(a, f)
             \/ \E next \in 1..IndexMod : InOrder(a, f, next)

StepOf(a) == SenderStep(a) /\ NetStep(a) /\ ReceiverStep(a)

(* Each action, in turn, has that shape.                                   *)
LEMMA SendStep ==
    ASSUME TypeOK, NEW p \in Peer, NEW kind \in Kind, NEW size \in Nat \ {0},
           Send(p, kind, size)
    PROVE  StepOf(p)
<1>1. SenderStep(p)
  BY DEF Send, SenderStep
<1>2. NetStep(p)
  <2> DEFINE given == {FrameSet(f) : f \in FramesOf(PacketOf(p, kind, size))}
  <2>1. Transmit(p, {}, given)
    BY DEF Send
  <2>2. \A dg \in given : dg.frame \in recovery'[p]
    BY DEF Send, SendFrame, FrameSet, TypeOK
  <2> HIDE DEF given
  <2>3. QED
    BY <2>1, <2>2 DEF NetStep
<1>3. ReceiverStep(p)
  BY DEF Send, ReceiverStep
<1>4. QED
  BY <1>1, <1>2, <1>3 DEF StepOf

(* close() sends its notification and the acknowledgements.                *)
LEMMA CloseStep ==
    ASSUME TypeOK, NEW p \in Peer, Close(p)
    PROVE  StepOf(p)
<1>1. SenderStep(p)
  BY DEF Close, SenderStep, Kind
<1>2. NetStep(p)
  <2> DEFINE frames == {FrameSet(f) : f \in FramesOf(PacketOf(p, "disconnect", 1))}
  <2>1. Transmit(p, {}, Acknowledgements(p) \cup frames)
    BY DEF Close
  <2>2. \A dg \in frames : dg.frame \in recovery'[p]
    BY DEF Close, SendFrame, FrameSet, TypeOK
  <2>3. \A dg \in Acknowledgements(p) : dg.kind # "frameset"
    BY DEF Acknowledgements
  <2> HIDE DEF frames
  <2>4. QED
    BY <2>1, <2>2, <2>3 DEF NetStep
<1>3. ReceiverStep(p)
  BY DEF Close, ReceiverStep
<1>4. QED
  BY <1>1, <1>2, <1>3 DEF StepOf

(* A tick sends acknowledgements and no frames.                            *)
LEMMA TickStep ==
    ASSUME TypeOK, NEW p \in Peer, Tick(p)
    PROVE  StepOf(p)
<1>1. SenderStep(p) /\ ReceiverStep(p)
  BY DEF Tick, SenderStep, ReceiverStep
<1>2. NetStep(p)
  <2>1. Transmit(p, {}, Acknowledgements(p))
    BY DEF Tick
  <2>2. \A dg \in Acknowledgements(p) : dg.kind # "frameset"
    BY DEF Acknowledgements
  <2>3. QED
    BY <2>1, <2>2 DEF NetStep
<1>3. QED
  BY <1>1, <1>2 DEF StepOf

(* An ACK only takes frames out of recovery.                               *)
LEMMA AckStep ==
    ASSUME TypeOK, NEW p \in Peer, ReceiveAck(p)
    PROVE  StepOf(p)
<1>1. PICK dg \in InFlight(p) :
          /\ Transmit(p, {dg}, {})
          /\ recovery' = [recovery EXCEPT ![p] = {f \in @ : SeqNum(f) \notin dg.seqs}]
          /\ UNCHANGED <<sendState, receiveState>>
  BY DEF ReceiveAck
<1>2. \A q \in Peer : recovery'[q] \subseteq recovery[q]
  BY <1>1 DEF TypeOK
<1>3. NetStep(p)
  BY <1>1 DEF NetStep
<1>4. QED
  BY <1>1, <1>2, <1>3 DEF StepOf, SenderStep, ReceiverStep

(* A NACK sends frames that are in recovery.                               *)
LEMMA NackStep ==
    ASSUME TypeOK, NEW p \in Peer, ReceiveNack(p)
    PROVE  StepOf(p)
<1>1. PICK dg \in InFlight(p) :
          /\ Transmit(p, {dg},
                      {FrameSet(f) : f \in {g \in recovery[p] : SeqNum(g) \in dg.seqs}})
          /\ UNCHANGED <<sendState, recovery, receiveState>>
  BY DEF ReceiveNack
<1>2. NetStep(p)
  <2> DEFINE given == {FrameSet(f) : f \in {g \in recovery[p] : SeqNum(g) \in dg.seqs}}
  <2>1. \A d \in given : d.frame \in recovery'[p]
    BY <1>1 DEF FrameSet
  <2>2. Transmit(p, {dg}, given)
    BY <1>1
  <2> HIDE DEF given
  <2>3. QED
    BY <2>1, <2>2 DEF NetStep
<1>3. QED
  BY <1>1, <1>2 DEF StepOf, SenderStep, ReceiverStep

(* A frame that is answered with nothing.                                  *)
LEMMA QuietStep ==
    ASSUME TypeOK, NEW p \in Peer, NEW f \in FramesInFlight(p),
           FrameArrives(p, f), Quietly(p, f),
           UNCHANGED <<orderedQueue, processed>> \/ Early(p, f)
    PROVE  StepOf(p)
<1>1. SenderStep(p)
  BY DEF Quietly, SenderStep
<1>2. NetStep(p)
  BY DEF Quietly, NetStep
<1>3. ReceiverStep(p)
  BY DEF FrameArrives, ReceiverStep
<1>4. QED
  BY <1>1, <1>2, <1>3 DEF StepOf

(* A frame that completes the payload whose turn it is.                    *)
LEMMA InOrderStep ==
    ASSUME TypeOK, NEW p \in Peer, ReceiveInOrder(p)
    PROVE  StepOf(p)
<1>1. PICK f \in FramesInFlight(p), next \in 1..IndexMod :
          /\ FrameArrives(p, f)
          /\ InOrder(p, f, next)
          /\ \E g \in Enumerations(Answered(p, Run(p, f, next))) :
                LET kinds == Answers(p, Run(p, f, next), g) IN
                /\ SendReplies(p, kinds)
                /\ Transmit(p, {FrameSet(f)},
                            {FrameSet(h) : h \in SingleFrames(PacketsOf(p, kinds))})
  BY DEF ReceiveInOrder, InOrder
<1>2. f \in Frame
  BY FramesInFlightAreFrames
<1>3. Run(p, f, next) \in Seq(Payload)
  BY <1>1, <1>2, RunTypes DEF InOrder
<1>4. PICK kinds \in Seq(Kind) :
          /\ SendReplies(p, kinds)
          /\ Transmit(p, {FrameSet(f)},
                      {FrameSet(h) : h \in SingleFrames(PacketsOf(p, kinds))})
  BY <1>1, <1>3, AnswersTypes
<1>5. SenderStep(p)
  BY <1>4 DEF SenderStep
<1>6. NetStep(p)
  <2> DEFINE given == {FrameSet(h) : h \in SingleFrames(PacketsOf(p, kinds))}
  <2>1. \A d \in given : d.frame \in recovery'[p]
    BY <1>4 DEF SendReplies, FrameSet, TypeOK
  <2>2. Transmit(p, {FrameSet(f)}, given)
    BY <1>4
  <2> HIDE DEF given
  <2>3. QED
    BY <2>1, <2>2 DEF NetStep
<1>7. ReceiverStep(p)
  BY <1>1 DEF FrameArrives, ReceiverStep
<1>8. QED
  BY <1>5, <1>6, <1>7 DEF StepOf

(* The network loses a datagram.                                           *)
LEMMA LoseStep ==
    ASSUME TypeOK, NEW p \in Peer, Lose(p)
    PROVE  StepOf(p)
BY DEF Lose, StepOf, SenderStep, NetStep, ReceiverStep

(* A duplicate of a datagram to p acts like a sending of the other peer.   *)
LEMMA CopyStep ==
    ASSUME TypeOK, NEW p \in Peer, Copy(p)
    PROVE  StepOf(Other(p))
BY OtherPeer DEF Copy, StepOf, SenderStep, NetStep, ReceiverStep

(* Every step has that shape.                                              *)
LEMMA StepShape ==
    ASSUME TypeOK, Next
    PROVE  \E a \in Peer : StepOf(a)
<1>1. CASE SendConnectionRequest
  BY <1>1, SendStep DEF SendConnectionRequest, Kind, Peer
<1>2. ASSUME NEW p \in Peer, WritePacket(p) PROVE StepOf(p)
  BY <1>2, SendStep, WidthsArePositive DEF WritePacket, Kind
<1>3. ASSUME NEW p \in Peer, SendPing(p) PROVE StepOf(p)
  BY <1>3, SendStep DEF SendPing, Kind
<1>4. ASSUME NEW p \in Peer, Receive(p) PROVE StepOf(p)
  <2>1. CASE ReceiveFragment(p) \/ ReceiveMisfit(p) \/ ReceiveStale(p)
    BY <2>1, QuietStep DEF ReceiveFragment, ReceiveMisfit, ReceiveStale
  <2>2. CASE ReceiveEarly(p)
    BY <2>2, QuietStep DEF ReceiveEarly, Early
  <2>3. QED
    BY <1>4, <2>1, <2>2, AckStep, NackStep, InOrderStep DEF Receive
<1>5. QED
  BY <1>1, <1>2, <1>3, <1>4, CloseStep, TickStep, LoseStep, CopyStep, OtherPeer DEF Next

-----------------------------------------------------------------------------
(* The sending side.                                                       *)

(* Numbered, of a sequence of payloads and a count of compound ids.        *)
NumberedSeq(s, c) ==
    /\ \A i \in 1..Len(s) : /\ s[i].ord = i - 1
                            /\ s[i].size > 1 => s[i].comp < c
    /\ \A i, j \in 1..Len(s) :
          (s[i].size > 1 /\ s[j].size > 1 /\ s[i].comp = s[j].comp) => i = j

(* The payloads t may follow s.                                            *)
Follows(t, s, c, d) ==
    /\ c <= d
    /\ \A i \in 1..Len(t) :
          /\ t[i].ord = Len(s) + i - 1
          /\ t[i].size > 1 => Len(t) = 1 /\ t[i].comp = c /\ d = c + 1

(* Where the elements of a concatenation come from.                        *)
LEMMA ConcatParts ==
    ASSUME NEW S, NEW s \in Seq(S), NEW t \in Seq(S)
    PROVE  /\ s \o t \in Seq(S)
           /\ Len(s) \in Nat /\ Len(t) \in Nat
           /\ Len(s \o t) = Len(s) + Len(t)
           /\ \A i \in 1..Len(s) : (s \o t)[i] = s[i]
           /\ \A i \in 1..Len(s \o t) \ 1..Len(s) :
                 \E k \in 1..Len(t) : i = Len(s) + k /\ (s \o t)[i] = t[k]
<1>1. /\ s \o t \in Seq(S) /\ Len(s) \in Nat /\ Len(t) \in Nat
      /\ Len(s \o t) = Len(s) + Len(t)
      /\ \A i \in 1..Len(s) : (s \o t)[i] = s[i]
  OBVIOUS
<1>2. ASSUME NEW i \in 1..Len(s \o t) \ 1..Len(s)
      PROVE  \E k \in 1..Len(t) : i = Len(s) + k /\ (s \o t)[i] = t[k]
  <2>1. i - Len(s) \in 1..Len(t) /\ i = Len(s) + (i - Len(s))
    BY <1>1
  <2>2. (s \o t)[i] = t[i - Len(s)]
    BY <1>1
  <2>3. QED
    BY <2>1, <2>2
<1>3. QED
  BY <1>1, <1>2

(* A numbered history stays numbered when what follows it is added.        *)
LEMMA NumbersContinue ==
    ASSUME NEW s \in Seq(Packet), NEW t \in Seq(Packet), NEW c \in Nat, NEW d \in Nat,
           NumberedSeq(s, c), Follows(t, s, c, d)
    PROVE  NumberedSeq(s \o t, d)
<1> DEFINE u == s \o t
<1>1. /\ Len(s) \in Nat /\ Len(t) \in Nat /\ Len(u) = Len(s) + Len(t)
      /\ \A i \in 1..Len(s) : u[i] = s[i]
      /\ \A i \in 1..Len(u) \ 1..Len(s) :
            \E k \in 1..Len(t) : i = Len(s) + k /\ u[i] = t[k]
  BY ConcatParts
<1>2. \A i \in 1..Len(s) : s[i].comp \in Nat
  <2>1. \A i \in 1..Len(s) : s[i] \in Packet
    OBVIOUS
  <2>2. QED
    BY <2>1 DEF Packet
<1> HIDE DEF u
<1>3. ASSUME NEW i \in 1..Len(u), i \in 1..Len(s)
      PROVE  u[i].ord = i - 1 /\ (u[i].size > 1 => u[i].comp < d /\ u[i].comp < c)
  <2>1. u[i] = s[i] /\ s[i].ord = i - 1 /\ (s[i].size > 1 => s[i].comp < c) /\ s[i].comp \in Nat
    BY <1>1, <1>2, <1>3 DEF NumberedSeq
  <2>2. QED
    BY <2>1 DEF Follows
<1>4. ASSUME NEW i \in 1..Len(u), i \notin 1..Len(s)
      PROVE  /\ u[i].ord = i - 1
             /\ u[i].size > 1 => u[i].comp = c /\ d = c + 1 /\ i = Len(s) + 1
  <2>1. PICK k \in 1..Len(t) : i = Len(s) + k /\ u[i] = t[k]
    BY <1>1, <1>4
  <2>2. /\ t[k].ord = Len(s) + k - 1
        /\ t[k].size > 1 => Len(t) = 1 /\ d = c + 1 /\ t[k].comp = c
    BY DEF Follows
  <2>3. QED
    BY <1>1, <2>1, <2>2
<1>5. ASSUME NEW i \in 1..Len(u), NEW j \in 1..Len(u),
             u[i].size > 1, u[j].size > 1, u[i].comp = u[j].comp
      PROVE  i = j
  <2>1. CASE i \in 1..Len(s) /\ j \in 1..Len(s)
    BY <1>1, <1>5, <2>1 DEF NumberedSeq
  <2>2. CASE i \notin 1..Len(s) /\ j \notin 1..Len(s)
    BY <1>4, <1>5, <2>2
  <2>3. CASE i \in 1..Len(s) /\ j \notin 1..Len(s)
    BY <1>3, <1>4, <1>5, <2>3
  <2>4. CASE i \notin 1..Len(s) /\ j \in 1..Len(s)
    BY <1>3, <1>4, <1>5, <2>4
  <2>5. QED
    BY <2>1, <2>2, <2>3, <2>4
<1>6. \A i \in 1..Len(u) : u[i].ord = i - 1 /\ (u[i].size > 1 => u[i].comp < d)
  BY <1>3, <1>4
<1>7. NumberedSeq(u, d)
  BY <1>5, <1>6 DEF NumberedSeq
<1>8. QED
  BY <1>7 DEF u

(* What a sender's step does to its own history.                           *)
Appends(a) ==
    \E t \in Seq(Packet) :
        /\ sent' = [sent EXCEPT ![a] = @ \o t]
        /\ Follows(t, sent[a], compoundId[a], compoundId'[a])
        /\ sendSeq[a] <= sendSeq'[a]
        /\ \A q \in Peer \ {a} : /\ sendSeq'[q] = sendSeq[q]
                                 /\ compoundId'[q] = compoundId[q]
        /\ \A q \in Peer : \A f \in recovery'[q] \ recovery[q] :
              q = a /\ \E i \in 1..Len(t) : f.pkt = t[i]

(* Every sender's step adds what may follow, and keeps it in recovery.     *)
LEMMA SenderAppends ==
    ASSUME TypeOK, NEW a \in Peer, SenderStep(a)
    PROVE  Appends(a)
<1>1. ASSUME NEW kind \in Kind, NEW size \in Nat \ {0}, SendFrame(a, kind, size)
      PROVE  Appends(a)
  <2> DEFINE x == PacketOf(a, kind, size)
  <2>1. x \in Packet /\ sent[a] \in Seq(Packet)
    BY <1>1, SendFrameTypes DEF TypeOK
  <2>2. /\ x.ord = Len(sent[a]) /\ x.size = size
        /\ x.size > 1 => x.comp = compoundId[a]
    BY DEF PacketOf
  <2>3. /\ sent' = [sent EXCEPT ![a] = Append(@, x)]
        /\ sendSeq' = [sendSeq EXCEPT ![a] = @ + size]
        /\ compoundId' = [compoundId EXCEPT ![a] = IF size > 1 THEN @ + 1 ELSE @]
        /\ recovery' = [recovery EXCEPT ![a] = @ \cup FramesOf(x)]
    BY <1>1 DEF SendFrame
  <2>4. \A f \in FramesOf(x) : f.pkt = x
    BY DEF FramesOf
  <2> HIDE DEF x
  <2>5. /\ <<x>> \in Seq(Packet) /\ Len(<<x>>) = 1 /\ <<x>>[1] = x
        /\ Append(sent[a], x) = sent[a] \o <<x>>
    BY <2>1
  <2>6. sent' = [sent EXCEPT ![a] = @ \o <<x>>]
    BY <2>3, <2>5
  <2>7. Follows(<<x>>, sent[a], compoundId[a], compoundId'[a])
    <3>1. compoundId[a] \in Nat /\ Len(sent[a]) \in Nat
      BY <2>1 DEF TypeOK
    <3>2. compoundId'[a] = IF size > 1 THEN compoundId[a] + 1 ELSE compoundId[a]
      BY <2>3 DEF TypeOK
    <3>3. QED
      BY <2>2, <2>5, <3>1, <3>2 DEF Follows
  <2>8. /\ sendSeq[a] <= sendSeq'[a]
        /\ \A q \in Peer \ {a} : sendSeq'[q] = sendSeq[q] /\ compoundId'[q] = compoundId[q]
        /\ \A q \in Peer : \A f \in recovery'[q] \ recovery[q] :
              q = a /\ \E i \in 1..Len(<<x>>) : f.pkt = <<x>>[i]
    BY <2>3, <2>4, <2>5 DEF TypeOK
  <2>9. QED
    BY <2>5, <2>6, <2>7, <2>8 DEF Appends
<1>2. ASSUME NEW kinds \in Seq(Kind), SendReplies(a, kinds)
      PROVE  Appends(a)
  <2> DEFINE t == PacketsOf(a, kinds)
  <2>1. t \in Seq(Packet) /\ Len(t) = Len(kinds)
    BY <1>2, SendRepliesTypes
  <2>2. \A i \in 1..Len(kinds) : t[i].ord = Len(sent[a]) + i - 1 /\ t[i].size = 1
    BY DEF PacketsOf
  <2>3. /\ sent' = [sent EXCEPT ![a] = @ \o t]
        /\ sendSeq' = [sendSeq EXCEPT ![a] = @ + Len(kinds)]
        /\ recovery' = [recovery EXCEPT ![a] = @ \cup SingleFrames(t)]
        /\ UNCHANGED compoundId
    BY <1>2 DEF SendReplies
  <2>4. \A f \in SingleFrames(t) : \E i \in 1..Len(t) : f.pkt = t[i]
    BY DEF SingleFrames
  <2> HIDE DEF t
  <2>5. Follows(t, sent[a], compoundId[a], compoundId'[a])
    BY <2>1, <2>2, <2>3, SMTT(60) DEF Follows, TypeOK
  <2>6. /\ sendSeq[a] <= sendSeq'[a]
        /\ \A q \in Peer \ {a} : sendSeq'[q] = sendSeq[q] /\ compoundId'[q] = compoundId[q]
        /\ \A q \in Peer : \A f \in recovery'[q] \ recovery[q] :
              q = a /\ \E i \in 1..Len(t) : f.pkt = t[i]
    BY <2>3, <2>4 DEF TypeOK
  <2>7. QED
    BY <2>1, <2>3, <2>5, <2>6 DEF Appends
<1>3. ASSUME UNCHANGED sendState, \A q \in Peer : recovery'[q] \subseteq recovery[q]
      PROVE  Appends(a)
  <2>1. sent[a] \o <<>> = sent[a] /\ <<>> \in Seq(Packet) /\ Len(<<>>) = 0
    BY DEF TypeOK
  <2>2. sent' = [sent EXCEPT ![a] = @ \o <<>>]
    BY <1>3, <2>1 DEF sendState, TypeOK
  <2>3. Follows(<<>>, sent[a], compoundId[a], compoundId'[a])
    BY <1>3, <2>1 DEF Follows, sendState, TypeOK
  <2>4. /\ sendSeq[a] <= sendSeq'[a]
        /\ UNCHANGED <<sendSeq, compoundId>>
    BY <1>3 DEF sendState, TypeOK
  <2>5. QED
    BY <1>3, <2>1, <2>2, <2>3, <2>4 DEF Appends
<1>4. QED
  BY <1>1, <1>2, <1>3 DEF SenderStep

(* q's payloads of before are still there, under the same numbers.         *)
Grows(q) ==
    /\ Len(sent[q]) <= Len(sent'[q])
    /\ \A i \in 1..Len(sent[q]) : sent'[q][i] = sent[q][i]

(* Sending keeps the numbering, and never un-wraps a counter.              *)
LEMMA SenderKeepsNumbers ==
    ASSUME TypeOK, TypeOK', NEW a \in Peer, SenderStep(a), NEW q \in Peer, Numbered(q)
    PROVE  /\ Numbered(q)' /\ Grows(q) /\ (Unwrapped(q)' => Unwrapped(q))
           /\ q # a => sent'[q] = sent[q]
<1>1. PICK t \in Seq(Packet) :
        /\ sent' = [sent EXCEPT ![a] = @ \o t]
        /\ Follows(t, sent[a], compoundId[a], compoundId'[a])
        /\ sendSeq[a] <= sendSeq'[a]
        /\ \A b \in Peer \ {a} : sendSeq'[b] = sendSeq[b] /\ compoundId'[b] = compoundId[b]
  BY SenderAppends DEF Appends
<1>2. CASE q = a
  <2>1. /\ sent[a] \in Seq(Packet) /\ sent'[a] = sent[a] \o t
        /\ compoundId[a] \in Nat /\ compoundId'[a] \in Nat
        /\ sendSeq[a] \in Nat /\ sendSeq'[a] \in Nat
    BY <1>1 DEF TypeOK
  <2>2. NumberedSeq(sent[a], compoundId[a])
    BY <1>2 DEF Numbered, NumberedSeq
  <2>3. NumberedSeq(sent'[a], compoundId'[a])
    BY <1>1, <2>1, <2>2, NumbersContinue
  <2>4. Grows(a) /\ Len(sent[a]) \in Nat /\ Len(sent'[a]) \in Nat
    BY <2>1, ConcatParts DEF Grows
  <2>5. compoundId[a] <= compoundId'[a] /\ Len(sent[a]) <= Len(sent'[a])
    BY <1>1, <2>4 DEF Follows, Grows
  <2>6. Unwrapped(a)' => Unwrapped(a)
    BY <1>1, <2>1, <2>4, <2>5, WidthsArePositive DEF Unwrapped
  <2>7. QED
    BY <1>2, <2>3, <2>4, <2>6 DEF Numbered, NumberedSeq
<1>3. CASE q # a
  <2>1. sent'[q] = sent[q] /\ sendSeq'[q] = sendSeq[q] /\ compoundId'[q] = compoundId[q]
    BY <1>1, <1>3 DEF TypeOK
  <2>2. Len(sent[q]) \in Nat
    BY DEF TypeOK
  <2>3. QED
    BY <2>1, <2>2, <1>3 DEF Numbered, Grows, Unwrapped
<1>4. QED
  BY <1>2, <1>3

(* A frame that was sent stays one that was sent.                          *)
LEMMA SentByGrows ==
    ASSUME TypeOK, NEW q \in Peer, NEW f, Grows(q), SentBy(q, f), Len(sent'[q]) \in Nat
    PROVE  SentBy(q, f)'
<1>1. PICK i \in 1..Len(sent[q]) : f.pkt = sent[q][i]
  BY DEF SentBy
<1>2. i \in 1..Len(sent'[q]) /\ sent'[q][i] = sent[q][i]
  BY <1>1 DEF Grows, TypeOK
<1>3. QED
  BY <1>1, <1>2 DEF SentBy

(* Every frame that is kept or on its way was sent.                        *)
LEMMA OnlySentKept ==
    ASSUME TypeOK, TypeOK', NEW a \in Peer, SenderStep(a), NetStep(a),
           \A q \in Peer : Numbered(q) /\ OnlySent(q),
           NEW q \in Peer
    PROVE  OnlySent(q)'
<1>1. Grows(q) /\ Len(sent'[q]) \in Nat
  <2>1. Grows(q)
    BY SenderKeepsNumbers
  <2>2. sent' \in [Peer -> Seq(Packet)]
    BY DEF TypeOK
  <2>3. Len(sent'[q]) \in Nat
    BY <2>2
  <2>4. QED
    BY <2>1, <2>3
<1>2. ASSUME NEW f \in recovery'[q]
      PROVE  SentBy(q, f)'
  <2>1. CASE f \in recovery[q]
    BY <1>1, <2>1, SentByGrows DEF OnlySent
  <2>2. CASE f \notin recovery[q]
    <3>1. PICK t \in Seq(Packet) :
            /\ sent' = [sent EXCEPT ![a] = @ \o t]
            /\ \A r \in Peer : \A g \in recovery'[r] \ recovery[r] :
                  r = a /\ \E i \in 1..Len(t) : g.pkt = t[i]
      BY SenderAppends DEF Appends
    <3>2. q = a /\ \E i \in 1..Len(t) : f.pkt = t[i]
      BY <2>2, <3>1
    <3> PICK i \in 1..Len(t) : f.pkt = t[i]
      BY <3>2
    <3>3. sent[q] \in Seq(Packet) /\ sent'[q] = sent[q] \o t
      BY <3>1, <3>2 DEF TypeOK
    <3>4. /\ Len(sent[q]) + i \in 1..Len(sent'[q])
          /\ sent'[q][Len(sent[q]) + i] = t[i]
      BY <3>3, SMTT(60)
    <3>5. QED
      BY <3>2, <3>4 DEF SentBy
  <2>3. QED
    BY <2>1, <2>2
<1>3. ASSUME NEW f \in FramesInFlight(Other(q))'
      PROVE  SentBy(q, f)'
  <2>1. PICK taken, given :
          /\ Transmit(a, taken, given)
          /\ \A dg \in given : dg.kind = "frameset" =>
                dg.frame \in recovery'[a] \/ dg \in InFlight(Other(a))
    BY DEF NetStep
  <2>2. /\ InFlight(a)' \subseteq InFlight(a)
        /\ InFlight(Other(a))' = InFlight(Other(a)) \cup given
    BY <2>1, TransmitBags DEF TypeOK
  <2>3. PICK dg \in InFlight(Other(q))' : dg.kind = "frameset" /\ f = dg.frame
    BY DEF FramesInFlight
  <2>4. CASE dg \in InFlight(Other(q))
    <3>1. f \in FramesInFlight(Other(q))
      BY <2>3, <2>4 DEF FramesInFlight
    <3>2. QED
      BY <1>1, <3>1, SentByGrows DEF OnlySent
  <2>5. CASE dg \notin InFlight(Other(q))
    <3>1. q = a
      BY <2>2, <2>3, <2>5, OtherPeer DEF Peer
    <3>2. f \in recovery'[q]
      BY <2>1, <2>2, <2>3, <2>5, <3>1
    <3>3. QED
      BY <1>2, <3>2
  <2>6. QED
    BY <2>4, <2>5
<1>4. QED
  BY <1>2, <1>3 DEF OnlySent

-----------------------------------------------------------------------------
(* The receiving side.                                                     *)

(* A frame on its way to p, while the sender's counters fit the wire: p    *)
(* reads from it the index and the compound id it was sent under.          *)
LEMMA KnownFrame ==
    ASSUME TypeOK, NEW p \in Peer, NEW f \in FramesInFlight(p),
           Numbered(Other(p)), OnlySent(Other(p)), Unwrapped(Other(p))
    PROVE  \E i \in 1..Len(sent[Other(p)]) :
              /\ f = [pkt |-> sent[Other(p)][i], idx |-> f.idx]
              /\ sent[Other(p)][i] \in Packet
              /\ f.idx \in 0..sent[Other(p)][i].size - 1
              /\ Ord24(f) = i - 1
              /\ Fragmented(f) => Cid16(f) = sent[Other(p)][i].comp
<1> DEFINE q == Other(p)
<1>1. q \in Peer /\ Other(q) = p
  BY OtherPeer
<1>2. f \in Frame
  BY FramesInFlightAreFrames
<1>3. PICK i \in 1..Len(sent[q]) : f.pkt = sent[q][i]
  BY <1>1 DEF OnlySent, SentBy
<1>4. f = [pkt |-> sent[q][i], idx |-> f.idx]
  BY <1>2, <1>3 DEF Frame
<1>5. sent[q][i] \in Packet /\ f.idx \in 0..sent[q][i].size - 1
  BY <1>2, <1>3 DEF Frame, Packet
<1>6. Ord24(f) = i - 1
  <2>1. Len(sent[q]) \in Nat /\ Len(sent[q]) <= IndexMod
    BY <1>1 DEF TypeOK, Unwrapped
  <2>2. f.pkt.ord = i - 1 /\ i - 1 \in Nat /\ i - 1 < IndexMod
    BY <1>3, <2>1, WidthsArePositive DEF Numbered
  <2>3. QED
    BY <2>2, Reduced, WidthsArePositive DEF Ord24
<1>7. ASSUME Fragmented(f)
      PROVE  Cid16(f) = sent[q][i].comp
  <2>1. /\ f.pkt.comp = sent[q][i].comp /\ sent[q][i].comp \in Nat
        /\ sent[q][i].comp < compoundId[q]
    BY <1>3, <1>5, <1>7 DEF Fragmented, Numbered, Packet
  <2>2. compoundId[q] \in Nat /\ compoundId[q] <= CompoundMod
    BY <1>1 DEF TypeOK, Unwrapped
  <2>3. sent[q][i].comp < CompoundMod
    BY <2>1, <2>2, WidthsArePositive
  <2>4. QED
    BY <2>1, <2>3, Reduced, WidthsArePositive DEF Cid16
<1>8. QED
  BY <1>4, <1>5, <1>6, <1>7

(* The buffer the fragment goes to holds fragments of the same payload.    *)
LEMMA BufferFaithful ==
    ASSUME TypeOK, NEW p \in Peer, NEW f, NEW i \in 1..Len(sent[Other(p)]),
           Numbered(Other(p)), BuffersFaithful(p), Fragmented(f),
           f = [pkt |-> sent[Other(p)][i], idx |-> f.idx],
           Cid16(f) = sent[Other(p)][i].comp
    PROVE  BufferOf(BufferWith(p, f), sent[Other(p)][i])
<1> DEFINE x == sent[Other(p)][i]
           old == IF Cid16(f) \in DOMAIN fragments[p] THEN fragments[p][Cid16(f)]
                  ELSE [size |-> f.pkt.size, parts |-> <<>>]
<1>1. BufferOf(old, x)
  <2>1. CASE Cid16(f) \in DOMAIN fragments[p]
    <3>1. PICK j \in 1..Len(sent[Other(p)]) :
            /\ sent[Other(p)][j].size > 1
            /\ sent[Other(p)][j].comp = Cid16(f)
            /\ BufferOf(fragments[p][Cid16(f)], sent[Other(p)][j])
      BY <2>1 DEF BuffersFaithful
    <3>2. sent[Other(p)][i].size > 1
      BY DEF Fragmented
    <3>3. i = j
      BY <3>1, <3>2, SMTT(60) DEF Numbered
    <3>4. QED
      BY <2>1, <3>1, <3>3
  <2>2. CASE Cid16(f) \notin DOMAIN fragments[p]
    <3>1. old.size = x.size /\ old.parts = <<>>
      BY <2>2
    <3>2. \A k \in DOMAIN old.parts : FALSE
      BY <3>1
    <3> HIDE DEF old, x
    <3>3. QED
      BY <3>1, <3>2 DEF BufferOf
  <2>3. QED
    BY <2>1, <2>2
<1>2. BufferWith(p, f) = [size |-> old.size, parts |-> Put(old.parts, f.idx, f)]
  BY DEF BufferWith
<1>3. f = [pkt |-> x, idx |-> f.idx]
  OBVIOUS
<1> HIDE DEF old, x
<1>4. BufferOf(BufferWith(p, f), x)
  BY <1>1, <1>2, <1>3 DEF BufferOf, Put
<1>5. QED
  BY <1>4 DEF x

(* What the frame completes is the payload it was cut from.                *)
LEMMA PayloadFaithful ==
    ASSUME TypeOK, NEW p \in Peer, NEW f, NEW i \in 1..Len(sent[Other(p)]),
           Numbered(Other(p)), BuffersFaithful(p), Reassembled(p, f),
           f = [pkt |-> sent[Other(p)][i], idx |-> f.idx],
           sent[Other(p)][i] \in Packet,
           f.idx \in 0..sent[Other(p)][i].size - 1,
           Fragmented(f) => Cid16(f) = sent[Other(p)][i].comp
    PROVE  PayloadOf(p, f) = Whole(sent[Other(p)][i])
<1> DEFINE x == sent[Other(p)][i]
<1>1. x.size \in Nat \ {0} /\ f.pkt = x
  BY DEF Packet
<1>2. CASE Fragmented(f)
  <2> DEFINE buf == BufferWith(p, f)
  <2>1. BufferOf(buf, x) /\ Joins(buf)
    BY <1>2, BufferFaithful DEF Reassembled
  <2>2. PayloadOf(p, f) = [k \in 1..buf.size |-> buf.parts[k - 1]]
    BY <1>2 DEF PayloadOf
  <2> HIDE DEF buf, x
  <2>3. \A k \in 1..x.size : buf.parts[k - 1] = [pkt |-> x, idx |-> k - 1]
    BY <1>1, <2>1 DEF BufferOf, Joins
  <2>4. PayloadOf(p, f) = [k \in 1..x.size |-> [pkt |-> x, idx |-> k - 1]]
    BY <2>1, <2>2, <2>3 DEF BufferOf
  <2>5. QED
    BY <2>4 DEF Whole, x
<1>3. CASE ~Fragmented(f)
  <2>1. x.size = 1 /\ f.idx = 0
    BY <1>1, <1>3 DEF Fragmented
  <2>2. PayloadOf(p, f) = <<f>> /\ f = [pkt |-> x, idx |-> 0]
    BY <1>3, <2>1 DEF PayloadOf
  <2> HIDE DEF x
  <2>3. <<f>> = [k \in 1..1 |-> [pkt |-> x, idx |-> k - 1]]
    BY <2>2
  <2>4. PayloadOf(p, f) = Whole(x)
    BY <2>1, <2>2, <2>3 DEF Whole
  <2>5. QED
    BY <2>4 DEF x
<1>4. QED
  BY <1>2, <1>3

(* A step of the receiver keeps what it holds faithful to what was sent.   *)
LEMMA BuffersKept ==
    ASSUME TypeOK, NEW p \in Peer, NEW f \in FramesInFlight(p), StoreFragment(p, f),
           Numbered(Other(p)), OnlySent(Other(p)), Unwrapped(Other(p)),
           BuffersFaithful(p), sent'[Other(p)] = sent[Other(p)]
    PROVE  BuffersFaithful(p)'
<1>1. CASE Fragmented(f)
  <2>1. PICK i \in 1..Len(sent[Other(p)]) :
          /\ f = [pkt |-> sent[Other(p)][i], idx |-> f.idx]
          /\ Cid16(f) = sent[Other(p)][i].comp
    BY <1>1, KnownFrame
  <2>2. BufferOf(BufferWith(p, f), sent[Other(p)][i])
    BY <1>1, <2>1, BufferFaithful
  <2>3. sent[Other(p)][i].size > 1
    BY <1>1, <2>1 DEF Fragmented
  <2>4. fragments'[p] = Put(fragments[p], Cid16(f), BufferWith(p, f))
    BY <1>1 DEF StoreFragment, TypeOK
  <2>5. ASSUME NEW c \in DOMAIN fragments'[p]
        PROVE  \E j \in 1..Len(sent[Other(p)]) :
                  /\ sent[Other(p)][j].size > 1
                  /\ sent[Other(p)][j].comp = c
                  /\ BufferOf(fragments'[p][c], sent[Other(p)][j])
    <3>1. CASE c = Cid16(f)
      BY <2>1, <2>2, <2>3, <2>4, <3>1 DEF Put
    <3>2. CASE c # Cid16(f)
      <4>1. c \in DOMAIN fragments[p] /\ fragments'[p][c] = fragments[p][c]
        BY <2>4, <3>2 DEF Put
      <4>2. QED
        BY <4>1 DEF BuffersFaithful
    <3>3. QED
      BY <3>1, <3>2
  <2>6. QED
    BY <2>5 DEF BuffersFaithful, BufferOf
<1>2. CASE ~Fragmented(f)
  <2>1. fragments' = fragments
    BY <1>2 DEF StoreFragment
  <2>2. QED
    BY <2>1 DEF BuffersFaithful, BufferOf
<1>3. QED
  BY <1>1, <1>2

(* A payload put into the reordering queue is one that was sent.           *)
LEMMA EarlyKept ==
    ASSUME TypeOK, NEW p \in Peer, NEW f \in FramesInFlight(p), Early(p, f),
           Numbered(Other(p)), OnlySent(Other(p)), Unwrapped(Other(p)),
           Faithful(p), sent'[Other(p)] = sent[Other(p)]
    PROVE  (QueueFaithful(p) /\ ProcessesAsSent(p))'
<1>1. PICK i \in 1..Len(sent[Other(p)]) :
        /\ Ord24(f) = i - 1
        /\ PayloadOf(p, f) = Whole(sent[Other(p)][i])
  BY KnownFrame, PayloadFaithful DEF Early, Faithful
<1>2. orderedQueue'[p] = Put(orderedQueue[p], Ord24(f), PayloadOf(p, f))
  BY DEF Early, TypeOK
<1>3. Len(sent[Other(p)]) \in Nat
  BY OtherPeer DEF TypeOK
<1>4. ASSUME NEW o \in DOMAIN orderedQueue'[p]
      PROVE  /\ o < Len(sent[Other(p)])
             /\ orderedQueue'[p][o] = Whole(sent[Other(p)][o + 1])
  <2>1. CASE o = Ord24(f)
    <3>1. i \in Int /\ o + 1 = i /\ o < Len(sent[Other(p)])
      BY <1>1, <1>3, <2>1
    <3>2. orderedQueue'[p][o] = Whole(sent[Other(p)][i])
      BY <1>1, <1>2, <2>1 DEF Put
    <3>3. QED
      BY <3>1, <3>2
  <2>2. CASE o # Ord24(f)
    <3>1. o \in DOMAIN orderedQueue[p] /\ orderedQueue'[p][o] = orderedQueue[p][o]
      BY <1>2, <2>2 DEF Put
    <3>2. QED
      BY <3>1 DEF Faithful, QueueFaithful
  <2>3. QED
    BY <2>1, <2>2
<1>5. QED
  BY <1>4 DEF Faithful, QueueFaithful, ProcessesAsSent, Early, Whole

(* The payloads of a run are the next ones that were sent.                 *)
LEMMA RunFaithful ==
    ASSUME TypeOK, NEW p \in Peer, NEW f \in FramesInFlight(p),
           NEW next \in 1..IndexMod, InOrder(p, f, next),
           Numbered(Other(p)), OnlySent(Other(p)), Unwrapped(Other(p)), Faithful(p)
    PROVE  /\ Run(p, f, next) \in Seq(Payload)
           /\ \A k \in 1..Len(Run(p, f, next)) :
                 /\ Len(processed[p]) + k <= Len(sent[Other(p)])
                 /\ Run(p, f, next)[k] = Whole(sent[Other(p)][Len(processed[p]) + k])
<1> DEFINE e == Len(processed[p])
           run == Run(p, f, next)
<1>1. f \in Frame
  BY FramesInFlightAreFrames
<1>2. /\ run \in Seq(Payload)
      /\ Len(run) = next - e
      /\ run[1] = PayloadOf(p, f)
      /\ \A i \in 2..next - e : run[i] = orderedQueue[p][e + i - 1]
  BY <1>1, RunTypes DEF InOrder
<1>3. PICK i \in 1..Len(sent[Other(p)]) :
        /\ Ord24(f) = i - 1
        /\ PayloadOf(p, f) = Whole(sent[Other(p)][i])
  BY KnownFrame, PayloadFaithful DEF InOrder, Faithful
<1>4. Ord24(f) = e /\ e + 1 .. next - 1 \subseteq DOMAIN orderedQueue[p] /\ next > e
  BY DEF InOrder
<1>5. e \in Nat /\ next \in Nat /\ Len(sent[Other(p)]) \in Nat
  BY OtherPeer, WidthsArePositive, SMTT(60) DEF TypeOK
<1>6. \A o \in DOMAIN orderedQueue[p] :
         o < Len(sent[Other(p)]) /\ orderedQueue[p][o] = Whole(sent[Other(p)][o + 1])
  BY DEF Faithful, QueueFaithful
<1> HIDE DEF e, run
<1>7. ASSUME NEW k \in 1..Len(run)
      PROVE  e + k <= Len(sent[Other(p)]) /\ run[k] = Whole(sent[Other(p)][e + k])
  <2>1. CASE k = 1
    <3>1. e + k = i
      BY <1>3, <1>4, <1>5, <2>1
    <3>2. QED
      BY <1>2, <1>3, <1>5, <2>1, <3>1
  <2>2. CASE k # 1
    <3>1. k \in 2..next - e /\ e + k - 1 \in e + 1 .. next - 1 /\ (e + k - 1) + 1 = e + k
      BY <1>2, <1>5, <2>2
    <3>2. e + k - 1 < Len(sent[Other(p)])
      BY <1>4, <1>6, <3>1
    <3>3. run[k] = Whole(sent[Other(p)][(e + k - 1) + 1])
      BY <1>2, <1>4, <1>6, <3>1
    <3>4. QED
      BY <1>5, <3>1, <3>2, <3>3
  <2>3. QED
    BY <2>1, <2>2
<1>8. QED
  BY <1>2, <1>7 DEF e, run

(* A prefix of what was sent, followed by what was sent next.              *)
LEMMA PrefixGrows ==
    ASSUME NEW s, NEW d \in Seq(Payload), NEW r \in Seq(Payload),
           \A i \in 1..Len(d) : i <= Len(s) /\ d[i] = Whole(s[i]),
           \A k \in 1..Len(r) : /\ Len(d) + k <= Len(s)
                                /\ r[k] = Whole(s[Len(d) + k])
    PROVE  \A i \in 1..Len(d \o r) : i <= Len(s) /\ (d \o r)[i] = Whole(s[i])
<1> DEFINE u == d \o r
<1>1. /\ \A i \in 1..Len(d) : u[i] = d[i]
      /\ \A i \in 1..Len(u) \ 1..Len(d) :
            \E k \in 1..Len(r) : i = Len(d) + k /\ u[i] = r[k]
  BY ConcatParts
<1> HIDE DEF u
<1>2. \A i \in 1..Len(u) : i <= Len(s) /\ u[i] = Whole(s[i])
  BY <1>1
<1>3. QED
  BY <1>2 DEF u

(* Processing a run keeps queue and processed payloads faithful.           *)
LEMMA InOrderKept ==
    ASSUME TypeOK, NEW p \in Peer, NEW f \in FramesInFlight(p),
           NEW next \in 1..IndexMod, InOrder(p, f, next),
           Numbered(Other(p)), OnlySent(Other(p)), Unwrapped(Other(p)),
           Faithful(p), sent'[Other(p)] = sent[Other(p)]
    PROVE  (QueueFaithful(p) /\ ProcessesAsSent(p))'
<1> DEFINE run == Run(p, f, next)
<1>1. /\ run \in Seq(Payload)
      /\ \A k \in 1..Len(run) :
            /\ Len(processed[p]) + k <= Len(sent[Other(p)])
            /\ run[k] = Whole(sent[Other(p)][Len(processed[p]) + k])
  BY RunFaithful
<1>2. processed'[p] = processed[p] \o run /\ processed[p] \in Seq(Payload)
  BY DEF InOrder, TypeOK
<1>3. orderedQueue'[p] = [o \in DOMAIN orderedQueue[p] \ (Len(processed[p]) + 1 .. next - 1)
                             |-> orderedQueue[p][o]]
  BY DEF InOrder, TypeOK
<1>4. QueueFaithful(p)'
  BY <1>3 DEF Faithful, QueueFaithful, Whole
<1> HIDE DEF run
<1>5. \A i \in 1..Len(processed'[p]) :
         /\ i <= Len(sent[Other(p)])
         /\ processed'[p][i] = Whole(sent[Other(p)][i])
  <2>1. \A i \in 1..Len(processed[p]) :
           /\ i <= Len(sent[Other(p)])
           /\ processed[p][i] = Whole(sent[Other(p)][i])
    BY DEF Faithful, ProcessesAsSent
  <2>2. \A i \in 1..Len(processed[p] \o run) :
           /\ i <= Len(sent[Other(p)])
           /\ (processed[p] \o run)[i] = Whole(sent[Other(p)][i])
    BY <1>1, <1>2, <2>1, PrefixGrows
  <2>3. QED
    BY <1>2, <2>2
<1>6. ProcessesAsSent(p)'
  BY <1>5 DEF ProcessesAsSent, Whole
<1>7. QED
  BY <1>4, <1>6

(* Whatever a receiver does, it stays faithful to what was sent.           *)
LEMMA ReceiverKeepsFaithful ==
    ASSUME TypeOK, NEW p \in Peer, ReceiverStep(p),
           Numbered(Other(p)), OnlySent(Other(p)), Unwrapped(Other(p)),
           Faithful(p), sent'[Other(p)] = sent[Other(p)]
    PROVE  Faithful(p)'
<1>1. CASE UNCHANGED receiveState
  BY <1>1 DEF receiveState, Faithful, BuffersFaithful, BufferOf, QueueFaithful,
              ProcessesAsSent, Whole
<1>2. ASSUME NEW f \in FramesInFlight(p), StoreFragment(p, f),
             \/ UNCHANGED <<orderedQueue, processed>>
             \/ Early(p, f)
             \/ \E next \in 1..IndexMod : InOrder(p, f, next)
      PROVE  Faithful(p)'
  <2>1. BuffersFaithful(p)'
    BY <1>2, BuffersKept DEF Faithful
  <2>2. (QueueFaithful(p) /\ ProcessesAsSent(p))'
    <3>1. CASE UNCHANGED <<orderedQueue, processed>>
      BY <3>1 DEF Faithful, QueueFaithful, ProcessesAsSent, Whole
    <3>2. QED
      BY <1>2, <3>1, EarlyKept, InOrderKept
  <2>3. QED
    BY <2>1, <2>2 DEF Faithful
<1>3. QED
  BY <1>1, <1>2 DEF ReceiverStep

(* A step of the other peer leaves p alone and adds to what p may be sent. *)
LEMMA OthersAlone ==
    ASSUME TypeOK, NEW a \in Peer, ReceiverStep(a), NEW p \in Peer, p # a
    PROVE  /\ fragments'[p] = fragments[p]
           /\ orderedQueue'[p] = orderedQueue[p]
           /\ processed'[p] = processed[p]
<1>1. CASE UNCHANGED receiveState
  BY <1>1 DEF receiveState
<1>2. ASSUME NEW f, StoreFragment(a, f)
      PROVE  fragments'[p] = fragments[p]
  BY <1>2 DEF StoreFragment, TypeOK
<1>3. ASSUME NEW f, Early(a, f)
      PROVE  orderedQueue'[p] = orderedQueue[p] /\ processed'[p] = processed[p]
  BY <1>3 DEF Early, TypeOK
<1>4. ASSUME NEW f, NEW next, InOrder(a, f, next)
      PROVE  orderedQueue'[p] = orderedQueue[p] /\ processed'[p] = processed[p]
  BY <1>4 DEF InOrder, TypeOK
<1>5. QED
  BY <1>1, <1>2, <1>3, <1>4 DEF ReceiverStep

(* What a receiver holds stays faithful when the sender sends more.        *)
LEMMA SenderKeepsFaithful ==
    ASSUME TypeOK, NEW p \in Peer, Faithful(p), Grows(Other(p)),
           Len(sent'[Other(p)]) \in Nat,
           fragments'[p] = fragments[p],
           orderedQueue'[p] = orderedQueue[p],
           processed'[p] = processed[p]
    PROVE  Faithful(p)'
<1> DEFINE s == sent[Other(p)]
           t == sent'[Other(p)]
<1>1. \A i \in 1..Len(s) : i \in 1..Len(t) /\ t[i] = s[i]
  BY DEF Grows
<1>2. BuffersFaithful(p)'
  <2>1. ASSUME NEW c \in DOMAIN fragments[p]
        PROVE  \E i \in 1..Len(t) : /\ t[i].size > 1 /\ t[i].comp = c
                                    /\ BufferOf(fragments[p][c], t[i])
    BY <1>1 DEF Faithful, BuffersFaithful
  <2>2. QED
    BY <2>1 DEF BuffersFaithful, BufferOf
<1>3. QueueFaithful(p)'
  <2>1. ASSUME NEW o \in DOMAIN orderedQueue[p]
        PROVE  o < Len(t) /\ orderedQueue[p][o] = Whole(t[o + 1])
    <3>1. o < Len(s) /\ orderedQueue[p][o] = Whole(s[o + 1])
      BY DEF Faithful, QueueFaithful
    <3>2. o \in Nat /\ Len(s) \in Nat
      BY OtherPeer DEF TypeOK, IsDict
    <3>3. o + 1 \in 1..Len(s)
      BY <3>1, <3>2
    <3>4. QED
      BY <1>1, <3>1, <3>2, <3>3 DEF Grows
  <2>2. QED
    BY <2>1 DEF QueueFaithful, Whole
<1>4. ProcessesAsSent(p)'
  <2>1. ASSUME NEW i \in 1..Len(processed[p])
        PROVE  i <= Len(t) /\ processed[p][i] = Whole(t[i])
    BY <1>1 DEF Faithful, ProcessesAsSent, Grows
  <2>2. QED
    BY <2>1 DEF ProcessesAsSent, Whole
<1>5. QED
  BY <1>2, <1>3, <1>4 DEF Faithful

-----------------------------------------------------------------------------
(* The invariant.                                                          *)

(* The invariant holds at first.                                           *)
LEMMA InvInitially == Init => ChannelInv
<1> SUFFICES ASSUME Init PROVE ChannelInv
  OBVIOUS
<1>1. TypeOK
  BY TypesInitially
<1>2. ASSUME NEW q \in Peer
      PROVE  Numbered(q) /\ OnlySent(q) /\ Faithful(Other(q))
  <2>1. /\ sent[q] = <<>> /\ recovery[q] = {} /\ net[Other(q)] = EmptyBag
        /\ fragments[Other(q)] = <<>> /\ orderedQueue[Other(q)] = <<>>
        /\ processed[Other(q)] = <<>>
    BY OtherPeer DEF Init
  <2>2. InFlight(Other(q)) = {}
    BY <2>1 DEF InFlight, BagToSet, EmptyBag, SetToBag
  <2>3. OnlySent(q)
    BY <2>1, <2>2 DEF OnlySent, FramesInFlight
  <2>4. Numbered(q)
    BY <2>1 DEF Numbered
  <2>5. Faithful(Other(q))
    BY <2>1 DEF Faithful, BuffersFaithful, QueueFaithful, ProcessesAsSent
  <2>6. QED
    BY <2>3, <2>4, <2>5
<1>3. QED
  BY <1>1, <1>2 DEF ChannelInv

(* Every step keeps the invariant.                                         *)
LEMMA InvPreserved == ChannelInv /\ [Next]_vars => ChannelInv'
<1> SUFFICES ASSUME ChannelInv, [Next]_vars PROVE ChannelInv'
  OBVIOUS
<1>1. TypeOK /\ TypeOK'
  BY TypesPreserved DEF ChannelInv
<1>2. CASE UNCHANGED vars
  <2>1. \A q \in Peer : /\ Numbered(q)' <=> Numbered(q)
                        /\ OnlySent(q)' <=> OnlySent(q)
                        /\ Unwrapped(q)' <=> Unwrapped(q)
    BY <1>2 DEF vars, Numbered, OnlySent, SentBy, FramesInFlight, InFlight, Unwrapped
  <2>2. \A q : Faithful(Other(q)) => Faithful(Other(q))'
    BY <1>2 DEF vars, Faithful, BuffersFaithful, BufferOf, QueueFaithful,
                ProcessesAsSent, Whole
  <2>3. QED
    BY <1>1, <2>1, <2>2 DEF ChannelInv
<1>3. CASE Next
  <2>1. PICK a \in Peer : StepOf(a)
    BY <1>1, <1>3, StepShape
  <2>2. ASSUME NEW q \in Peer
        PROVE  Numbered(q)' /\ OnlySent(q)' /\ (Unwrapped(q)' => Faithful(Other(q))')
    <3>1. /\ Numbered(q)' /\ Grows(q) /\ (Unwrapped(q)' => Unwrapped(q))
          /\ q # a => sent'[q] = sent[q]
      BY <1>1, <2>1, SenderKeepsNumbers DEF StepOf, ChannelInv
    <3>2. OnlySent(q)'
      BY <1>1, <2>1, OnlySentKept DEF StepOf, ChannelInv
    <3>3. ASSUME Unwrapped(q)'
          PROVE  Faithful(Other(q))'
      <4>1. Unwrapped(q) /\ Numbered(q) /\ OnlySent(q) /\ Faithful(Other(q))
        BY <3>1, <3>3 DEF ChannelInv
      <4>2. Other(q) \in Peer /\ Other(Other(q)) = q /\ Other(q) # q
        BY OtherPeer
      <4>3. CASE q = a
        <5>1. sent' \in [Peer -> Seq(Packet)]
          BY <1>1 DEF TypeOK
        <5>2. Len(sent'[q]) \in Nat
          BY <5>1
        <5>3. QED
          BY <1>1, <2>1, <3>1, <4>1, <4>2, <4>3, <5>2, OthersAlone, SenderKeepsFaithful
             DEF StepOf
      <4>4. CASE q # a
        <5>1. Other(q) = a
          BY <4>2, <4>4 DEF Peer
        <5>2. QED
          BY <1>1, <2>1, <3>1, <4>1, <4>2, <4>4, <5>1, ReceiverKeepsFaithful DEF StepOf
      <4>5. QED
        BY <4>3, <4>4
    <3>4. QED
      BY <3>1, <3>2, <3>3
  <2>3. QED
    BY <1>1, <2>2 DEF ChannelInv
<1>4. QED
  BY <1>2, <1>3

(* The invariant holds in every reachable state: the numbering, the        *)
(* buffers, the reordering queue and the processed payloads agree with     *)
(* what was sent, until a counter of the sender wraps.                     *)
THEOREM Invariant == Spec => []ChannelInv
<1>1. ChannelInv /\ [Next]_vars => ChannelInv'
  BY InvPreserved
<1>2. QED
  BY InvInitially, <1>1, PTL DEF Spec

(* Exactly once and in order: whatever datagrams are lost, duplicated or   *)
(* overtaken, and however payloads are cut up, an endpoint processes the   *)
(* payloads of the other one whole, once each, in the order of _send_frame.*)
THEOREM OrderedDelivery == Spec => []InOrderExactlyOnce
<1>1. ChannelInv => InOrderExactlyOnce
  <2> SUFFICES ASSUME ChannelInv, NEW p \in Peer, Unwrapped(Other(p))
               PROVE  ProcessesAsSent(p)
    BY DEF InOrderExactlyOnce
  <2>1. Other(p) \in Peer /\ Other(Other(p)) = p
    BY OtherPeer
  <2>2. QED
    BY <2>1 DEF ChannelInv, Faithful
<1>2. QED
  BY Invariant, <1>1, PTL

(* A payload dropped as "duplicate, ignore" has been processed before.     *)
THEOREM OnlyDuplicatesDropped == Spec => []StaleIsDuplicate
<1>1. ChannelInv => StaleIsDuplicate
  <2> SUFFICES ASSUME ChannelInv, NEW p \in Peer, Unwrapped(Other(p)),
                      NEW f \in FramesInFlight(p),
                      Ord24(f) < Len(processed[p])
               PROVE  \E n \in DOMAIN processed[p] :
                         \E i \in DOMAIN processed[p][n] : processed[p][n][i] = f
    BY DEF StaleIsDuplicate, DropsOnlyDuplicates
  <2>1. Other(p) \in Peer /\ Other(Other(p)) = p
    BY OtherPeer
  <2>2. TypeOK /\ Numbered(Other(p)) /\ OnlySent(Other(p)) /\ ProcessesAsSent(p)
    BY <2>1 DEF ChannelInv, Faithful
  <2>3. PICK n \in 1..Len(sent[Other(p)]) :
          /\ f = [pkt |-> sent[Other(p)][n], idx |-> f.idx]
          /\ sent[Other(p)][n] \in Packet
          /\ f.idx \in 0..sent[Other(p)][n].size - 1
          /\ Ord24(f) = n - 1
    BY <2>2, KnownFrame
  <2>4. processed[p] \in Seq(Payload) /\ Len(processed[p]) \in Nat
    BY <2>2 DEF TypeOK
  <2>5. n \in 1..Len(processed[p])
    BY <2>3, <2>4
  <2>6. processed[p][n] = Whole(sent[Other(p)][n])
    BY <2>2, <2>5 DEF ProcessesAsSent
  <2>7. sent[Other(p)][n].size \in Nat /\ f.idx + 1 \in 1..sent[Other(p)][n].size
    BY <2>3, SMTT(60) DEF Packet
  <2>8. /\ f.idx + 1 \in DOMAIN processed[p][n]
        /\ processed[p][n][f.idx + 1] = [pkt |-> sent[Other(p)][n], idx |-> (f.idx + 1) - 1]
    BY <2>6, <2>7 DEF Whole
  <2>9. (f.idx + 1) - 1 = f.idx
    BY <2>3
  <2>10. QED
    BY <2>3, <2>4, <2>5, <2>8, <2>9
<1>2. QED
  BY Invariant, <1>1, PTL

-----------------------------------------------------------------------------
(* Refinement.                                                             *)

Outgoing == [p \in Peer |-> [i \in DOMAIN sent[p] |-> Whole(sent[p][i])]]

Prefix(s, t) == Len(s) <= Len(t) /\ \A i \in 1..Len(s) : t[i] = s[i]

(* A receiver only ever adds to what it has processed.                     *)
LEMMA ProcessedGrows ==
    ASSUME TypeOK, NEW p \in Peer, ReceiverStep(p)
    PROVE  Prefix(processed[p], processed'[p])
<1>1. processed[p] \in Seq(Payload) /\ Len(processed[p]) \in Nat
  BY DEF TypeOK
<1>2. CASE processed'[p] = processed[p]
  BY <1>1, <1>2 DEF Prefix
<1>3. ASSUME NEW f \in FramesInFlight(p), NEW next \in 1..IndexMod, InOrder(p, f, next)
      PROVE  Prefix(processed[p], processed'[p])
  <2>1. f \in Frame
    BY FramesInFlightAreFrames
  <2>2. Run(p, f, next) \in Seq(Payload)
    BY <1>3, <2>1, RunTypes DEF InOrder
  <2>3. processed'[p] = processed[p] \o Run(p, f, next)
    BY <1>3 DEF InOrder, TypeOK
  <2>4. \A r \in Seq(Payload) : Prefix(processed[p], processed[p] \o r)
    BY <1>1, ConcatParts DEF Prefix
  <2>5. QED
    BY <2>2, <2>3, <2>4
<1>4. QED
  BY <1>2, <1>3 DEF ReceiverStep, Early, receiveState

(* The abstract queue holds the whole payloads that were sent.             *)
LEMMA OutgoingIs ==
    ASSUME TypeOK, NEW p \in Peer
    PROVE  /\ Len(sent[p]) \in Nat
           /\ Len(Outgoing[p]) = Len(sent[p])
           /\ \A i \in 1..Len(sent[p]) : Outgoing[p][i] = Whole(sent[p][i])
<1>1. sent[p] \in Seq(Packet) /\ Outgoing[p] = [i \in DOMAIN sent[p] |-> Whole(sent[p][i])]
  BY DEF TypeOK, Outgoing
<1>2. DOMAIN sent[p] = 1..Len(sent[p]) /\ Len(sent[p]) \in Nat
  BY <1>1
<1>3. QED
  BY <1>1, <1>2

(* A step is one exchange of the abstract channel.                         *)
LEMMA StepExchanges ==
    ASSUME ChannelInv, ChannelInv', Next, \A q \in Peer : Unwrapped(q)'
    PROVE  \E a \in Peer :
              /\ \A d \in Peer \ {a} : /\ Outgoing'[d] = Outgoing[d]
                                       /\ processed'[d] = processed[d]
              /\ Prefix(Outgoing[a], Outgoing'[a])
              /\ Prefix(processed[a], processed'[a])
              /\ Prefix(processed'[a], Outgoing[Other(a)])
<1>1. TypeOK /\ TypeOK'
  BY DEF ChannelInv
<1>2. PICK a \in Peer : StepOf(a)
  BY <1>1, StepShape
<1>3. \A q \in Peer : Grows(q) /\ (q # a => sent'[q] = sent[q])
  BY <1>1, <1>2, SenderKeepsNumbers DEF StepOf, ChannelInv
<1>4. \A d \in Peer \ {a} : Outgoing'[d] = Outgoing[d] /\ processed'[d] = processed[d]
  <2>1. \A d \in Peer \ {a} : processed'[d] = processed[d]
    BY <1>1, <1>2, OthersAlone DEF StepOf
  <2>2. \A d \in Peer \ {a} : Outgoing'[d] = Outgoing[d]
    BY <1>3 DEF Outgoing, Whole
  <2>3. QED
    BY <2>1, <2>2
<1>5. /\ Len(sent'[a]) \in Nat /\ Len(Outgoing'[a]) = Len(sent'[a])
      /\ \A i \in 1..Len(sent'[a]) : Outgoing'[a][i] = Whole(sent'[a][i])
  <2>1. sent' \in [Peer -> Seq(Packet)]
    BY <1>1 DEF TypeOK
  <2>2. sent'[a] \in Seq(Packet)
    BY <2>1
  <2>3. Outgoing'[a] = [i \in DOMAIN sent'[a] |-> Whole(sent'[a][i])]
    BY DEF Outgoing, Whole
  <2>4. DOMAIN sent'[a] = 1..Len(sent'[a]) /\ Len(sent'[a]) \in Nat
    BY <2>2
  <2>5. QED
    BY <2>3, <2>4
<1>6. Prefix(Outgoing[a], Outgoing'[a])
  BY <1>1, <1>3, <1>5, OutgoingIs DEF Prefix, Grows
<1>7. Prefix(processed[a], processed'[a])
  BY <1>1, <1>2, ProcessedGrows DEF StepOf
<1>8. Prefix(processed'[a], Outgoing[Other(a)])
  <2>1. Other(a) \in Peer /\ Other(Other(a)) = a /\ Other(a) # a
    BY OtherPeer
  <2>2. ProcessesAsSent(a)'
    BY <2>1 DEF ChannelInv, Faithful
  <2>3. \A i \in 1..Len(processed'[a]) :
           i <= Len(sent[Other(a)]) /\ processed'[a][i] = Whole(sent[Other(a)][i])
    BY <1>3, <2>1, <2>2 DEF ProcessesAsSent, Whole
  <2>4. processed' \in [Peer -> Seq(Payload)]
    BY <1>1 DEF TypeOK
  <2>5. Len(processed'[a]) \in Nat
    BY <2>4
  <2>6. Len(processed'[a]) <= Len(sent[Other(a)])
    <3>1. Len(sent[Other(a)]) \in Nat
      BY <1>1, <2>1, OutgoingIs
    <3>2. CASE Len(processed'[a]) = 0
      BY <3>1, <3>2
    <3>3. CASE Len(processed'[a]) # 0
      BY <2>3, <2>5, <3>3
    <3>4. QED
      BY <3>2, <3>3
  <2>7. QED
    BY <1>1, <2>1, <2>3, <2>5, <2>6, OutgoingIs DEF Prefix
<1>9. QED
  BY <1>4, <1>6, <1>7, <1>8

(* Refinement: while no counter wraps, the reliability layer is a queue in *)
(* each direction.  Every step of either connection or of the network is   *)
(* one exchange of the abstract channel or changes nothing it can see.     *)
THEOREM Refinement ==
    Spec /\ [](\A q \in Peer : Unwrapped(q)) => ImplementsChannel
<1>1. Init => Channel!Init
  <2> SUFFICES ASSUME Init PROVE Channel!Init
    OBVIOUS
  <2>1. Outgoing = [e \in Peer |-> <<>>]
    BY DEF Init, Outgoing
  <2>2. QED
    BY <2>1 DEF Init, Outgoing, Channel!Init
<1>2. /\ ChannelInv /\ ChannelInv' /\ [Next]_vars
      /\ (\A q \in Peer : Unwrapped(q))'
      => [Channel!Next]_(Channel!cvars)
  <2> SUFFICES ASSUME ChannelInv, ChannelInv', [Next]_vars,
                      (\A q \in Peer : Unwrapped(q))'
               PROVE  [Channel!Next]_(Channel!cvars)
    OBVIOUS
  <2>1. CASE Next
    <3>1. PICK a \in Peer :
            /\ \A d \in Peer \ {a} : /\ Outgoing'[d] = Outgoing[d]
                                     /\ processed'[d] = processed[d]
            /\ Prefix(Outgoing[a], Outgoing'[a])
            /\ Prefix(processed[a], processed'[a])
            /\ Prefix(processed'[a], Outgoing[Other(a)])
      BY <2>1, StepExchanges
    <3>2. Channel!Exchange(a)
      BY <3>1 DEF Channel!Exchange, Channel!Extends, Prefix, Outgoing
    <3>3. QED
      BY <3>2 DEF Channel!Next
  <2>2. CASE UNCHANGED vars
    BY <2>2 DEF vars, Channel!cvars, Whole
  <2>3. QED
    BY <2>1, <2>2
<1>3. QED
  BY <1>1, <1>2, Invariant, PTL DEF Spec, ImplementsChannel, Channel!Spec

-----------------------------------------------------------------------------
(* What leaves recovery.                                                   *)

(* p has the sequence number s in its queue for an ACK, or in one that is  *)
(* on its way.                                                             *)
Acks(p, s) ==
    \/ s \in ackQueue[p]
    \/ \E dg \in InFlight(Other(p)) : dg.kind = "ack" /\ s \in dg.seqs

(* a takes in the frame f.                                                 *)
Takes(a, f) ==
    /\ StoreFragment(a, f)
    /\ \/ Fragmented(f)
       \/ Ord24(f) < Len(processed[a]) /\ UNCHANGED processed
       \/ Early(a, f)
       \/ \E next \in 1..IndexMod : InOrder(a, f, next)

(* What a frees from recovery the other end has acknowledged, and a        *)
(* acknowledges what it has taken in.                                      *)
Frees(a) ==
    \A q \in Peer : \A f \in recovery[q] :
        f \in recovery'[q] \/ (q = a /\ Acks(Other(a), SeqNum(f)))

Acknowledges(a) ==
    /\ \A s : Acks(Other(a), s)' => Acks(Other(a), s)
    /\ \A s : Acks(a, s)' => \/ Acks(a, s)
                             \/ \E f \in FramesInFlight(a) : s = Seq24(f) /\ Takes(a, f)

ReleaseStep(a) == Frees(a) /\ Acknowledges(a)

(* How a transmission moves acknowledgements.                              *)
LEMMA AcksMove ==
    ASSUME TypeOK, NEW a \in Peer, NEW taken, NEW given, Transmit(a, taken, given),
           NEW S, ackQueue'[a] \subseteq ackQueue[a] \cup S,
           ackQueue'[Other(a)] = ackQueue[Other(a)],
           \A dg \in given : dg.kind = "ack" => \A s \in dg.seqs : Acks(a, s)
    PROVE  /\ \A s : Acks(Other(a), s)' => Acks(Other(a), s)
           /\ \A s : Acks(a, s)' => Acks(a, s) \/ s \in S
<1>1. /\ InFlight(a)' \subseteq InFlight(a)
      /\ InFlight(Other(a))' = InFlight(Other(a)) \cup given
  BY TransmitBags DEF TypeOK
<1>2. Other(Other(a)) = a
  BY OtherPeer
<1>3. ASSUME NEW s, Acks(Other(a), s)'
      PROVE  Acks(Other(a), s)
  <2>1. s \in ackQueue'[Other(a)] \/ \E dg \in InFlight(a)' : dg.kind = "ack" /\ s \in dg.seqs
    BY <1>2, <1>3 DEF Acks
  <2>2. s \in ackQueue[Other(a)] \/ \E dg \in InFlight(a) : dg.kind = "ack" /\ s \in dg.seqs
    BY <1>1, <2>1
  <2>3. QED
    BY <1>2, <2>2 DEF Acks
<1>4. ASSUME NEW s, Acks(a, s)'
      PROVE  Acks(a, s) \/ s \in S
  <2>1. s \in ackQueue'[a] \/ \E dg \in InFlight(Other(a))' : dg.kind = "ack" /\ s \in dg.seqs
    BY <1>4 DEF Acks
  <2>2. CASE s \in ackQueue'[a]
    BY <2>2 DEF Acks
  <2>3. ASSUME NEW dg \in InFlight(Other(a))', dg.kind = "ack", s \in dg.seqs
        PROVE  Acks(a, s)
    <3>1. dg \in InFlight(Other(a)) \/ dg \in given
      BY <1>1, <2>3
    <3>2. QED
      BY <2>3, <3>1 DEF Acks
  <2>4. QED
    BY <2>1, <2>2, <2>3
<1>5. QED
  BY <1>3, <1>4

(* A step that acknowledges nothing new.                                   *)
LEMMA NothingAcknowledged ==
    ASSUME TypeOK, NEW a \in Peer, NEW taken, NEW given, Transmit(a, taken, given),
           ackQueue'[a] \subseteq ackQueue[a], ackQueue'[Other(a)] = ackQueue[Other(a)],
           \A dg \in given : dg.kind = "ack" => \A s \in dg.seqs : Acks(a, s)
    PROVE  Acknowledges(a)
<1>1. ackQueue'[a] \subseteq ackQueue[a] \cup ackQueue[a]
  OBVIOUS
<1>2. /\ \A s : Acks(Other(a), s)' => Acks(Other(a), s)
      /\ \A s : Acks(a, s)' => Acks(a, s) \/ s \in ackQueue[a]
  BY <1>1, AcksMove
<1>3. \A s : Acks(a, s)' => Acks(a, s)
  BY <1>2 DEF Acks
<1>4. QED
  BY <1>2, <1>3 DEF Acknowledges

(* A step that acknowledges the frame it has taken in.                     *)
LEMMA FrameAcknowledged ==
    ASSUME TypeOK, NEW a \in Peer, NEW f \in FramesInFlight(a), NEW taken, NEW S,
           Transmit(a, taken, {FrameSet(h) : h \in S}), NoteSequence(a, f), Takes(a, f)
    PROVE  Acknowledges(a)
<1> DEFINE given == {FrameSet(h) : h \in S}
<1>1. \A dg \in given : dg.kind = "ack" => \A s \in dg.seqs : Acks(a, s)
  BY DEF FrameSet
<1>2. Transmit(a, taken, given)
  OBVIOUS
<1>3. /\ ackQueue'[a] \subseteq ackQueue[a] \cup {Seq24(f)}
      /\ ackQueue'[Other(a)] = ackQueue[Other(a)]
  BY OtherPeer DEF NoteSequence, TypeOK
<1> HIDE DEF given
<1>4. /\ \A s : Acks(Other(a), s)' => Acks(Other(a), s)
      /\ \A s : Acks(a, s)' => Acks(a, s) \/ s \in {Seq24(f)}
  BY <1>1, <1>2, <1>3, AcksMove
<1>5. QED
  BY <1>4 DEF Acknowledges

(* The acknowledgements of a tick are those of the queue.                  *)
LEMMA FlushedAcks ==
    ASSUME TypeOK, NEW p \in Peer
    PROVE  \A dg \in Acknowledgements(p) : dg.kind = "ack" => \A s \in dg.seqs : Acks(p, s)
BY DEF Acknowledgements, Acks

(* Each action, in turn, frees and acknowledges as it should.              *)
LEMMA SendFrees ==
    ASSUME TypeOK, NEW p \in Peer, NEW kind \in Kind, NEW size \in Nat \ {0},
           Send(p, kind, size)
    PROVE  ReleaseStep(p)
<1> DEFINE given == {FrameSet(f) : f \in FramesOf(PacketOf(p, kind, size))}
<1>1. Frees(p)
  BY DEF Send, SendFrame, Frees, TypeOK
<1>2. \A dg \in given : dg.kind = "ack" => \A s \in dg.seqs : Acks(p, s)
  BY DEF FrameSet
<1>3. Transmit(p, {}, given) /\ UNCHANGED ackQueue
  BY DEF Send
<1> HIDE DEF given
<1>4. Acknowledges(p)
  BY <1>2, <1>3, NothingAcknowledged
<1>5. QED
  BY <1>1, <1>4 DEF ReleaseStep

(* close() acknowledges what is in the queue.                              *)
LEMMA CloseFrees ==
    ASSUME TypeOK, NEW p \in Peer, Close(p)
    PROVE  ReleaseStep(p)
<1> DEFINE frames == {FrameSet(f) : f \in FramesOf(PacketOf(p, "disconnect", 1))}
<1>1. Frees(p)
  BY DEF Close, SendFrame, Frees, TypeOK
<1>2. \A dg \in frames : dg.kind # "ack"
  BY DEF FrameSet
<1>3. Transmit(p, {}, Acknowledgements(p) \cup frames)
  BY DEF Close
<1>4. ackQueue'[p] \subseteq ackQueue[p] /\ ackQueue'[Other(p)] = ackQueue[Other(p)]
  BY OtherPeer DEF Close, FlushAcks, TypeOK
<1> HIDE DEF frames
<1>5. \A dg \in Acknowledgements(p) \cup frames : dg.kind = "ack" => \A s \in dg.seqs : Acks(p, s)
  BY <1>2, FlushedAcks
<1>6. Acknowledges(p)
  BY <1>3, <1>4, <1>5, NothingAcknowledged
<1>7. QED
  BY <1>1, <1>6 DEF ReleaseStep

(* So does a tick.                                                         *)
LEMMA TickFrees ==
    ASSUME TypeOK, NEW p \in Peer, Tick(p)
    PROVE  ReleaseStep(p)
<1>1. Frees(p)
  BY DEF Tick, Frees
<1>2. ackQueue'[p] \subseteq ackQueue[p] /\ ackQueue'[Other(p)] = ackQueue[Other(p)]
  BY OtherPeer DEF Tick, FlushAcks, TypeOK
<1>3. Transmit(p, {}, Acknowledgements(p))
  BY DEF Tick
<1>4. Acknowledges(p)
  BY <1>2, <1>3, FlushedAcks, NothingAcknowledged
<1>5. QED
  BY <1>1, <1>4 DEF ReleaseStep

(* An ACK frees the frames it names.                                       *)
LEMMA AckFrees ==
    ASSUME TypeOK, NEW p \in Peer, ReceiveAck(p)
    PROVE  ReleaseStep(p)
<1>1. PICK dg \in InFlight(p) :
          /\ dg.kind = "ack"
          /\ Transmit(p, {dg}, {})
          /\ recovery' = [recovery EXCEPT ![p] = {f \in @ : SeqNum(f) \notin dg.seqs}]
          /\ UNCHANGED ackQueue
  BY DEF ReceiveAck
<1>2. \A s \in dg.seqs : Acks(Other(p), s)
  BY <1>1, OtherPeer DEF Acks
<1>3. Frees(p)
  BY <1>1, <1>2 DEF Frees, TypeOK
<1>4. Acknowledges(p)
  BY <1>1, NothingAcknowledged
<1>5. QED
  BY <1>3, <1>4 DEF ReleaseStep

(* A NACK frees nothing.                                                   *)
LEMMA NackFrees ==
    ASSUME TypeOK, NEW p \in Peer, ReceiveNack(p)
    PROVE  ReleaseStep(p)
<1>1. PICK dg \in InFlight(p) :
          /\ Transmit(p, {dg},
                      {FrameSet(f) : f \in {g \in recovery[p] : SeqNum(g) \in dg.seqs}})
          /\ UNCHANGED <<recovery, ackQueue>>
  BY DEF ReceiveNack
<1> DEFINE given == {FrameSet(f) : f \in {g \in recovery[p] : SeqNum(g) \in dg.seqs}}
<1>2. \A d \in given : d.kind = "ack" => \A s \in d.seqs : Acks(p, s)
  BY DEF FrameSet
<1>3. Transmit(p, {dg}, given)
  BY <1>1
<1> HIDE DEF given
<1>4. Acknowledges(p)
  BY <1>1, <1>2, <1>3, NothingAcknowledged
<1>5. QED
  BY <1>1, <1>4 DEF ReleaseStep, Frees

(* A frame that is answered with nothing.                                  *)
LEMMA QuietFrees ==
    ASSUME TypeOK, NEW p \in Peer, NEW f \in FramesInFlight(p),
           FrameArrives(p, f), Quietly(p, f), Takes(p, f)
    PROVE  ReleaseStep(p)
<1>1. Frees(p)
  BY DEF Quietly, Frees
<1>2. Transmit(p, {FrameSet(f)}, {FrameSet(h) : h \in {}})
  <2>1. {FrameSet(h) : h \in {}} = {}
    OBVIOUS
  <2>2. QED
    BY <2>1 DEF Quietly
<1>3. Acknowledges(p)
  BY <1>2, FrameAcknowledged DEF FrameArrives
<1>4. QED
  BY <1>1, <1>3 DEF ReleaseStep

(* A frame that completes the payload whose turn it is.                    *)
LEMMA InOrderFrees ==
    ASSUME TypeOK, NEW p \in Peer, ReceiveInOrder(p)
    PROVE  ReleaseStep(p)
<1>1. PICK f \in FramesInFlight(p), next \in 1..IndexMod :
          /\ FrameArrives(p, f)
          /\ InOrder(p, f, next)
          /\ \E g \in Enumerations(Answered(p, Run(p, f, next))) :
                LET kinds == Answers(p, Run(p, f, next), g) IN
                /\ SendReplies(p, kinds)
                /\ Transmit(p, {FrameSet(f)},
                            {FrameSet(h) : h \in SingleFrames(PacketsOf(p, kinds))})
  BY DEF ReceiveInOrder, InOrder
<1>2. PICK kinds :
          /\ SendReplies(p, kinds)
          /\ Transmit(p, {FrameSet(f)},
                      {FrameSet(h) : h \in SingleFrames(PacketsOf(p, kinds))})
  BY <1>1
<1>3. Frees(p)
  BY <1>2 DEF SendReplies, Frees, TypeOK
<1>4. Takes(p, f) /\ NoteSequence(p, f)
  BY <1>1 DEF Takes, FrameArrives
<1> DEFINE frames == SingleFrames(PacketsOf(p, kinds))
<1>5. Transmit(p, {FrameSet(f)}, {FrameSet(h) : h \in frames})
  BY <1>2
<1> HIDE DEF frames
<1>6. Acknowledges(p)
  BY <1>4, <1>5, FrameAcknowledged
<1>7. QED
  BY <1>3, <1>6 DEF ReleaseStep

(* The network acknowledges nothing.                                       *)
LEMMA LoseFrees ==
    ASSUME TypeOK, NEW p \in Peer, Lose(p)
    PROVE  ReleaseStep(p)
<1>1. PICK dg \in InFlight(p) : Transmit(p, {dg}, {}) /\ UNCHANGED <<recovery, ackQueue>>
  BY DEF Lose
<1>2. Acknowledges(p)
  BY <1>1, NothingAcknowledged
<1>3. QED
  BY <1>1, <1>2 DEF ReleaseStep, Frees

(* A duplicate of an ACK acknowledges what the ACK does.                   *)
LEMMA CopyFrees ==
    ASSUME TypeOK, NEW p \in Peer, Copy(p)
    PROVE  ReleaseStep(Other(p))
<1>1. PICK dg \in InFlight(p) : Transmit(Other(p), {}, {dg}) /\ UNCHANGED <<recovery, ackQueue>>
  BY DEF Copy
<1>2. Other(p) \in Peer /\ Other(Other(p)) = p
  BY OtherPeer
<1>3. \A d \in {dg} : d.kind = "ack" => \A s \in d.seqs : Acks(Other(p), s)
  BY <1>2 DEF Acks
<1>4. Acknowledges(Other(p))
  BY <1>1, <1>2, <1>3, NothingAcknowledged
<1>5. QED
  BY <1>1, <1>4 DEF ReleaseStep, Frees

(* Every step has that shape as well, of the same peer.                    *)
LEMMA ReleaseShape ==
    ASSUME TypeOK, Next
    PROVE  \E a \in Peer : StepOf(a) /\ ReleaseStep(a)
<1>1. CASE SendConnectionRequest
  BY <1>1, SendStep, SendFrees DEF SendConnectionRequest, Kind, Peer
<1>2. ASSUME NEW p \in Peer, WritePacket(p) PROVE StepOf(p) /\ ReleaseStep(p)
  BY <1>2, SendStep, SendFrees, WidthsArePositive DEF WritePacket, Kind
<1>3. ASSUME NEW p \in Peer, SendPing(p) PROVE StepOf(p) /\ ReleaseStep(p)
  BY <1>3, SendStep, SendFrees DEF SendPing, Kind
<1>4. ASSUME NEW p \in Peer, Receive(p) PROVE StepOf(p) /\ ReleaseStep(p)
  <2>1. CASE ReceiveFragment(p) \/ ReceiveMisfit(p) \/ ReceiveStale(p)
    <3>1. PICK f \in FramesInFlight(p) :
            /\ FrameArrives(p, f) /\ Quietly(p, f)
            /\ UNCHANGED <<orderedQueue, processed>>
            /\ Fragmented(f) \/ Ord24(f) < Len(processed[p])
      BY <2>1 DEF ReceiveFragment, ReceiveMisfit, ReceiveStale
    <3>2. Takes(p, f)
      BY <3>1 DEF Takes, FrameArrives
    <3>3. QED
      BY <3>1, <3>2, QuietStep, QuietFrees
  <2>2. CASE ReceiveEarly(p)
    <3>1. PICK f \in FramesInFlight(p) :
            FrameArrives(p, f) /\ Quietly(p, f) /\ Early(p, f)
      BY <2>2 DEF ReceiveEarly, Early
    <3>2. Takes(p, f)
      BY <3>1 DEF Takes, FrameArrives
    <3>3. QED
      BY <3>1, <3>2, QuietStep, QuietFrees
  <2>3. QED
    BY <1>4, <2>1, <2>2, AckStep, AckFrees, NackStep, NackFrees, InOrderStep, InOrderFrees
    DEF Receive
<1>5. ASSUME NEW p \in Peer, Copy(p) PROVE \E a \in Peer : StepOf(a) /\ ReleaseStep(a)
  BY <1>5, CopyStep, CopyFrees, OtherPeer
<1>6. QED
  BY <1>1, <1>2, <1>3, <1>4, <1>5, CloseStep, CloseFrees, TickStep, TickFrees,
     LoseStep, LoseFrees DEF Next

-----------------------------------------------------------------------------
(* Sequence numbers.                                                       *)

(* Payloads that take the numbers up to n, each after the one before it.   *)
SpacedSeq(s, n) ==
    /\ \A i \in 1..Len(s) : s[i].seq + s[i].size <= n
    /\ \A i, j \in 1..Len(s) : i < j => s[i].seq + s[i].size <= s[j].seq

Spaced(q) == SpacedSeq(sent[q], sendSeq[q])

(* Numbers go on from where they were.                                     *)
LEMMA SpacesContinue ==
    ASSUME NEW s \in Seq(Packet), NEW t \in Seq(Packet), NEW m \in Nat, NEW n \in Nat,
           SpacedSeq(s, m), SpacedSeq(t, n), m <= n,
           \A k \in 1..Len(t) : m <= t[k].seq
    PROVE  SpacedSeq(s \o t, n)
<1> DEFINE u == s \o t
<1>1. /\ Len(s) \in Nat /\ Len(t) \in Nat /\ Len(u) = Len(s) + Len(t)
      /\ \A i \in 1..Len(s) : u[i] = s[i]
      /\ \A i \in 1..Len(u) \ 1..Len(s) :
            \E k \in 1..Len(t) : i = Len(s) + k /\ u[i] = t[k]
      /\ u \in Seq(Packet)
  BY ConcatParts
<1>2. \A i \in 1..Len(u) : u[i].seq \in Nat /\ u[i].size \in Nat
  <2>1. \A i \in 1..Len(u) : u[i] \in Packet
    BY <1>1
  <2>2. QED
    BY <2>1 DEF Packet
<1> HIDE DEF u
<1>3. ASSUME NEW i \in 1..Len(u)
      PROVE  u[i].seq + u[i].size <= n
  <2>1. CASE i \in 1..Len(s)
    <3>1. u[i].seq + u[i].size <= m
      BY <1>1, <2>1 DEF SpacedSeq
    <3>2. QED
      BY <1>2, <3>1
  <2>2. CASE i \notin 1..Len(s)
    BY <1>1, <2>2 DEF SpacedSeq
  <2>3. QED
    BY <2>1, <2>2
<1>4. ASSUME NEW i \in 1..Len(u), NEW j \in 1..Len(u), i < j
      PROVE  u[i].seq + u[i].size <= u[j].seq
  <2>1. CASE i \in 1..Len(s) /\ j \in 1..Len(s)
    BY <1>1, <1>4, <2>1 DEF SpacedSeq
  <2>2. CASE i \notin 1..Len(s) /\ j \notin 1..Len(s)
    <3>1. PICK k \in 1..Len(t) : i = Len(s) + k /\ u[i] = t[k]
      BY <1>1, <2>2
    <3>2. PICK l \in 1..Len(t) : j = Len(s) + l /\ u[j] = t[l]
      BY <1>1, <2>2
    <3>3. k < l
      BY <1>1, <1>4, <3>1, <3>2
    <3>4. QED
      BY <3>1, <3>2, <3>3 DEF SpacedSeq
  <2>3. CASE i \in 1..Len(s) /\ j \notin 1..Len(s)
    <3>1. u[i].seq + u[i].size <= m
      BY <1>1, <2>3 DEF SpacedSeq
    <3>2. m <= u[j].seq
      BY <1>1, <2>3
    <3>3. QED
      BY <1>2, <3>1, <3>2, SMTT(60)
  <2>4. CASE i \notin 1..Len(s) /\ j \in 1..Len(s)
    BY <1>1, <1>4, <2>4
  <2>5. QED
    BY <2>1, <2>2, <2>3, <2>4
<1>5. SpacedSeq(u, n)
  BY <1>3, <1>4 DEF SpacedSeq
<1>6. QED
  BY <1>5 DEF u

(* What a sender's step does to the numbers and to recovery.               *)
Keeps(a) ==
    \E t \in Seq(Packet) :
        /\ sent' = [sent EXCEPT ![a] = @ \o t]
        /\ SpacedSeq(t, sendSeq'[a]) /\ sendSeq[a] <= sendSeq'[a]
        /\ \A k \in 1..Len(t) : /\ sendSeq[a] <= t[k].seq
                                /\ FramesOf(t[k]) \subseteq recovery'[a]
        /\ \A q \in Peer \ {a} : sendSeq'[q] = sendSeq[q]

(* Every sender's step numbers what it sends and keeps its frames.         *)
LEMMA SenderKeeps ==
    ASSUME TypeOK, NEW a \in Peer, SenderStep(a)
    PROVE  Keeps(a)
<1>0. sent[a] \in Seq(Packet) /\ sendSeq[a] \in Nat
  BY DEF TypeOK
<1>1. ASSUME NEW kind \in Kind, NEW size \in Nat \ {0}, SendFrame(a, kind, size)
      PROVE  Keeps(a)
  <2> DEFINE x == PacketOf(a, kind, size)
  <2>1. x \in Packet
    BY <1>1, SendFrameTypes
  <2>2. x.seq = sendSeq[a] /\ x.size = size
    BY DEF PacketOf
  <2>3. /\ sent' = [sent EXCEPT ![a] = Append(@, x)]
        /\ sendSeq' = [sendSeq EXCEPT ![a] = @ + size]
        /\ FramesOf(x) \subseteq recovery'[a]
    BY <1>1 DEF SendFrame, TypeOK
  <2> HIDE DEF x
  <2>4. /\ <<x>> \in Seq(Packet) /\ Len(<<x>>) = 1 /\ <<x>>[1] = x
        /\ Append(sent[a], x) = sent[a] \o <<x>>
    BY <1>0, <2>1
  <2>5. sent' = [sent EXCEPT ![a] = @ \o <<x>>]
    BY <2>3, <2>4
  <2>6. /\ sendSeq'[a] = sendSeq[a] + size
        /\ \A q \in Peer \ {a} : sendSeq'[q] = sendSeq[q]
    BY <2>3 DEF TypeOK
  <2>7. SpacedSeq(<<x>>, sendSeq'[a]) /\ sendSeq[a] <= sendSeq'[a]
    BY <1>0, <2>2, <2>4, <2>6 DEF SpacedSeq
  <2>8. \A k \in 1..Len(<<x>>) : sendSeq[a] <= <<x>>[k].seq /\ FramesOf(<<x>>[k]) \subseteq recovery'[a]
    BY <1>0, <2>2, <2>3, <2>4
  <2>9. QED
    BY <2>4, <2>5, <2>6, <2>7, <2>8 DEF Keeps
<1>2. ASSUME NEW kinds \in Seq(Kind), SendReplies(a, kinds)
      PROVE  Keeps(a)
  <2> DEFINE t == PacketsOf(a, kinds)
  <2>1. t \in Seq(Packet) /\ Len(t) = Len(kinds) /\ Len(kinds) \in Nat
    BY <1>2, SendRepliesTypes
  <2>2. \A i \in 1..Len(kinds) : t[i].seq = sendSeq[a] + i - 1 /\ t[i].size = 1
    BY DEF PacketsOf
  <2>3. /\ sent' = [sent EXCEPT ![a] = @ \o t]
        /\ sendSeq' = [sendSeq EXCEPT ![a] = @ + Len(kinds)]
        /\ SingleFrames(t) \subseteq recovery'[a]
    BY <1>2 DEF SendReplies, TypeOK
  <2> HIDE DEF t
  <2>4. ASSUME NEW k \in 1..Len(t)
        PROVE  FramesOf(t[k]) \subseteq recovery'[a]
    <3>1. t[k].size = 1
      BY <2>1, <2>2
    <3>2. ASSUME NEW f \in FramesOf(t[k])
          PROVE  f \in SingleFrames(t)
      <4>1. f = [pkt |-> t[k], idx |-> 0]
        BY <3>1 DEF FramesOf
      <4>2. QED
        BY <4>1 DEF SingleFrames
    <3>3. QED
      BY <2>3, <3>2
  <2>5. /\ sendSeq'[a] = sendSeq[a] + Len(kinds)
        /\ \A q \in Peer \ {a} : sendSeq'[q] = sendSeq[q]
    BY <2>3 DEF TypeOK
  <2>6. SpacedSeq(t, sendSeq'[a]) /\ sendSeq[a] <= sendSeq'[a]
    <3>1. sendSeq[a] \in Nat /\ sendSeq[a] <= sendSeq'[a]
      BY <1>0, <2>1, <2>5
    <3>2. \A i \in 1..Len(t) : t[i].seq + t[i].size = sendSeq[a] + i /\ t[i].seq = sendSeq[a] + i - 1
      BY <2>1, <2>2, <3>1
    <3>3. \A i \in 1..Len(t) : sendSeq[a] + i <= sendSeq'[a]
      BY <2>1, <2>5, <3>1
    <3>4. \A i, j \in 1..Len(t) : i < j => sendSeq[a] + i <= sendSeq[a] + j - 1
      BY <3>1
    <3>5. QED
      BY <3>1, <3>2, <3>3, <3>4 DEF SpacedSeq
  <2>7. \A k \in 1..Len(t) : sendSeq[a] <= t[k].seq
    BY <1>0, <2>1, <2>2
  <2>8. QED
    BY <2>1, <2>3, <2>4, <2>5, <2>6, <2>7 DEF Keeps
<1>3. ASSUME UNCHANGED sendState
      PROVE  Keeps(a)
  <2>1. sent[a] \o <<>> = sent[a] /\ <<>> \in Seq(Packet) /\ Len(<<>>) = 0
    BY <1>0
  <2>2. sent' = [sent EXCEPT ![a] = @ \o <<>>]
    BY <1>3, <2>1 DEF sendState, TypeOK
  <2>3. SpacedSeq(<<>>, sendSeq'[a])
    BY <2>1 DEF SpacedSeq
  <2>4. sendSeq' = sendSeq /\ sendSeq[a] <= sendSeq'[a]
    BY <1>0, <1>3 DEF sendState
  <2>5. 1..Len(<<>>) = {}
    BY <2>1
  <2>6. /\ \A k \in 1..Len(<<>>) : /\ sendSeq[a] <= <<>>[k].seq
                                   /\ FramesOf(<<>>[k]) \subseteq recovery'[a]
        /\ \A q \in Peer \ {a} : sendSeq'[q] = sendSeq[q]
    BY <2>4, <2>5
  <2>7. QED
    BY <2>1, <2>2, <2>3, <2>4, <2>6 DEF Keeps
<1>4. QED
  BY <1>1, <1>2, <1>3 DEF SenderStep

(* So the numbers of a sender stay apart.                                  *)
LEMMA SpacedKept ==
    ASSUME TypeOK, TypeOK', NEW a \in Peer, SenderStep(a), NEW q \in Peer, Spaced(q)
    PROVE  Spaced(q)'
<1>1. PICK t \in Seq(Packet) :
        /\ sent' = [sent EXCEPT ![a] = @ \o t]
        /\ SpacedSeq(t, sendSeq'[a]) /\ sendSeq[a] <= sendSeq'[a]
        /\ \A k \in 1..Len(t) : sendSeq[a] <= t[k].seq
        /\ \A b \in Peer \ {a} : sendSeq'[b] = sendSeq[b]
  BY SenderKeeps DEF Keeps
<1>2. CASE q = a
  <2>1. /\ sent[a] \in Seq(Packet) /\ sendSeq[a] \in Nat /\ sendSeq'[a] \in Nat
        /\ sent'[a] = sent[a] \o t
    BY <1>1 DEF TypeOK
  <2>2. SpacedSeq(sent[a], sendSeq[a])
    BY <1>2 DEF Spaced
  <2>3. SpacedSeq(sent[a] \o t, sendSeq'[a])
    BY <1>1, <2>1, <2>2, SpacesContinue
  <2>4. QED
    BY <1>2, <2>1, <2>3 DEF Spaced, SpacedSeq
<1>3. CASE q # a
  <2>1. sent'[q] = sent[q] /\ sendSeq'[q] = sendSeq[q]
    BY <1>1, <1>3 DEF TypeOK
  <2>2. QED
    BY <2>1 DEF Spaced, SpacedSeq
<1>4. QED
  BY <1>2, <1>3

(* One number, one frame.                                                  *)
LEMMA OneFrameANumber ==
    ASSUME TypeOK, NEW q \in Peer, Spaced(q), NEW f \in Frame, NEW g \in Frame,
           SentBy(q, f), SentBy(q, g), SeqNum(f) = SeqNum(g)
    PROVE  f = g
<1>1. PICK i \in 1..Len(sent[q]) : f.pkt = sent[q][i]
  BY DEF SentBy
<1>2. PICK j \in 1..Len(sent[q]) : g.pkt = sent[q][j]
  BY DEF SentBy
<1>3. /\ f.pkt \in Packet /\ g.pkt \in Packet /\ f = [pkt |-> f.pkt, idx |-> f.idx]
      /\ g = [pkt |-> g.pkt, idx |-> g.idx]
      /\ f.idx \in Nat /\ f.idx < f.pkt.size /\ g.idx \in Nat /\ g.idx < g.pkt.size
  BY DEF Frame
<1>4. /\ f.pkt.seq \in Nat /\ f.pkt.size \in Nat /\ g.pkt.seq \in Nat /\ g.pkt.size \in Nat
      /\ f.pkt.seq + f.idx = g.pkt.seq + g.idx
  BY <1>3 DEF Packet, SeqNum
<1>5. i \in Nat /\ j \in Nat
  BY DEF TypeOK
<1>6. ~(i < j)
  <2>1. i < j => f.pkt.seq + f.pkt.size <= g.pkt.seq
    BY <1>1, <1>2 DEF Spaced, SpacedSeq
  <2>2. QED
    BY <1>3, <1>4, <2>1
<1>7. ~(j < i)
  <2>1. j < i => g.pkt.seq + g.pkt.size <= f.pkt.seq
    BY <1>1, <1>2 DEF Spaced, SpacedSeq
  <2>2. QED
    BY <1>3, <1>4, <2>1
<1>8. i = j
  BY <1>5, <1>6, <1>7
<1>9. f.idx = g.idx
  BY <1>1, <1>2, <1>3, <1>4, <1>8
<1>10. QED
  BY <1>1, <1>2, <1>3, <1>8, <1>9

(* While the numbers fit the wire, the receiver reads the sender's own.    *)
LEMMA NumberOnWire ==
    ASSUME TypeOK, NEW q \in Peer, Spaced(q), Unwrapped(q), NEW f \in Frame, SentBy(q, f)
    PROVE  Seq24(f) = SeqNum(f)
<1>1. PICK i \in 1..Len(sent[q]) : f.pkt = sent[q][i]
  BY DEF SentBy
<1>2. f.pkt \in Packet /\ f.idx \in Nat /\ f.idx < f.pkt.size
  BY DEF Frame
<1>3. f.pkt.seq \in Nat /\ f.pkt.size \in Nat
  BY <1>2 DEF Packet
<1>4. f.pkt.seq + f.pkt.size <= sendSeq[q]
  BY <1>1 DEF Spaced, SpacedSeq
<1>5. sendSeq[q] \in Nat /\ sendSeq[q] <= IndexMod
  BY DEF Unwrapped, TypeOK
<1>6. SeqNum(f) \in Nat /\ SeqNum(f) < IndexMod
  BY <1>2, <1>3, <1>4, <1>5, WidthsArePositive, SMTT(60) DEF SeqNum
<1>7. QED
  BY <1>6, Reduced, WidthsArePositive DEF Seq24

-----------------------------------------------------------------------------
(* What a receiver has.                                                    *)

(* A frame is in the whole payload it was cut from.                        *)
LEMMA InWhole ==
    ASSUME NEW x \in Packet, NEW f, f = [pkt |-> x, idx |-> f.idx], f.idx \in 0..x.size - 1
    PROVE  \E i \in DOMAIN Whole(x) : Whole(x)[i] = f
<1>1. x.size \in Nat /\ f.idx + 1 \in 1..x.size /\ (f.idx + 1) - 1 = f.idx
  BY DEF Packet
<1>2. Whole(x)[f.idx + 1] = [pkt |-> x, idx |-> (f.idx + 1) - 1]
  BY <1>1 DEF Whole
<1>3. DOMAIN Whole(x) = 1..x.size
  BY DEF Whole
<1>4. QED
  BY <1>1, <1>2, <1>3

(* What is in a buffer stays there.                                        *)
LEMMA PartsStay ==
    ASSUME TypeOK, NEW p \in Peer, NEW f \in FramesInFlight(p), StoreFragment(p, f),
           Numbered(Other(p)), OnlySent(Other(p)), Unwrapped(Other(p)), BuffersFaithful(p),
           NEW c \in DOMAIN fragments[p], NEW k \in DOMAIN fragments[p][c].parts
    PROVE  /\ c \in DOMAIN fragments'[p] /\ k \in DOMAIN fragments'[p][c].parts
           /\ fragments'[p][c].parts[k] = fragments[p][c].parts[k]
<1>1. CASE ~Fragmented(f)
  BY <1>1 DEF StoreFragment
<1>2. CASE Fragmented(f)
  <2>1. fragments'[p] = Put(fragments[p], Cid16(f), BufferWith(p, f))
    BY <1>2 DEF StoreFragment, TypeOK
  <2>2. CASE c # Cid16(f)
    BY <2>1, <2>2 DEF Put
  <2>3. CASE c = Cid16(f)
    <3> DEFINE old == fragments[p][c]
    <3>1. fragments'[p][c] = BufferWith(p, f) /\ c \in DOMAIN fragments'[p]
      BY <2>1, <2>3 DEF Put
    <3>2. BufferWith(p, f).parts = Put(old.parts, f.idx, f)
      BY <2>3 DEF BufferWith
    <3>3. CASE k # f.idx
      BY <3>1, <3>2, <3>3 DEF Put
    <3>4. CASE k = f.idx
      <4>1. PICK i \in 1..Len(sent[Other(p)]) :
              /\ f = [pkt |-> sent[Other(p)][i], idx |-> f.idx]
              /\ Cid16(f) = sent[Other(p)][i].comp
        BY <1>2, KnownFrame
      <4>2. PICK j \in 1..Len(sent[Other(p)]) :
              /\ sent[Other(p)][j].size > 1
              /\ sent[Other(p)][j].comp = c
              /\ BufferOf(old, sent[Other(p)][j])
        BY DEF BuffersFaithful
      <4>3. sent[Other(p)][i].size > 1
        BY <1>2, <4>1 DEF Fragmented
      <4>4. i = j
        BY <2>3, <4>1, <4>2, <4>3 DEF Numbered
      <4>5. old.parts[k] = f
        BY <3>4, <4>1, <4>2, <4>4 DEF BufferOf
      <4>6. k \in DOMAIN Put(old.parts, f.idx, f) /\ Put(old.parts, f.idx, f)[k] = f
        BY <3>4 DEF Put
      <4>7. QED
        BY <3>1, <3>2, <4>5, <4>6
    <3>5. QED
      BY <3>3, <3>4
  <2>4. QED
    BY <2>2, <2>3
<1>3. QED
  BY <1>1, <1>2

(* A payload that waits is kept, or processed in its turn.                 *)
LEMMA QueuedStays ==
    ASSUME TypeOK, TypeOK', NEW p \in Peer, NEW f \in FramesInFlight(p),
           \/ UNCHANGED <<orderedQueue, processed>>
           \/ Early(p, f)
           \/ \E next \in 1..IndexMod : InOrder(p, f, next),
           Numbered(Other(p)), OnlySent(Other(p)), Unwrapped(Other(p)), Faithful(p),
           Faithful(p)', sent'[Other(p)] = sent[Other(p)],
           NEW o \in DOMAIN orderedQueue[p]
    PROVE  \/ o \in DOMAIN orderedQueue'[p] /\ orderedQueue'[p][o] = orderedQueue[p][o]
           \/ o + 1 \in DOMAIN processed'[p] /\ processed'[p][o + 1] = orderedQueue[p][o]
<1>1. orderedQueue[p][o] = Whole(sent[Other(p)][o + 1])
  BY DEF Faithful, QueueFaithful
<1>2. CASE UNCHANGED <<orderedQueue, processed>>
  BY <1>2
<1>3. CASE Early(p, f)
  <2>1. orderedQueue'[p] = Put(orderedQueue[p], Ord24(f), PayloadOf(p, f))
    BY <1>3 DEF Early, TypeOK
  <2>2. o \in DOMAIN orderedQueue'[p]
    BY <2>1 DEF Put
  <2>3. orderedQueue'[p][o] = Whole(sent'[Other(p)][o + 1])
    BY <2>2 DEF Faithful, QueueFaithful, Whole
  <2>4. orderedQueue'[p][o] = Whole(sent[Other(p)][o + 1])
    BY <2>3 DEF Whole
  <2>5. QED
    BY <1>1, <2>2, <2>4
<1>4. ASSUME NEW next \in 1..IndexMod, InOrder(p, f, next)
      PROVE  \/ o \in DOMAIN orderedQueue'[p] /\ orderedQueue'[p][o] = orderedQueue[p][o]
             \/ o + 1 \in DOMAIN processed'[p] /\ processed'[p][o + 1] = orderedQueue[p][o]
  <2> DEFINE e == Len(processed[p])
             run == Run(p, f, next)
  <2>1. orderedQueue'[p] = [x \in DOMAIN orderedQueue[p] \ (e + 1 .. next - 1) |-> orderedQueue[p][x]]
    BY <1>4 DEF InOrder, TypeOK
  <2>2. CASE o \notin e + 1 .. next - 1
    BY <2>1, <2>2
  <2>3. CASE o \in e + 1 .. next - 1
    <3>1. f \in Frame
      BY FramesInFlightAreFrames
    <3>2. run \in Seq(Payload) /\ Len(run) = next - e
      BY <1>4, <3>1, RunTypes DEF InOrder
    <3>3. processed'[p] = processed[p] \o run /\ processed[p] \in Seq(Payload)
      BY <1>4 DEF InOrder, TypeOK
    <3>4. e \in Nat /\ next \in Nat /\ next > e
      BY <1>4, <3>3, WidthsArePositive DEF InOrder
    <3> HIDE DEF run
    <3>5. processed'[p] \in Seq(Payload) /\ Len(processed'[p]) = next
      BY <3>2, <3>3, <3>4, ConcatParts
    <3>6. o + 1 \in 1..Len(processed'[p])
      BY <2>3, <3>4, <3>5
    <3>7. processed'[p][o + 1] = Whole(sent'[Other(p)][o + 1])
      BY <3>6 DEF Faithful, ProcessesAsSent, Whole
    <3>8. processed'[p][o + 1] = Whole(sent[Other(p)][o + 1])
      BY <3>7 DEF Whole
    <3>9. QED
      BY <1>1, <3>5, <3>6, <3>8
  <2>4. QED
    BY <2>2, <2>3
<1>5. QED
  BY <1>2, <1>3, <1>4

(* What a receiver has it keeps.                                           *)
LEMMA HasKept ==
    ASSUME TypeOK, TypeOK', NEW p \in Peer, ReceiverStep(p),
           Numbered(Other(p)), OnlySent(Other(p)), Unwrapped(Other(p)), Faithful(p),
           Faithful(p)', sent'[Other(p)] = sent[Other(p)],
           NEW g, Has(p, g)
    PROVE  Has(p, g)'
<1>1. CASE UNCHANGED receiveState
  BY <1>1 DEF receiveState, Has
<1>2. ASSUME NEW f \in FramesInFlight(p), StoreFragment(p, f),
             \/ UNCHANGED <<orderedQueue, processed>>
             \/ Early(p, f)
             \/ \E next \in 1..IndexMod : InOrder(p, f, next)
      PROVE  Has(p, g)'
  <2>1. ASSUME NEW c \in DOMAIN fragments[p], NEW k \in DOMAIN fragments[p][c].parts,
               fragments[p][c].parts[k] = g
        PROVE  Has(p, g)'
    <3>1. /\ c \in DOMAIN fragments'[p] /\ k \in DOMAIN fragments'[p][c].parts
          /\ fragments'[p][c].parts[k] = g
      BY <1>2, <2>1, PartsStay DEF Faithful
    <3>2. QED
      BY <3>1 DEF Has
  <2>2. ASSUME NEW o \in DOMAIN orderedQueue[p], NEW i \in DOMAIN orderedQueue[p][o],
               orderedQueue[p][o][i] = g
        PROVE  Has(p, g)'
    <3>1. \/ o \in DOMAIN orderedQueue'[p] /\ orderedQueue'[p][o] = orderedQueue[p][o]
          \/ o + 1 \in DOMAIN processed'[p] /\ processed'[p][o + 1] = orderedQueue[p][o]
      BY <1>2, QueuedStays
    <3>2. QED
      BY <2>2, <3>1 DEF Has
  <2>3. ASSUME NEW n \in DOMAIN processed[p], NEW i \in DOMAIN processed[p][n],
               processed[p][n][i] = g
        PROVE  Has(p, g)'
    <3>1. Prefix(processed[p], processed'[p])
      BY ProcessedGrows
    <3>2. processed[p] \in Seq(Payload) /\ processed' \in [Peer -> Seq(Payload)]
      BY DEF TypeOK
    <3>3. processed'[p] \in Seq(Payload)
      BY <3>2
    <3>4. /\ DOMAIN processed[p] = 1..Len(processed[p]) /\ Len(processed[p]) \in Nat
          /\ DOMAIN processed'[p] = 1..Len(processed'[p]) /\ Len(processed'[p]) \in Nat
      BY <3>2, <3>3
    <3>5. n \in 1..Len(processed'[p]) /\ processed'[p][n] = processed[p][n]
      BY <3>1, <3>4 DEF Prefix
    <3>6. QED
      BY <2>3, <3>4, <3>5 DEF Has
  <2>4. QED
    BY <2>1, <2>2, <2>3 DEF Has
<1>3. QED
  BY <1>1, <1>2 DEF ReceiverStep

(* A frame that is taken in is there afterwards.                           *)
LEMMA TakenIsThere ==
    ASSUME TypeOK, NEW p \in Peer, NEW f \in FramesInFlight(p), Takes(p, f),
           Numbered(Other(p)), OnlySent(Other(p)), Unwrapped(Other(p)), Faithful(p)
    PROVE  Has(p, f)'
<1>1. f \in Frame /\ processed[p] \in Seq(Payload)
  BY FramesInFlightAreFrames DEF TypeOK
<1>2. CASE Fragmented(f)
  <2>1. fragments'[p] = Put(fragments[p], Cid16(f), BufferWith(p, f))
    BY <1>2 DEF Takes, StoreFragment, TypeOK
  <2>2. Cid16(f) \in DOMAIN fragments'[p] /\ fragments'[p][Cid16(f)] = BufferWith(p, f)
    BY <2>1 DEF Put
  <2>3. f.idx \in DOMAIN BufferWith(p, f).parts /\ BufferWith(p, f).parts[f.idx] = f
    BY DEF BufferWith, Put
  <2>4. QED
    BY <2>2, <2>3 DEF Has
<1>3. CASE ~Fragmented(f)
  <2>1. PayloadOf(p, f) = <<f>>
    BY <1>3 DEF PayloadOf
  <2>2. 1 \in DOMAIN <<f>> /\ <<f>>[1] = f
    OBVIOUS
  <2>3. CASE Ord24(f) < Len(processed[p]) /\ UNCHANGED processed
    <3>1. PICK n \in 1..Len(sent[Other(p)]) :
            /\ f = [pkt |-> sent[Other(p)][n], idx |-> f.idx]
            /\ sent[Other(p)][n] \in Packet
            /\ f.idx \in 0..sent[Other(p)][n].size - 1
            /\ Ord24(f) = n - 1
      BY KnownFrame
    <3>2. Len(processed[p]) \in Nat /\ n \in 1..Len(processed[p])
      BY <1>1, <2>3, <3>1
    <3>3. processed[p][n] = Whole(sent[Other(p)][n])
      BY <3>2 DEF Faithful, ProcessesAsSent
    <3>4. PICK i \in DOMAIN Whole(sent[Other(p)][n]) : Whole(sent[Other(p)][n])[i] = f
      BY <3>1, InWhole
    <3>5. n \in DOMAIN processed'[p] /\ processed'[p][n] = processed[p][n]
      BY <1>1, <2>3, <3>2
    <3>6. QED
      BY <3>3, <3>4, <3>5 DEF Has
  <2>4. CASE Early(p, f)
    <3>1. orderedQueue'[p] = Put(orderedQueue[p], Ord24(f), <<f>>)
      BY <2>1, <2>4 DEF Early, TypeOK
    <3>2. Ord24(f) \in DOMAIN orderedQueue'[p] /\ orderedQueue'[p][Ord24(f)] = <<f>>
      BY <3>1 DEF Put
    <3>3. QED
      BY <2>2, <3>2 DEF Has
  <2>5. ASSUME NEW next \in 1..IndexMod, InOrder(p, f, next)
        PROVE  Has(p, f)'
    <3> DEFINE run == Run(p, f, next)
    <3>1. run \in Seq(Payload) /\ Len(run) = next - Len(processed[p]) /\ run[1] = <<f>>
      BY <1>1, <2>1, <2>5, RunTypes DEF InOrder
    <3>2. processed'[p] = processed[p] \o run
      BY <2>5 DEF InOrder, TypeOK
    <3>3. next > Len(processed[p]) /\ Len(processed[p]) \in Nat /\ next \in Nat
      BY <1>1, <2>5, WidthsArePositive DEF InOrder
    <3> HIDE DEF run
    <3>4. /\ Len(processed[p]) + 1 \in 1..Len(processed'[p])
          /\ processed'[p][Len(processed[p]) + 1] = run[1]
      BY <1>1, <3>1, <3>2, <3>3
    <3>5. processed'[p] \in Seq(Payload)
      BY <1>1, <3>1, <3>2
    <3>6. Len(processed[p]) + 1 \in DOMAIN processed'[p]
      BY <3>4, <3>5
    <3>7. QED
      BY <2>2, <3>1, <3>4, <3>6 DEF Has
  <2>6. QED
    BY <1>3, <2>3, <2>4, <2>5 DEF Takes
<1>4. QED
  BY <1>2, <1>3

-----------------------------------------------------------------------------
(* Released frames have arrived.                                           *)

(* What p acknowledges it has.                                             *)
AcksTrue(p) ==
    \A s : Acks(p, s) =>
        \E f \in Frame : SentBy(Other(p), f) /\ SeqNum(f) = s /\ Has(p, f)

Released(p) ==
    \A i \in 1..Len(sent[Other(p)]) : \A f \in FramesOf(sent[Other(p)][i]) :
        f \in recovery[Other(p)] \/ Has(p, f)

ReleaseInv ==
    \A q \in Peer : /\ Spaced(q)
                    /\ Unwrapped(q) => AcksTrue(Other(q)) /\ Released(Other(q))

(* The receiver acts: it acknowledges what it takes in.                    *)
LEMMA ReceiverReleases ==
    ASSUME TypeOK, TypeOK', NEW p \in Peer, StepOf(p), ReleaseStep(p),
           Numbered(Other(p)), OnlySent(Other(p)), Unwrapped(Other(p)), Faithful(p),
           Faithful(p)', Spaced(Other(p)), sent'[Other(p)] = sent[Other(p)],
           AcksTrue(p), Released(p)
    PROVE  AcksTrue(p)' /\ Released(p)'
<1>1. Other(p) \in Peer /\ Other(Other(p)) = p /\ Other(p) # p
  BY OtherPeer
<1>2. \A g : Has(p, g) => Has(p, g)'
  BY HasKept DEF StepOf
<1>3. \A g : SentBy(Other(p), g) => SentBy(Other(p), g)'
  BY DEF SentBy
<1>4. ASSUME NEW s, Acks(p, s)'
      PROVE  \E f \in Frame : SentBy(Other(p), f)' /\ SeqNum(f) = s /\ Has(p, f)'
  <2>1. CASE Acks(p, s)
    BY <1>2, <1>3, <2>1 DEF AcksTrue
  <2>2. CASE ~Acks(p, s)
    <3>1. PICK f \in FramesInFlight(p) : s = Seq24(f) /\ Takes(p, f)
      BY <1>4, <2>2 DEF ReleaseStep, Acknowledges
    <3>2. f \in Frame /\ SentBy(Other(p), f)
      BY <1>1, FramesInFlightAreFrames DEF OnlySent
    <3>3. SeqNum(f) = s
      BY <1>1, <3>1, <3>2, NumberOnWire
    <3>4. Has(p, f)'
      BY <3>1, TakenIsThere
    <3>5. QED
      BY <1>3, <3>2, <3>3, <3>4
  <2>3. QED
    BY <2>1, <2>2
<1>5. AcksTrue(p)'
  BY <1>4 DEF AcksTrue, SeqNum
<1>6. ASSUME NEW i \in 1..Len(sent'[Other(p)]), NEW f \in FramesOf(sent'[Other(p)][i])
      PROVE  f \in recovery'[Other(p)] \/ Has(p, f)'
  <2>1. i \in 1..Len(sent[Other(p)]) /\ f \in FramesOf(sent[Other(p)][i])
    BY <1>6
  <2>2. f \in recovery[Other(p)] \/ Has(p, f)
    BY <2>1 DEF Released
  <2>3. f \in recovery[Other(p)] => f \in recovery'[Other(p)]
    BY <1>1 DEF ReleaseStep, Frees
  <2>4. QED
    BY <1>2, <2>2, <2>3
<1>7. Released(p)'
  BY <1>6 DEF Released, FramesOf
<1>8. QED
  BY <1>5, <1>7

(* The sender q acts: what an ACK frees has arrived, and what it sends it  *)
(* keeps.                                                                  *)
LEMMA SenderReleases ==
    ASSUME TypeOK, TypeOK', NEW q \in Peer, StepOf(q), ReleaseStep(q), Spaced(q),
           AcksTrue(Other(q)), Released(Other(q)), Grows(q)
    PROVE  AcksTrue(Other(q))' /\ Released(Other(q))'
<1> DEFINE p == Other(q)
<1>1. p \in Peer /\ Other(p) = q /\ p # q
  BY OtherPeer
<1>2. \A g : Has(p, g)' <=> Has(p, g)
  <2>1. /\ fragments'[p] = fragments[p] /\ orderedQueue'[p] = orderedQueue[p]
        /\ processed'[p] = processed[p]
    BY <1>1, OthersAlone DEF StepOf
  <2>2. QED
    BY <2>1 DEF Has
<1>3. /\ sent[q] \in Seq(Packet) /\ Len(sent'[q]) \in Nat
  <2>1. sent' \in [Peer -> Seq(Packet)]
    BY DEF TypeOK
  <2>2. sent'[q] \in Seq(Packet)
    BY <2>1
  <2>3. QED
    BY <2>2 DEF TypeOK
<1>4. \A g : SentBy(q, g) => SentBy(q, g)'
  BY <1>3, SentByGrows
<1>5. \A s : Acks(p, s)' => Acks(p, s)
  BY DEF ReleaseStep, Acknowledges
<1> HIDE DEF p
<1>6. AcksTrue(p) /\ Released(p)
  BY DEF p
<1>7. ASSUME NEW s, Acks(p, s)'
      PROVE  \E f \in Frame : SentBy(q, f)' /\ SeqNum(f) = s /\ Has(p, f)'
  BY <1>1, <1>2, <1>4, <1>5, <1>6, <1>7 DEF AcksTrue
<1>8. AcksTrue(p)'
  BY <1>1, <1>7 DEF AcksTrue, SeqNum
<1>9. PICK t \in Seq(Packet) :
        /\ sent' = [sent EXCEPT ![q] = @ \o t]
        /\ \A k \in 1..Len(t) : FramesOf(t[k]) \subseteq recovery'[q]
  BY SenderKeeps DEF StepOf, Keeps
<1>10. sent'[q] = sent[q] \o t
  BY <1>9 DEF TypeOK
<1>11. ASSUME NEW i \in 1..Len(sent'[q]), NEW f \in FramesOf(sent'[q][i])
       PROVE  f \in recovery'[q] \/ Has(p, f)'
  <2>1. CASE i \in 1..Len(sent[q])
    <3>1. sent'[q][i] = sent[q][i] /\ sent[q][i] \in Packet
      BY <1>3, <2>1 DEF Grows
    <3>2. f \in Frame /\ f.pkt = sent[q][i]
      BY <1>11, <3>1, FramesAreFrames DEF FramesOf
    <3>3. f \in recovery[q] \/ Has(p, f)
      BY <1>1, <1>6, <1>11, <2>1, <3>1 DEF Released
    <3>4. CASE f \in recovery[q] /\ f \notin recovery'[q]
      <4>1. Acks(p, SeqNum(f))
        BY <3>4 DEF ReleaseStep, Frees, p
      <4>2. PICK g \in Frame : SentBy(q, g) /\ SeqNum(g) = SeqNum(f) /\ Has(p, g)
        BY <1>1, <1>6, <4>1 DEF AcksTrue
      <4>3. SentBy(q, f)
        BY <2>1, <3>2 DEF SentBy
      <4>4. f = g
        BY <3>2, <4>2, <4>3, OneFrameANumber
      <4>5. QED
        BY <1>2, <4>2, <4>4
    <3>5. QED
      BY <1>2, <3>3, <3>4
  <2>2. CASE i \notin 1..Len(sent[q])
    <3> DEFINE s == sent[q]
    <3>1. s \in Seq(Packet) /\ sent'[q] = s \o t /\ i \notin 1..Len(s)
      BY <1>3, <1>10, <2>2
    <3> HIDE DEF s
    <3>2. PICK k \in 1..Len(t) : sent'[q][i] = t[k]
      BY <3>1, ConcatParts
    <3>3. QED
      BY <1>9, <1>11, <3>2
  <2>3. QED
    BY <2>1, <2>2
<1>12. Released(p)'
  BY <1>1, <1>11 DEF Released, FramesOf
<1>13. QED
  BY <1>8, <1>12 DEF p

(* Nothing has been sent at first.                                         *)
LEMMA ReleaseInitially == Init => ReleaseInv
<1> SUFFICES ASSUME Init, NEW q \in Peer
             PROVE  Spaced(q) /\ AcksTrue(Other(q)) /\ Released(Other(q))
  BY DEF ReleaseInv
<1>1. Other(q) \in Peer /\ Other(Other(q)) = q
  BY OtherPeer
<1>2. sent[q] = <<>> /\ net[q] = EmptyBag /\ ackQueue[Other(q)] = {}
  BY <1>1 DEF Init
<1>3. InFlight(q) = {}
  BY <1>2 DEF InFlight, BagToSet, EmptyBag, SetToBag
<1>4. AcksTrue(Other(q))
  BY <1>1, <1>2, <1>3 DEF AcksTrue, Acks
<1>5. Spaced(q) /\ Released(Other(q))
  BY <1>1, <1>2 DEF Spaced, SpacedSeq, Released
<1>6. QED
  BY <1>4, <1>5

(* Every step keeps it.                                                    *)
LEMMA ReleasePreserved ==
    ChannelInv /\ ChannelInv' /\ ReleaseInv /\ [Next]_vars => ReleaseInv'
<1> SUFFICES ASSUME ChannelInv, ChannelInv', ReleaseInv, [Next]_vars, NEW q \in Peer
             PROVE  /\ Spaced(q)'
                    /\ Unwrapped(q)' => AcksTrue(Other(q))' /\ Released(Other(q))'
  BY DEF ReleaseInv
<1>1. TypeOK /\ TypeOK'
  BY DEF ChannelInv
<1>2. Other(q) \in Peer /\ Other(Other(q)) = q /\ Other(q) # q
  BY OtherPeer
<1>3. CASE UNCHANGED vars
  <2>1. /\ Spaced(q)' <=> Spaced(q)
        /\ Unwrapped(q)' <=> Unwrapped(q)
    BY <1>3 DEF vars, Spaced, SpacedSeq, Unwrapped
  <2>2. \A g : Has(Other(q), g)' <=> Has(Other(q), g)
    BY <1>3 DEF vars, Has
  <2>3. \A s : Acks(Other(q), s)' <=> Acks(Other(q), s)
    BY <1>3 DEF vars, Acks, InFlight
  <2>4. AcksTrue(Other(q)) => AcksTrue(Other(q))'
    BY <1>2, <1>3, <2>2, <2>3 DEF vars, AcksTrue, SentBy, SeqNum
  <2>5. Released(Other(q)) => Released(Other(q))'
    BY <1>2, <1>3, <2>2 DEF vars, Released, FramesOf
  <2>6. QED
    BY <2>1, <2>4, <2>5 DEF ReleaseInv
<1>4. CASE Next
  <2>1. PICK a \in Peer : StepOf(a) /\ ReleaseStep(a)
    BY <1>1, <1>4, ReleaseShape
  <2>2. Spaced(q)'
    BY <1>1, <2>1, SpacedKept DEF StepOf, ReleaseInv
  <2>3. /\ Grows(q) /\ (Unwrapped(q)' => Unwrapped(q))
        /\ q # a => sent'[q] = sent[q]
    BY <1>1, <2>1, SenderKeepsNumbers DEF StepOf, ChannelInv
  <2>4. ASSUME Unwrapped(q)'
        PROVE  AcksTrue(Other(q))' /\ Released(Other(q))'
    <3>1. /\ Unwrapped(q) /\ Numbered(q) /\ OnlySent(q) /\ Faithful(Other(q))
          /\ Faithful(Other(q))' /\ Spaced(q)
          /\ AcksTrue(Other(q)) /\ Released(Other(q))
      BY <2>3, <2>4 DEF ChannelInv, ReleaseInv
    <3>2. CASE q = a
      BY <1>1, <2>1, <2>3, <3>1, <3>2, SenderReleases
    <3>3. CASE q # a
      <4>1. Other(q) = a
        BY <1>2, <3>3 DEF Peer
      <4>2. QED
        BY <1>1, <1>2, <2>1, <2>3, <3>1, <3>3, <4>1, ReceiverReleases
    <3>4. QED
      BY <3>2, <3>3
  <2>5. QED
    BY <2>2, <2>4
<1>5. QED
  BY <1>3, <1>4

(* An ACK never releases a frame that is still needed: a frame that has    *)
(* left _recovery is with the receiver, whatever datagrams are lost,       *)
(* duplicated or overtaken, as long as no counter of the sender has        *)
(* wrapped.                                                                *)
THEOREM ReleasedHaveArrived == Spec => []ReleasedWasReceived
<1>1. ReleaseInv => ReleasedWasReceived
  <2> SUFFICES ASSUME ReleaseInv, NEW p \in Peer, Unwrapped(Other(p)),
                      NEW i \in DOMAIN sent[Other(p)], NEW f \in FramesOf(sent[Other(p)][i])
               PROVE  f \in recovery[Other(p)] \/ Has(p, f)
    BY DEF ReleasedWasReceived
  <2>1. Other(p) \in Peer /\ Other(Other(p)) = p
    BY OtherPeer
  <2>2. Released(p)
    BY <2>1 DEF ReleaseInv
  <2>3. QED
    BY <2>2 DEF Released
<1>2. QED
  BY Invariant, ReleaseInitially, ReleasePreserved, <1>1, PTL DEF Spec

-----------------------------------------------------------------------------
(* Nothing complete waits.                                                 *)

(* Payloads wait only behind one that is missing.                          *)
Waiting(p) == \A o \in DOMAIN orderedQueue[p] : o > Len(processed[p])

(* The i-th payload has been handed on to _handle_ordered.                 *)
HandedOn(p, i) == i <= Len(processed[p]) \/ i - 1 \in DOMAIN orderedQueue[p]

(* One whose buffer is complete has been handed on.                        *)
CompleteIsHandedOn(p) ==
    \A i \in 1..Len(sent[Other(p)]) :
        LET x == sent[Other(p)][i] IN
        (x.size > 1 /\ x.comp \in DOMAIN fragments[p] /\ Joins(fragments[p][x.comp]))
            => HandedOn(p, i)

HandInv == \A q \in Peer : Unwrapped(q) => Waiting(Other(q)) /\ CompleteIsHandedOn(Other(q))

(* What a does with a frame: only one that is incomplete, or that comes    *)
(* again, goes no further than its buffer.                                 *)
HandsOn(a, f) ==
    /\ StoreFragment(a, f)
    /\ \/ /\ Fragmented(f) /\ ~Joins(BufferWith(a, f))
          /\ UNCHANGED <<orderedQueue, processed>>
       \/ /\ Ord24(f) < Len(processed[a])
          /\ UNCHANGED <<orderedQueue, processed>>
       \/ Early(a, f) /\ Ord24(f) > Len(processed[a])
       \/ \E next \in 1..IndexMod : InOrder(a, f, next) /\ next \notin DOMAIN orderedQueue[a]

HandStep(a) == UNCHANGED receiveState \/ \E f \in FramesInFlight(a) : HandsOn(a, f)

(* Fragments that join are as many as they should be.                      *)
LEMMA JoinedIsFull ==
    ASSUME NEW buf, buf.size \in Nat \ {0}, Joins(buf)
    PROVE  Full(buf)
<1>1. Cardinality(0..buf.size - 1) = (buf.size - 1) - 0 + 1
  BY FS_Interval
<1>2. QED
  BY <1>1 DEF Joins, Full

(* The size of a buffer is positive, whatever it is a buffer of.           *)
LEMMA BufferWithSize ==
    ASSUME TypeOK, NEW p \in Peer, NEW f \in FramesInFlight(p)
    PROVE  BufferWith(p, f).size \in Nat \ {0}
<1>1. f \in Frame
  BY FramesInFlightAreFrames
<1>2. f.pkt.size \in Nat \ {0}
  BY <1>1 DEF Frame, Packet
<1>3. QED
  BY <1>2 DEF BufferWith, TypeOK, BufferOK

(* Every step has this shape, of the same peer as the others.              *)
LEMMA HandShape ==
    ASSUME TypeOK, Next
    PROVE  \E a \in Peer : StepOf(a) /\ HandStep(a)
<1>1. CASE SendConnectionRequest
  BY <1>1, SendStep DEF SendConnectionRequest, Send, HandStep, Kind, Peer
<1>2. ASSUME NEW p \in Peer, WritePacket(p) PROVE StepOf(p) /\ HandStep(p)
  BY <1>2, SendStep, WidthsArePositive DEF WritePacket, Send, HandStep, Kind
<1>3. ASSUME NEW p \in Peer, SendPing(p) PROVE StepOf(p) /\ HandStep(p)
  BY <1>3, SendStep DEF SendPing, Send, HandStep, Kind
<1>4. ASSUME NEW p \in Peer, Close(p) \/ Tick(p) \/ Lose(p) PROVE StepOf(p) /\ HandStep(p)
  BY <1>4, CloseStep, TickStep, LoseStep DEF Close, Tick, Lose, HandStep
<1>5. ASSUME NEW p \in Peer, Copy(p) PROVE \E a \in Peer : StepOf(a) /\ HandStep(a)
  BY <1>5, CopyStep, OtherPeer DEF Copy, HandStep
<1>6. ASSUME NEW p \in Peer, Receive(p) PROVE StepOf(p) /\ HandStep(p)
  <2>1. CASE ReceiveAck(p) \/ ReceiveNack(p)
    BY <2>1, AckStep, NackStep DEF ReceiveAck, ReceiveNack, HandStep
  <2>2. CASE ReceiveFragment(p) \/ ReceiveMisfit(p)
    <3>1. PICK f \in FramesInFlight(p) :
            /\ FrameArrives(p, f) /\ Quietly(p, f)
            /\ UNCHANGED <<orderedQueue, processed>>
            /\ Fragmented(f) /\ (~Full(BufferWith(p, f)) \/ ~Joins(BufferWith(p, f)))
      BY <2>2 DEF ReceiveFragment, ReceiveMisfit
    <3>2. ~Joins(BufferWith(p, f))
      BY <3>1, BufferWithSize, JoinedIsFull
    <3>3. HandsOn(p, f)
      BY <3>1, <3>2 DEF HandsOn, FrameArrives
    <3>4. QED
      BY <3>1, <3>3, QuietStep DEF HandStep
  <2>3. CASE ReceiveStale(p)
    <3>1. PICK f \in FramesInFlight(p) :
            /\ FrameArrives(p, f) /\ Quietly(p, f)
            /\ UNCHANGED <<orderedQueue, processed>>
            /\ Ord24(f) < Len(processed[p])
      BY <2>3 DEF ReceiveStale
    <3>2. HandsOn(p, f)
      BY <3>1 DEF HandsOn, FrameArrives
    <3>3. QED
      BY <3>1, <3>2, QuietStep DEF HandStep
  <2>4. CASE ReceiveEarly(p)
    <3>1. PICK f \in FramesInFlight(p) :
            /\ FrameArrives(p, f) /\ Quietly(p, f) /\ Early(p, f)
            /\ Ord24(f) > Len(processed[p])
      BY <2>4 DEF ReceiveEarly, Early
    <3>2. HandsOn(p, f)
      BY <3>1 DEF HandsOn, FrameArrives
    <3>3. QED
      BY <3>1, <3>2, QuietStep DEF HandStep
  <2>5. CASE ReceiveInOrder(p)
    <3>1. PICK f \in FramesInFlight(p), next \in 1..IndexMod :
            FrameArrives(p, f) /\ InOrder(p, f, next) /\ next \notin DOMAIN orderedQueue[p]
      BY <2>5 DEF ReceiveInOrder, InOrder
    <3>2. HandsOn(p, f)
      BY <3>1 DEF HandsOn, FrameArrives
    <3>3. QED
      BY <2>5, <3>2, InOrderStep DEF HandStep
  <2>6. QED
    BY <1>6, <2>1, <2>2, <2>3, <2>4, <2>5 DEF Receive
<1>7. QED
  BY <1>1, <1>2, <1>3, <1>4, <1>5, <1>6 DEF Next

(* A run ends in front of the next payload that is missing.                *)
LEMMA RunLength ==
    ASSUME TypeOK, NEW p \in Peer, NEW f \in FramesInFlight(p),
           NEW next \in 1..IndexMod, InOrder(p, f, next)
    PROVE  /\ Len(processed[p]) \in Nat /\ next \in Nat /\ next > Len(processed[p])
           /\ Len(processed'[p]) = next
<1> DEFINE run == Run(p, f, next)
<1>1. f \in Frame /\ processed[p] \in Seq(Payload)
  BY FramesInFlightAreFrames DEF TypeOK
<1>2. run \in Seq(Payload) /\ Len(run) = next - Len(processed[p])
  BY <1>1, RunTypes DEF InOrder
<1>3. processed'[p] = processed[p] \o run /\ next > Len(processed[p]) /\ next \in Nat
  BY WidthsArePositive, SMTT(60) DEF InOrder, TypeOK
<1> HIDE DEF run
<1>4. QED
  BY <1>1, <1>2, <1>3, SMTT(60)

(* The queue holds payloads ahead of their turn.                           *)
LEMMA WaitingKept ==
    ASSUME TypeOK, NEW p \in Peer, NEW f \in FramesInFlight(p), HandsOn(p, f), Waiting(p)
    PROVE  Waiting(p)'
<1>1. \A o \in DOMAIN orderedQueue[p] : o \in Nat /\ o > Len(processed[p])
  BY DEF TypeOK, IsDict, Waiting
<1>2. CASE UNCHANGED <<orderedQueue, processed>>
  BY <1>2 DEF Waiting
<1>3. CASE Early(p, f) /\ Ord24(f) > Len(processed[p])
  <2>1. orderedQueue'[p] = Put(orderedQueue[p], Ord24(f), PayloadOf(p, f))
    BY <1>3 DEF Early, TypeOK
  <2>2. DOMAIN orderedQueue'[p] = DOMAIN orderedQueue[p] \cup {Ord24(f)}
    BY <2>1 DEF Put
  <2>3. QED
    BY <1>1, <1>3, <2>2 DEF Waiting, Early
<1>4. ASSUME NEW next \in 1..IndexMod, InOrder(p, f, next), next \notin DOMAIN orderedQueue[p]
      PROVE  Waiting(p)'
  <2>1. DOMAIN orderedQueue'[p] = DOMAIN orderedQueue[p] \ (Len(processed[p]) + 1 .. next - 1)
    BY <1>4 DEF InOrder, TypeOK
  <2>2. /\ Len(processed[p]) \in Nat /\ next \in Nat
        /\ Len(processed'[p]) = next
    BY <1>4, RunLength
  <2>3. ASSUME NEW o \in DOMAIN orderedQueue'[p]
        PROVE  o > next
    <3>1. o \in Nat /\ o > Len(processed[p]) /\ o # next
      BY <1>1, <1>4, <2>1
    <3>2. o \notin Len(processed[p]) + 1 .. next - 1
      BY <2>1
    <3>3. QED
      BY <2>2, <3>1, <3>2
  <2>4. QED
    BY <2>2, <2>3 DEF Waiting
<1>5. QED
  BY <1>2, <1>3, <1>4 DEF HandsOn

(* What has been handed on is not taken back.                              *)
LEMMA HandedOnStays ==
    ASSUME TypeOK, TypeOK', NEW p \in Peer, NEW f \in FramesInFlight(p), HandsOn(p, f),
           Numbered(Other(p)), OnlySent(Other(p)), Unwrapped(Other(p)), Faithful(p),
           Faithful(p)', sent'[Other(p)] = sent[Other(p)],
           NEW i \in Nat, HandedOn(p, i)
    PROVE  HandedOn(p, i)'
<1>1. \/ UNCHANGED <<orderedQueue, processed>>
      \/ Early(p, f)
      \/ \E next \in 1..IndexMod : InOrder(p, f, next)
  BY DEF HandsOn
<1>2. CASE i <= Len(processed[p])
  <2>1. \/ processed'[p] = processed[p]
        \/ /\ Len(processed[p]) \in Nat /\ Len(processed'[p]) \in Nat
           /\ Len(processed'[p]) > Len(processed[p])
    BY <1>1, RunLength DEF Early
  <2>2. i <= Len(processed'[p])
    BY <1>2, <2>1
  <2>3. QED
    BY <2>2 DEF HandedOn
<1>3. CASE i - 1 \in DOMAIN orderedQueue[p]
  <2>1. i - 1 \in DOMAIN orderedQueue'[p] \/ (i - 1) + 1 \in DOMAIN processed'[p]
    BY <1>1, <1>3, QueuedStays
  <2>2. DOMAIN processed'[p] = 1..Len(processed'[p])
    <3>1. processed' \in [Peer -> Seq(Payload)]
      BY DEF TypeOK
    <3>2. processed'[p] \in Seq(Payload)
      BY <3>1
    <3>3. QED
      BY <3>2
  <2>3. i - 1 \in DOMAIN orderedQueue'[p] \/ i <= Len(processed'[p])
    BY <2>1, <2>2
  <2>4. QED
    BY <2>3 DEF HandedOn
<1>4. QED
  BY <1>2, <1>3 DEF HandedOn

(* A frame that completes its payload hands it on.                         *)
LEMMA CompletedIsHandedOn ==
    ASSUME TypeOK, NEW p \in Peer, NEW f \in FramesInFlight(p), HandsOn(p, f),
           NEW i \in Nat \ {0}, Ord24(f) = i - 1, Fragmented(f) => Joins(BufferWith(p, f))
    PROVE  HandedOn(p, i)'
<1>1. CASE Ord24(f) < Len(processed[p]) /\ UNCHANGED <<orderedQueue, processed>>
  <2>1. Len(processed[p]) \in Nat
    BY DEF TypeOK
  <2>2. i <= Len(processed'[p])
    BY <1>1, <2>1
  <2>3. QED
    BY <2>2 DEF HandedOn
<1>2. CASE Early(p, f)
  <2>1. orderedQueue'[p] = Put(orderedQueue[p], Ord24(f), PayloadOf(p, f))
    BY <1>2 DEF Early, TypeOK
  <2>2. i - 1 \in DOMAIN orderedQueue'[p]
    BY <2>1 DEF Put
  <2>3. QED
    BY <2>2 DEF HandedOn
<1>3. ASSUME NEW next \in 1..IndexMod, InOrder(p, f, next)
      PROVE  HandedOn(p, i)'
  <2>1. /\ Len(processed[p]) \in Nat /\ next \in Nat /\ next > Len(processed[p])
        /\ Len(processed'[p]) = next
    BY <1>3, RunLength
  <2>2. i - 1 = Len(processed[p])
    BY <1>3 DEF InOrder
  <2>3. i <= Len(processed'[p])
    BY <2>1, <2>2
  <2>4. QED
    BY <2>3 DEF HandedOn
<1>4. QED
  BY <1>1, <1>2, <1>3 DEF HandsOn

(* A step of the receiver.                                                 *)
LEMMA ReceiverHandsOn ==
    ASSUME TypeOK, TypeOK', NEW p \in Peer, HandStep(p),
           Numbered(Other(p)), OnlySent(Other(p)), Unwrapped(Other(p)), Faithful(p),
           Faithful(p)', sent'[Other(p)] = sent[Other(p)], Waiting(p), CompleteIsHandedOn(p)
    PROVE  Waiting(p)' /\ CompleteIsHandedOn(p)'
<1> DEFINE q == Other(p)
<1>1. Len(sent[q]) \in Nat
  BY OtherPeer, SMTT(60) DEF TypeOK
<1>2. CASE UNCHANGED receiveState
  BY <1>2 DEF receiveState, Waiting, CompleteIsHandedOn, HandedOn, Joins
<1>3. ASSUME NEW f \in FramesInFlight(p), HandsOn(p, f)
      PROVE  Waiting(p)' /\ CompleteIsHandedOn(p)'
  <2>1. Waiting(p)'
    BY <1>3, WaitingKept
  <2>2. PICK j \in 1..Len(sent[q]) :
          /\ f = [pkt |-> sent[q][j], idx |-> f.idx]
          /\ Ord24(f) = j - 1
          /\ Fragmented(f) => Cid16(f) = sent[q][j].comp
    BY KnownFrame
  <2>3. ASSUME NEW i \in 1..Len(sent[q]), sent[q][i].size > 1,
               sent[q][i].comp \in DOMAIN fragments'[p],
               Joins(fragments'[p][sent[q][i].comp])
        PROVE  HandedOn(p, i)'
    <3> DEFINE c == sent[q][i].comp
    <3>1. CASE Fragmented(f) /\ Cid16(f) = c
      <4>1. sent[q][j].size > 1 /\ sent[q][j].comp = c
        BY <2>2, <3>1 DEF Fragmented
      <4>2. i = j
        BY <2>3, <4>1 DEF Numbered
      <4>3. fragments'[p] = Put(fragments[p], c, BufferWith(p, f))
        BY <1>3, <3>1 DEF HandsOn, StoreFragment, TypeOK
      <4>4. fragments'[p][c] = BufferWith(p, f)
        BY <4>3 DEF Put
      <4>5. Joins(BufferWith(p, f))
        BY <2>3, <4>4
      <4>6. i \in Nat \ {0} /\ Ord24(f) = i - 1
        BY <1>1, <2>2, <4>2
      <4>7. QED
        BY <1>3, <4>5, <4>6, CompletedIsHandedOn
    <3>2. CASE ~(Fragmented(f) /\ Cid16(f) = c)
      <4>1. c \in DOMAIN fragments[p] /\ fragments'[p][c] = fragments[p][c]
        <5>1. CASE Fragmented(f)
          <6>1. fragments'[p] = Put(fragments[p], Cid16(f), BufferWith(p, f))
            BY <1>3, <5>1 DEF HandsOn, StoreFragment, TypeOK
          <6>2. QED
            BY <2>3, <3>2, <5>1, <6>1 DEF Put
        <5>2. CASE ~Fragmented(f)
          BY <1>3, <2>3, <5>2 DEF HandsOn, StoreFragment
        <5>3. QED
          BY <5>1, <5>2
      <4>2. HandedOn(p, i)
        BY <2>3, <4>1 DEF CompleteIsHandedOn
      <4>3. i \in Nat
        BY <1>1
      <4>4. QED
        BY <1>3, <4>2, <4>3, HandedOnStays
    <3>3. QED
      BY <3>1, <3>2
  <2>4. QED
    BY <2>1, <2>3 DEF CompleteIsHandedOn, HandedOn, Joins
<1>4. QED
  BY <1>2, <1>3 DEF HandStep

(* A step of the sender: what it sends anew has no buffer yet.             *)
LEMMA SenderHandsOn ==
    ASSUME TypeOK, TypeOK', NEW q \in Peer, StepOf(q), Grows(q), Numbered(q)',
           Faithful(Other(q)), Waiting(Other(q)), CompleteIsHandedOn(Other(q))
    PROVE  Waiting(Other(q))' /\ CompleteIsHandedOn(Other(q))'
<1> DEFINE p == Other(q)
<1>1. p \in Peer /\ Other(p) = q /\ p # q
  BY OtherPeer
<1>2. /\ fragments'[p] = fragments[p] /\ orderedQueue'[p] = orderedQueue[p]
      /\ processed'[p] = processed[p]
  BY <1>1, OthersAlone DEF StepOf
<1>3. Len(sent[q]) \in Nat /\ Len(sent'[q]) \in Nat
  <2>1. sent' \in [Peer -> Seq(Packet)]
    BY DEF TypeOK
  <2>2. sent'[q] \in Seq(Packet)
    BY <2>1
  <2>3. QED
    BY <2>2, SMTT(60) DEF TypeOK
<1>4. \A i \in 1..Len(sent[q]) : i \in 1..Len(sent'[q]) /\ sent'[q][i] = sent[q][i]
  BY <1>3 DEF Grows
<1>5. Waiting(p)'
  BY <1>2 DEF Waiting
<1>6. ASSUME NEW i \in 1..Len(sent'[q]), sent'[q][i].size > 1,
             sent'[q][i].comp \in DOMAIN fragments[p],
             Joins(fragments[p][sent'[q][i].comp])
      PROVE  HandedOn(p, i)
  <2>1. PICK j \in 1..Len(sent[q]) :
          sent[q][j].size > 1 /\ sent[q][j].comp = sent'[q][i].comp
    BY <1>1, <1>6, SMTT(60) DEF Faithful, BuffersFaithful
  <2>2. i = j
    BY <1>4, <1>6, <2>1, SMTT(60) DEF Numbered
  <2>3. QED
    BY <1>1, <1>6, <2>1, <2>2 DEF CompleteIsHandedOn
<1>7. CompleteIsHandedOn(p)'
  BY <1>1, <1>2, <1>6 DEF CompleteIsHandedOn, HandedOn, Joins
<1>8. QED
  BY <1>5, <1>7

(* Nothing waits at first.                                                 *)
LEMMA HandInitially == Init => HandInv
<1> SUFFICES ASSUME Init, NEW q \in Peer
             PROVE  Waiting(Other(q)) /\ CompleteIsHandedOn(Other(q))
  BY DEF HandInv
<1>1. Other(q) \in Peer /\ Other(Other(q)) = q
  BY OtherPeer
<1>2. sent[q] = <<>> /\ orderedQueue[Other(q)] = <<>>
  BY <1>1 DEF Init
<1>3. QED
  BY <1>1, <1>2 DEF Waiting, CompleteIsHandedOn

(* Every step keeps it.                                                    *)
LEMMA HandPreserved ==
    ChannelInv /\ ChannelInv' /\ HandInv /\ [Next]_vars => HandInv'
<1> SUFFICES ASSUME ChannelInv, ChannelInv', HandInv, [Next]_vars, NEW q \in Peer, Unwrapped(q)'
             PROVE  Waiting(Other(q))' /\ CompleteIsHandedOn(Other(q))'
  BY DEF HandInv
<1>1. TypeOK /\ TypeOK'
  BY DEF ChannelInv
<1>2. Other(q) \in Peer /\ Other(Other(q)) = q /\ Other(q) # q
  BY OtherPeer
<1>3. CASE UNCHANGED vars
  <2>1. Waiting(Other(q)) /\ CompleteIsHandedOn(Other(q))
    BY <1>3 DEF HandInv, vars, Unwrapped
  <2>2. QED
    BY <1>3, <2>1 DEF vars, Waiting, CompleteIsHandedOn, HandedOn, Joins
<1>4. CASE Next
  <2>1. PICK a \in Peer : StepOf(a) /\ HandStep(a)
    BY <1>1, <1>4, HandShape
  <2>2. /\ Grows(q) /\ (Unwrapped(q)' => Unwrapped(q))
        /\ q # a => sent'[q] = sent[q]
    BY <1>1, <2>1, SenderKeepsNumbers DEF StepOf, ChannelInv
  <2>3. /\ Unwrapped(q) /\ Numbered(q) /\ OnlySent(q) /\ Faithful(Other(q))
        /\ Faithful(Other(q))' /\ Numbered(q)'
        /\ Waiting(Other(q)) /\ CompleteIsHandedOn(Other(q))
    BY <2>2 DEF ChannelInv, HandInv
  <2>4. CASE q = a
    BY <1>1, <2>1, <2>2, <2>3, <2>4, SenderHandsOn
  <2>5. CASE q # a
    <3>1. Other(q) = a
      BY <1>2, <2>5 DEF Peer
    <3>2. QED
      BY <1>1, <1>2, <2>1, <2>2, <2>3, <2>5, <3>1, ReceiverHandsOn
  <2>6. QED
    BY <2>4, <2>5
<1>5. QED
  BY <1>3, <1>4

(* Where a frame of the first payload that is missing can be.              *)
LEMMA NextIsInBuffer ==
    ASSUME TypeOK, NEW p \in Peer, Numbered(Other(p)), Faithful(p), Waiting(p),
           NEW m \in Nat, m = Len(processed[p]), m + 1 \in 1..Len(sent[Other(p)]),
           NEW f \in FramesOf(sent[Other(p)][m + 1]), Has(p, f)
    PROVE  LET x == sent[Other(p)][m + 1] IN
           /\ x.size > 1 /\ x.comp \in DOMAIN fragments[p]
           /\ BufferOf(fragments[p][x.comp], x)
           /\ f.idx \in DOMAIN fragments[p][x.comp].parts
<1> DEFINE q == Other(p)
           x == sent[q][m + 1]
<1>1. f.pkt = x /\ Len(sent[q]) \in Nat
  BY OtherPeer, SMTT(60) DEF FramesOf, TypeOK
<1>2. \A i \in 1..Len(sent[q]) : sent[q][i] = x => i = m + 1
  BY SMTT(60) DEF Numbered
<1>3. ASSUME NEW n \in DOMAIN processed[p], NEW i \in DOMAIN processed[p][n],
             processed[p][n][i] = f
      PROVE  FALSE
  <2>1. processed[p] \in Seq(Payload)
    BY DEF TypeOK
  <2>2. n \in 1..Len(processed[p]) /\ n <= m
    BY <2>1
  <2>3. n <= Len(sent[q]) /\ processed[p][n] = Whole(sent[q][n])
    BY <2>2 DEF Faithful, ProcessesAsSent
  <2>4. f.pkt = sent[q][n]
    BY <1>3, <2>3 DEF Whole
  <2>5. n \in 1..Len(sent[q])
    BY <1>1, <2>2, <2>3
  <2>6. QED
    BY <1>1, <1>2, <2>2, <2>4, <2>5
<1>4. ASSUME NEW o \in DOMAIN orderedQueue[p], NEW i \in DOMAIN orderedQueue[p][o],
             orderedQueue[p][o][i] = f
      PROVE  FALSE
  <2>1. o \in Nat /\ o > m
    BY DEF TypeOK, IsDict, Waiting
  <2>2. o < Len(sent[q]) /\ orderedQueue[p][o] = Whole(sent[q][o + 1])
    BY DEF Faithful, QueueFaithful
  <2>3. f.pkt = sent[q][o + 1]
    BY <1>4, <2>2 DEF Whole
  <2>4. o + 1 \in 1..Len(sent[q])
    BY <1>1, <2>1, <2>2
  <2>5. QED
    BY <1>1, <1>2, <2>1, <2>3, <2>4
<1>5. PICK c \in DOMAIN fragments[p] : \E k \in DOMAIN fragments[p][c].parts :
          fragments[p][c].parts[k] = f
  BY <1>3, <1>4 DEF Has
<1>6. PICK k \in DOMAIN fragments[p][c].parts : fragments[p][c].parts[k] = f
  BY <1>5
<1>7. PICK j \in 1..Len(sent[q]) :
        sent[q][j].size > 1 /\ sent[q][j].comp = c /\ BufferOf(fragments[p][c], sent[q][j])
  BY DEF Faithful, BuffersFaithful
<1>8. f = [pkt |-> sent[q][j], idx |-> k]
  BY <1>6, <1>7 DEF BufferOf
<1>9. j = m + 1 /\ f.idx = k
  BY <1>1, <1>2, <1>8
<1>10. QED
  BY <1>6, <1>7, <1>9

(* A payload is kept back only for a frame that has not arrived: once p    *)
(* has every frame of the first n payloads it has processed all of them,   *)
(* until a counter of the sender wraps.                                    *)
THEOREM NothingCompleteWaits == Spec => []WaitsOnlyForMissing
<1>1. ChannelInv /\ HandInv => WaitsOnlyForMissing
  <2> SUFFICES ASSUME ChannelInv, HandInv, NEW p \in Peer, Unwrapped(Other(p)),
                      NEW n \in DOMAIN sent[Other(p)],
                      \A i \in 1..n : \A f \in FramesOf(sent[Other(p)][i]) : Has(p, f),
                      ~(n <= Len(processed[p]))
               PROVE  FALSE
    BY DEF WaitsOnlyForMissing
  <2> DEFINE q == Other(p)
             m == Len(processed[p])
             x == sent[q][m + 1]
  <2>1. q \in Peer /\ Other(q) = p
    BY OtherPeer
  <2>2. TypeOK /\ Numbered(q) /\ Faithful(p) /\ Waiting(p) /\ CompleteIsHandedOn(p)
    BY <2>1 DEF ChannelInv, HandInv
  <2>3. sent[q] \in Seq(Packet) /\ processed[p] \in Seq(Payload)
    BY <2>1, <2>2 DEF TypeOK
  <2>4. m \in Nat /\ m + 1 \in 1..n /\ m + 1 \in 1..Len(sent[q])
    BY <2>3
  <2>5. x.size \in Nat \ {0}
    <3>1. x \in Packet
      BY <2>3, <2>4
    <3> HIDE DEF x
    <3>2. QED
      BY <3>1 DEF Packet
  <2>6. \A k \in 0..x.size - 1 : [pkt |-> x, idx |-> k] \in FramesOf(x)
    BY DEF FramesOf
  <2>7. \A k \in 0..x.size - 1 :
          /\ x.size > 1 /\ x.comp \in DOMAIN fragments[p]
          /\ BufferOf(fragments[p][x.comp], x)
          /\ k \in DOMAIN fragments[p][x.comp].parts
    <3> TAKE k \in 0..x.size - 1
    <3> DEFINE f == [pkt |-> x, idx |-> k]
    <3>1. f \in FramesOf(x) /\ Has(p, f) /\ f.idx = k
      BY <2>4, <2>6
    <3> HIDE DEF f, m
    <3>2. /\ x.size > 1 /\ x.comp \in DOMAIN fragments[p]
          /\ BufferOf(fragments[p][x.comp], x)
          /\ f.idx \in DOMAIN fragments[p][x.comp].parts
      BY <2>2, <2>4, <3>1, NextIsInBuffer DEF m
    <3>3. QED
      BY <3>1, <3>2
  <2>8. 0 \in 0..x.size - 1
    BY <2>5
  <2> DEFINE buf == fragments[p][x.comp]
  <2>9. x.size > 1 /\ x.comp \in DOMAIN fragments[p] /\ BufferOf(buf, x) /\ BufferOK(buf)
    BY <2>2, <2>7, <2>8 DEF TypeOK
  <2>10. 0..x.size - 1 \subseteq DOMAIN buf.parts
    BY <2>7
  <2>11. DOMAIN buf.parts \subseteq 0..x.size - 1
    <3> HIDE DEF x, buf
    <3>1. ASSUME NEW k \in DOMAIN buf.parts
          PROVE  k \in 0..x.size - 1
      <4>1. buf.parts \in [DOMAIN buf.parts -> Frame]
        BY <2>9 DEF BufferOK, IsDict
      <4>2. PICK h \in Frame : h = buf.parts[k]
        BY <4>1
      <4>3. h = [pkt |-> x, idx |-> k]
        BY <2>9, <4>2 DEF BufferOf
      <4>4. h.idx \in Nat /\ h.idx < h.pkt.size
        BY DEF Frame
      <4>5. QED
        BY <2>5, <4>3, <4>4
    <3>2. QED
      BY <3>1
  <2>12. Joins(buf)
    <3> HIDE DEF x, buf
    <3>1. buf.size = x.size
      BY <2>9 DEF BufferOf
    <3>2. DOMAIN buf.parts = 0..x.size - 1
      BY <2>10, <2>11
    <3>3. QED
      BY <3>1, <3>2 DEF Joins
  <2>13. HandedOn(p, m + 1)
    BY <2>2, <2>4, <2>9, <2>12 DEF CompleteIsHandedOn
  <2>14. m \in DOMAIN orderedQueue[p]
    BY <2>4, <2>13 DEF HandedOn
  <2>15. QED
    BY <2>2, <2>4, <2>14 DEF Waiting
<1>2. QED
  BY Invariant, HandInitially, HandPreserved, <1>1, PTL DEF Spec

-----------------------------------------------------------------------------
(* Without a loss, what is not here is on its way.                         *)

(* What a takes from the network it takes in, unless it is lost; and what  *)
(* it sends it puts there.                                                 *)
Travels(a) ==
    \E t \in Seq(Packet) : \E taken, given :
        /\ Transmit(a, taken, given)
        /\ sent' = [sent EXCEPT ![a] = @ \o t]
        /\ \A k \in 1..Len(t) : \A h \in FramesOf(t[k]) : FrameSet(h) \in given
        /\ \A dg \in taken : dg.kind = "frameset" => lost' > lost \/ Takes(a, dg.frame)
        /\ lost' \in {lost, lost + 1}

(* A step that sends nothing new.                                          *)
LEMMA NothingNewTravels ==
    ASSUME TypeOK, NEW a \in Peer, NEW taken, NEW given, Transmit(a, taken, given),
           sent' = sent, lost' \in {lost, lost + 1},
           \A dg \in taken : dg.kind = "frameset" => lost' > lost \/ Takes(a, dg.frame)
    PROVE  Travels(a)
<1>1. sent[a] \in Seq(Packet)
  BY DEF TypeOK
<1>2. sent[a] \o <<>> = sent[a] /\ <<>> \in Seq(Packet) /\ 1..Len(<<>>) = {}
  BY <1>1
<1>3. sent' = [sent EXCEPT ![a] = @ \o <<>>]
  BY <1>2 DEF TypeOK
<1>4. \A k \in 1..Len(<<>>) : \A h \in FramesOf(<<>>[k]) : FrameSet(h) \in given
  BY <1>2
<1>5. QED
  BY <1>2, <1>3, <1>4 DEF Travels

(* One that sends one payload.                                             *)
LEMMA OneSentTravels ==
    ASSUME TypeOK, NEW a \in Peer, NEW kind \in Kind, NEW size \in Nat \ {0},
           SendFrame(a, kind, size), NEW given, Transmit(a, {}, given), lost' = lost,
           \A f \in FramesOf(PacketOf(a, kind, size)) : FrameSet(f) \in given
    PROVE  Travels(a)
<1>1. PICK x : x = PacketOf(a, kind, size)
  OBVIOUS
<1>2. x \in Packet /\ sent[a] \in Seq(Packet)
  BY <1>1, SendFrameTypes DEF TypeOK
<1>3. sent' = [sent EXCEPT ![a] = Append(@, x)]
  BY <1>1 DEF SendFrame
<1>4. \A f \in FramesOf(x) : FrameSet(f) \in given
  BY <1>1
<1>5. PICK t : t = <<x>>
  OBVIOUS
<1>6. /\ t \in Seq(Packet) /\ Len(t) = 1 /\ t[1] = x
      /\ Append(sent[a], x) = sent[a] \o t
  BY <1>2, <1>5
<1>7. sent' = [sent EXCEPT ![a] = @ \o t]
  BY <1>3, <1>6
<1>8. \A k \in 1..Len(t) : \A h \in FramesOf(t[k]) : FrameSet(h) \in given
  BY <1>4, <1>6
<1>9. PICK taken : taken = {}
  OBVIOUS
<1>10. /\ Transmit(a, taken, given) /\ lost' \in {lost, lost + 1}
       /\ \A dg \in taken : dg.kind = "frameset" => lost' > lost \/ Takes(a, dg.frame)
  BY <1>9
<1>11. QED
  BY <1>6, <1>7, <1>8, <1>10 DEF Travels

(* One that sends replies.                                                 *)
LEMMA RepliesTravel ==
    ASSUME TypeOK, NEW p \in Peer, ReceiveInOrder(p)
    PROVE  Travels(p)
<1>1. PICK f \in FramesInFlight(p), next \in 1..IndexMod :
          /\ FrameArrives(p, f)
          /\ InOrder(p, f, next)
          /\ lost' = lost
          /\ \E g \in Enumerations(Answered(p, Run(p, f, next))) :
                LET kinds == Answers(p, Run(p, f, next), g) IN
                /\ SendReplies(p, kinds)
                /\ Transmit(p, {FrameSet(f)},
                            {FrameSet(h) : h \in SingleFrames(PacketsOf(p, kinds))})
  BY DEF ReceiveInOrder, InOrder, networkState
<1>2. f \in Frame
  BY FramesInFlightAreFrames
<1>3. Run(p, f, next) \in Seq(Payload)
  BY <1>1, <1>2, RunTypes DEF InOrder
<1>4. PICK kinds \in Seq(Kind) :
          /\ SendReplies(p, kinds)
          /\ Transmit(p, {FrameSet(f)},
                      {FrameSet(h) : h \in SingleFrames(PacketsOf(p, kinds))})
  BY <1>1, <1>3, AnswersTypes
<1>5. PICK t : t = PacketsOf(p, kinds)
  OBVIOUS
<1>6. PICK given : given = {FrameSet(h) : h \in SingleFrames(t)}
  OBVIOUS
<1>7. t \in Seq(Packet) /\ Len(t) = Len(kinds) /\ sent' = [sent EXCEPT ![p] = @ \o t]
  BY <1>4, <1>5, SendRepliesTypes DEF SendReplies
<1>8. Transmit(p, {FrameSet(f)}, given)
  BY <1>4, <1>5, <1>6
<1>9. \A k \in 1..Len(kinds) : t[k].size = 1
  BY <1>5 DEF PacketsOf
<1>10. ASSUME NEW k \in 1..Len(t), NEW h \in FramesOf(t[k])
       PROVE  FrameSet(h) \in given
  <2>1. h = [pkt |-> t[k], idx |-> 0]
    BY <1>7, <1>9 DEF FramesOf
  <2>2. QED
    BY <1>6, <2>1 DEF SingleFrames
<1>11. Takes(p, f)
  BY <1>1 DEF Takes, FrameArrives
<1>12. PICK taken : taken = {FrameSet(f)}
  OBVIOUS
<1>13. /\ Transmit(p, taken, given) /\ lost' \in {lost, lost + 1}
       /\ \A dg \in taken : dg.kind = "frameset" => lost' > lost \/ Takes(p, dg.frame)
  BY <1>1, <1>8, <1>11, <1>12 DEF FrameSet
<1>14. QED
  BY <1>7, <1>10, <1>13 DEF Travels

(* Every step has this shape, of the same peer as the others.              *)
LEMMA TravelShape ==
    ASSUME TypeOK, Next
    PROVE  \E a \in Peer : StepOf(a) /\ Travels(a)
<1>0. lost \in Nat
  BY DEF TypeOK
<1>1. ASSUME NEW p \in Peer, NEW kind \in Kind, NEW size \in Nat \ {0}, Send(p, kind, size)
      PROVE  StepOf(p) /\ Travels(p)
  <2> DEFINE given == {FrameSet(f) : f \in FramesOf(PacketOf(p, kind, size))}
  <2>1. /\ SendFrame(p, kind, size) /\ Transmit(p, {}, given) /\ lost' = lost
        /\ \A f \in FramesOf(PacketOf(p, kind, size)) : FrameSet(f) \in given
    BY <1>1 DEF Send, networkState
  <2> HIDE DEF given
  <2>2. QED
    BY <1>1, <2>1, OneSentTravels, SendStep
<1>2. CASE SendConnectionRequest
  BY <1>1, <1>2 DEF SendConnectionRequest, Kind, Peer
<1>3. ASSUME NEW p \in Peer, WritePacket(p) \/ SendPing(p) PROVE StepOf(p) /\ Travels(p)
  BY <1>1, <1>3, WidthsArePositive DEF WritePacket, SendPing, Kind
<1>4. ASSUME NEW p \in Peer, Close(p) PROVE StepOf(p) /\ Travels(p)
  <2> DEFINE frames == {FrameSet(f) : f \in FramesOf(PacketOf(p, "disconnect", 1))}
             given == Acknowledgements(p) \cup frames
  <2>1. /\ SendFrame(p, "disconnect", 1) /\ Transmit(p, {}, given) /\ lost' = lost
        /\ \A f \in FramesOf(PacketOf(p, "disconnect", 1)) : FrameSet(f) \in given
    BY <1>4 DEF Close, networkState
  <2>2. "disconnect" \in Kind /\ 1 \in Nat \ {0}
    BY DEF Kind
  <2> HIDE DEF given
  <2>3. QED
    BY <1>4, <2>1, <2>2, OneSentTravels, CloseStep
<1>5. ASSUME NEW p \in Peer, Tick(p) PROVE StepOf(p) /\ Travels(p)
  <2>1. Transmit(p, {}, Acknowledgements(p)) /\ sent' = sent /\ lost' = lost
    BY <1>5 DEF Tick, sendState, networkState
  <2>2. QED
    BY <1>5, <2>1, NothingNewTravels, TickStep
<1>6. ASSUME NEW p \in Peer, ReceiveAck(p) PROVE StepOf(p) /\ Travels(p)
  <2>1. PICK dg : /\ dg.kind = "ack" /\ Transmit(p, {dg}, {})
                  /\ sent' = sent /\ lost' = lost
    BY <1>6 DEF ReceiveAck, sendState, networkState
  <2>2. QED
    BY <1>6, <2>1, NothingNewTravels, AckStep
<1>7. ASSUME NEW p \in Peer, ReceiveNack(p) PROVE StepOf(p) /\ Travels(p)
  <2>1. PICK dg, given : /\ dg.kind = "nack" /\ Transmit(p, {dg}, given)
                         /\ sent' = sent /\ lost' = lost
    BY <1>7 DEF ReceiveNack, sendState, networkState
  <2>2. QED
    BY <1>7, <2>1, NothingNewTravels, NackStep
<1>8. ASSUME NEW p \in Peer, NEW f \in FramesInFlight(p),
             FrameArrives(p, f), Quietly(p, f), Takes(p, f),
             UNCHANGED <<orderedQueue, processed>> \/ Early(p, f)
      PROVE  StepOf(p) /\ Travels(p)
  <2>1. Transmit(p, {FrameSet(f)}, {}) /\ sent' = sent /\ lost' = lost
    BY <1>8 DEF Quietly, sendState, networkState
  <2>2. \A dg \in {FrameSet(f)} : dg.kind = "frameset" => lost' > lost \/ Takes(p, dg.frame)
    BY <1>8 DEF FrameSet
  <2>3. QED
    BY <1>8, <2>1, <2>2, NothingNewTravels, QuietStep
<1>9. ASSUME NEW p \in Peer, Receive(p) PROVE StepOf(p) /\ Travels(p)
  <2>1. CASE ReceiveFragment(p) \/ ReceiveMisfit(p) \/ ReceiveStale(p)
    <3>1. PICK f \in FramesInFlight(p) :
            /\ FrameArrives(p, f) /\ Quietly(p, f)
            /\ UNCHANGED <<orderedQueue, processed>>
            /\ Fragmented(f) \/ Ord24(f) < Len(processed[p])
      BY <2>1 DEF ReceiveFragment, ReceiveMisfit, ReceiveStale
    <3>2. Takes(p, f)
      BY <3>1 DEF Takes, FrameArrives
    <3>3. QED
      BY <1>8, <3>1, <3>2
  <2>2. CASE ReceiveEarly(p)
    <3>1. PICK f \in FramesInFlight(p) :
            FrameArrives(p, f) /\ Quietly(p, f) /\ Early(p, f)
      BY <2>2 DEF ReceiveEarly, Early
    <3>2. Takes(p, f)
      BY <3>1 DEF Takes, FrameArrives
    <3>3. QED
      BY <1>8, <3>1, <3>2
  <2>3. QED
    BY <1>6, <1>7, <1>9, <2>1, <2>2, InOrderStep, RepliesTravel DEF Receive
<1>10. ASSUME NEW p \in Peer, Lose(p) PROVE StepOf(p) /\ Travels(p)
  <2>1. PICK dg : Transmit(p, {dg}, {}) /\ sent' = sent /\ lost' = lost + 1
    BY <1>10 DEF Lose, sendState
  <2>2. lost' > lost
    BY <1>0, <2>1
  <2>3. QED
    BY <1>10, <2>1, <2>2, NothingNewTravels, LoseStep
<1>11. ASSUME NEW p \in Peer, Copy(p) PROVE StepOf(Other(p)) /\ Travels(Other(p))
  <2>1. PICK dg : Transmit(Other(p), {}, {dg}) /\ sent' = sent /\ lost' = lost
    BY <1>11 DEF Copy, sendState
  <2>2. QED
    BY <1>11, <2>1, NothingNewTravels, CopyStep, OtherPeer
<1>12. QED
  BY <1>2, <1>3, <1>4, <1>5, <1>9, <1>10, <1>11, OtherPeer DEF Next

(* What is not taken stays in the network.                                 *)
LEMMA UntakenStays ==
    ASSUME TypeOK, NEW p \in Peer, NEW taken, NEW given, Transmit(p, taken, given)
    PROVE  InFlight(p) \ taken \subseteq InFlight(p)'
<1>1. IsABag(net[p]) /\ DOMAIN net = Peer
  BY DEF TypeOK
<1>2. net'[p] = net[p] (-) SetToBag(taken)
  BY <1>1, OtherPeer DEF Transmit
<1>3. DOMAIN net[p] \ taken \subseteq DOMAIN (net[p] (-) SetToBag(taken))
  BY <1>1 DEF IsABag, SetToBag, (-)
<1>4. QED
  BY <1>2, <1>3 DEF InFlight, BagToSet

(* Each frame that was sent to p is there or on its way.                   *)
Travelling(p) ==
    \A i \in 1..Len(sent[Other(p)]) : \A f \in FramesOf(sent[Other(p)][i]) :
        FrameSet(f) \in InFlight(p) \/ Has(p, f)

TravelInv == lost = 0 => \A q \in Peer : Unwrapped(q) => Travelling(Other(q))

(* The receiver acts.                                                      *)
LEMMA ReceiverTravels ==
    ASSUME TypeOK, TypeOK', NEW p \in Peer, StepOf(p), Travels(p), lost' = 0,
           Numbered(Other(p)), OnlySent(Other(p)), Unwrapped(Other(p)), Faithful(p),
           Faithful(p)', sent'[Other(p)] = sent[Other(p)], Travelling(p)
    PROVE  Travelling(p)'
<1>1. PICK taken, given :
        /\ Transmit(p, taken, given)
        /\ \A dg \in taken : dg.kind = "frameset" => lost' > lost \/ Takes(p, dg.frame)
  BY DEF Travels
<1>2. ~(lost' > lost)
  BY DEF TypeOK
<1>3. ASSUME NEW i \in 1..Len(sent[Other(p)]), NEW f \in FramesOf(sent[Other(p)][i])
      PROVE  FrameSet(f) \in InFlight(p)' \/ Has(p, f)'
  <2>1. CASE Has(p, f)
    BY <2>1, HasKept DEF StepOf
  <2>2. CASE FrameSet(f) \in InFlight(p) /\ FrameSet(f) \notin taken
    BY <1>1, <2>2, UntakenStays
  <2>3. CASE FrameSet(f) \in InFlight(p) /\ FrameSet(f) \in taken
    <3>1. FrameSet(f).kind = "frameset" /\ FrameSet(f).frame = f
      BY DEF FrameSet
    <3>2. f \in FramesInFlight(p)
      BY <2>3, <3>1 DEF FramesInFlight
    <3>3. Takes(p, f)
      BY <1>1, <1>2, <2>3, <3>1
    <3>4. QED
      BY <3>2, <3>3, TakenIsThere
  <2>4. QED
    BY <2>1, <2>2, <2>3 DEF Travelling
<1>4. QED
  BY <1>3 DEF Travelling, FramesOf, FrameSet

(* The sender acts.                                                        *)
LEMMA SenderTravels ==
    ASSUME TypeOK, TypeOK', NEW q \in Peer, StepOf(q), Travels(q), Travelling(Other(q))
    PROVE  Travelling(Other(q))'
<1> DEFINE p == Other(q)
           s == sent[q]
<1>1. p \in Peer /\ Other(p) = q /\ p # q
  BY OtherPeer
<1>2. \A g : Has(p, g)' <=> Has(p, g)
  <2>1. /\ fragments'[p] = fragments[p] /\ orderedQueue'[p] = orderedQueue[p]
        /\ processed'[p] = processed[p]
    BY <1>1, OthersAlone DEF StepOf
  <2>2. QED
    BY <2>1 DEF Has
<1>3. PICK t \in Seq(Packet) : \E taken, given :
        /\ Transmit(q, taken, given)
        /\ sent' = [sent EXCEPT ![q] = @ \o t]
        /\ \A k \in 1..Len(t) : \A h \in FramesOf(t[k]) : FrameSet(h) \in given
  BY DEF Travels
<1>4. /\ InFlight(p) \subseteq InFlight(p)'
      /\ \A k \in 1..Len(t) : \A h \in FramesOf(t[k]) : FrameSet(h) \in InFlight(p)'
  <2>1. PICK taken, given :
          /\ Transmit(q, taken, given)
          /\ \A k \in 1..Len(t) : \A h \in FramesOf(t[k]) : FrameSet(h) \in given
    BY <1>3
  <2>2. InFlight(p)' = InFlight(p) \cup given
    BY <2>1, TransmitBags DEF TypeOK
  <2>3. QED
    BY <2>1, <2>2
<1>5. s \in Seq(Packet) /\ sent'[q] = s \o t
  BY <1>3 DEF TypeOK
<1>6. \A i \in 1..Len(s) : \A f \in FramesOf(s[i]) : FrameSet(f) \in InFlight(p) \/ Has(p, f)
  BY <1>1 DEF Travelling
<1> HIDE DEF p, s
<1>7. ASSUME NEW i \in 1..Len(s \o t), NEW f \in FramesOf((s \o t)[i])
      PROVE  FrameSet(f) \in InFlight(p)' \/ Has(p, f)'
  <2>1. CASE i \in 1..Len(s)
    <3>1. (s \o t)[i] = s[i]
      BY <1>5, <2>1, ConcatParts
    <3>2. QED
      BY <1>2, <1>4, <1>6, <1>7, <2>1, <3>1
  <2>2. CASE i \notin 1..Len(s)
    <3>1. PICK k \in 1..Len(t) : (s \o t)[i] = t[k]
      BY <1>5, <2>2, ConcatParts
    <3>2. QED
      BY <1>4, <1>7, <3>1
  <2>3. QED
    BY <2>1, <2>2
<1>8. Travelling(p)'
  BY <1>1, <1>5, <1>7 DEF Travelling, FramesOf, FrameSet
<1>9. QED
  BY <1>8 DEF p

(* Every step keeps it.                                                    *)
LEMMA TravelPreserved ==
    ChannelInv /\ ChannelInv' /\ TravelInv /\ [Next]_vars => TravelInv'
<1> SUFFICES ASSUME ChannelInv, ChannelInv', TravelInv, [Next]_vars,
                    lost' = 0, NEW q \in Peer, Unwrapped(q)'
             PROVE  Travelling(Other(q))'
  BY DEF TravelInv
<1>1. TypeOK /\ TypeOK'
  BY DEF ChannelInv
<1>2. Other(q) \in Peer /\ Other(Other(q)) = q /\ Other(q) # q
  BY OtherPeer
<1>3. CASE UNCHANGED vars
  <2>1. Travelling(Other(q))
    BY <1>3 DEF TravelInv, vars, Unwrapped
  <2>2. \A g : Has(Other(q), g)' <=> Has(Other(q), g)
    BY <1>3 DEF vars, Has
  <2>3. InFlight(Other(q))' = InFlight(Other(q)) /\ sent' = sent
    BY <1>3 DEF vars, InFlight
  <2>4. \A i \in 1..Len(sent'[q]) : \A f \in FramesOf(sent'[q][i]) :
            FrameSet(f) \in InFlight(Other(q))' \/ Has(Other(q), f)'
    BY <1>2, <2>1, <2>2, <2>3 DEF Travelling
  <2>5. QED
    BY <1>2, <2>4 DEF Travelling, FramesOf, FrameSet
<1>4. CASE Next
  <2>1. PICK a \in Peer : StepOf(a) /\ Travels(a)
    BY <1>1, <1>4, TravelShape
  <2>2. lost = 0
    BY <1>1, <2>1 DEF Travels, TypeOK
  <2>3. /\ Unwrapped(q)' => Unwrapped(q)
        /\ q # a => sent'[q] = sent[q]
    BY <1>1, <2>1, SenderKeepsNumbers DEF StepOf, ChannelInv
  <2>4. /\ Unwrapped(q) /\ Numbered(q) /\ OnlySent(q) /\ Faithful(Other(q))
        /\ Faithful(Other(q))' /\ Travelling(Other(q))
    BY <2>2, <2>3 DEF ChannelInv, TravelInv
  <2>5. CASE q = a
    BY <1>1, <2>1, <2>4, <2>5, SenderTravels
  <2>6. CASE q # a
    <3>1. Other(q) = a
      BY <1>2, <2>6 DEF Peer
    <3>2. QED
      BY <1>1, <1>2, <2>1, <2>3, <2>4, <2>6, <3>1, ReceiverTravels
  <2>7. QED
    BY <2>5, <2>6
<1>5. QED
  BY <1>3, <1>4

(* Without a loss, a peer to which no frame set is on its way has          *)
(* processed everything that was sent to it, until a counter of the sender *)
(* wraps.                                                                  *)
THEOREM AllArrivedIsProcessed == Spec => []QuietIsDone
<1>1. Init => TravelInv
  BY OtherPeer DEF Init, TravelInv, Travelling
<1>2. ChannelInv /\ WaitsOnlyForMissing /\ TravelInv => QuietIsDone
  <2> SUFFICES ASSUME ChannelInv, WaitsOnlyForMissing, TravelInv, lost = 0,
                      NEW p \in Peer, Unwrapped(Other(p)), FramesInFlight(p) = {}
               PROVE  Len(processed[p]) = Len(sent[Other(p)])
    BY DEF QuietIsDone
  <2> DEFINE q == Other(p)
             n == Len(sent[q])
             m == Len(processed[p])
  <2>1. q \in Peer /\ Other(q) = p
    BY OtherPeer
  <2>2. Faithful(p) /\ Travelling(p)
    BY <2>1 DEF ChannelInv, TravelInv
  <2>3. sent[q] \in Seq(Packet) /\ processed[p] \in Seq(Payload)
    BY <2>1 DEF ChannelInv, TypeOK
  <2>4. n \in Nat /\ m \in Nat /\ DOMAIN sent[q] = 1..n
    BY <2>3
  <2>5. m <= n
    <3>1. m = 0 \/ m \in 1..m
      BY <2>4
    <3>2. QED
      BY <2>2, <2>4, <3>1 DEF Faithful, ProcessesAsSent
  <2>6. \A f : FrameSet(f) \notin InFlight(p)
    <3> SUFFICES ASSUME NEW f, FrameSet(f) \in InFlight(p) PROVE FALSE
      OBVIOUS
    <3>1. FrameSet(f).kind = "frameset" /\ FrameSet(f).frame = f
      BY DEF FrameSet
    <3>2. QED
      BY <3>1 DEF FramesInFlight
  <2>7. \A i \in 1..n : \A f \in FramesOf(sent[q][i]) : Has(p, f)
    BY <2>2, <2>6 DEF Travelling
  <2>8. n = 0 \/ n \in DOMAIN sent[q]
    BY <2>4
  <2>9. n <= m
    <3>1. CASE n = 0
      BY <2>4, <3>1
    <3>2. CASE n \in DOMAIN sent[q]
      BY <2>7, <3>2 DEF WaitsOnlyForMissing
    <3>3. QED
      BY <2>8, <3>1, <3>2
  <2>10. QED
    BY <2>4, <2>5, <2>9
<1>3. QED
  BY Invariant, NothingCompleteWaits, <1>1, TravelPreserved, <1>2, PTL DEF Spec
-----------------------------------------------------------------------------
(* What a receiver has passed over is on its way or asked for.             *)

(* A datagram that a takes is lost, or the frame in it is taken in, or     *)
(* what it asks for is sent again.                                         *)
Handles(a, dg, given) ==
    \/ lost' > lost
    \/ dg.kind = "ack"
    \/ dg.kind = "frameset" /\ Takes(a, dg.frame)
    \/ /\ dg.kind = "nack"
       /\ \A g \in recovery[a] : SeqNum(g) \in dg.seqs => FrameSet(g) \in given

(* a notes the number of a frame that it takes in, or sends its list.      *)
Notes(a, given) ==
    \/ UNCHANGED <<nackQueue, expectedSeq>>
    \/ /\ nackQueue' = [nackQueue EXCEPT ![a] = {}] /\ UNCHANGED expectedSeq
       /\ \A s \in nackQueue[a] : \E dg \in given : dg.kind = "nack" /\ s \in dg.seqs
    \/ \E f \in FramesInFlight(a) : NoteSequence(a, f) /\ Takes(a, f)

Repairs(a) ==
    \E taken, given :
        /\ Transmit(a, taken, given)
        /\ \A dg \in taken : Handles(a, dg, given)
        /\ Notes(a, given)
        /\ lost' \in {lost, lost + 1}

(* A step that takes nothing, and one that takes one datagram.             *)
LEMMA NothingTakenRepairs ==
    ASSUME NEW a \in Peer, NEW given, Transmit(a, {}, given), Notes(a, given), lost' = lost
    PROVE  Repairs(a)
<1>1. \A dg \in {} : Handles(a, dg, given)
  OBVIOUS
<1>2. QED
  BY <1>1 DEF Repairs

LEMMA OneTakenRepairs ==
    ASSUME NEW a \in Peer, NEW dg, NEW given, Transmit(a, {dg}, given),
           Handles(a, dg, given), Notes(a, given), lost' \in {lost, lost + 1}
    PROVE  Repairs(a)
<1>1. \A d \in {dg} : Handles(a, d, given)
  OBVIOUS
<1>2. QED
  BY <1>1 DEF Repairs

(* The list of a flush goes out with it.                                   *)
LEMMA FlushNotes ==
    ASSUME NEW a \in Peer, NEW given, FlushAcks(a), UNCHANGED expectedSeq,
           Acknowledgements(a) \subseteq given
    PROVE  Notes(a, given)
<1>1. ASSUME NEW s \in nackQueue[a]
      PROVE  \E dg \in given : dg.kind = "nack" /\ s \in dg.seqs
  <2>1. PICK dg : dg = [kind |-> "nack", seqs |-> nackQueue[a]]
    OBVIOUS
  <2>2. dg.kind = "nack" /\ dg.seqs = nackQueue[a] /\ dg.seqs # {}
    BY <2>1
  <2>3. dg \in Acknowledgements(a)
    BY <2>1, <2>2 DEF Acknowledgements
  <2>4. QED
    BY <2>2, <2>3
<1>2. QED
  BY <1>1 DEF FlushAcks, Notes

(* A frame that arrives, in any of the ways of the handler.                *)
LEMMA ArrivalRepairs ==
    ASSUME NEW a \in Peer, NEW f \in FramesInFlight(a), FrameArrives(a, f), Takes(a, f),
           NEW given, Transmit(a, {FrameSet(f)}, given), lost' = lost
    PROVE  Repairs(a)
<1>1. Handles(a, FrameSet(f), given)
  <2>1. FrameSet(f).kind = "frameset" /\ FrameSet(f).frame = f
    BY DEF FrameSet
  <2>2. QED
    BY <2>1 DEF Handles
<1>2. Notes(a, given)
  BY DEF Notes, FrameArrives
<1>3. QED
  BY <1>1, <1>2, OneTakenRepairs

(* Every step has this shape too.                                          *)
LEMMA RepairShape ==
    ASSUME TypeOK, Next
    PROVE  \E a \in Peer : StepOf(a) /\ Repairs(a)
<1>1. ASSUME NEW p \in Peer, NEW kind \in Kind, NEW size \in Nat \ {0}, Send(p, kind, size)
      PROVE  StepOf(p) /\ Repairs(p)
  <2>1. PICK given : Transmit(p, {}, given)
    BY <1>1 DEF Send
  <2>2. lost' = lost /\ Notes(p, given)
    BY <1>1 DEF Send, receiveState, networkState, Notes
  <2>3. QED
    BY <1>1, <2>1, <2>2, NothingTakenRepairs, SendStep
<1>2. CASE SendConnectionRequest
  BY <1>1, <1>2 DEF SendConnectionRequest, Kind, Peer
<1>3. ASSUME NEW p \in Peer, WritePacket(p) \/ SendPing(p) PROVE StepOf(p) /\ Repairs(p)
  BY <1>1, <1>3, WidthsArePositive DEF WritePacket, SendPing, Kind
<1>4. ASSUME NEW p \in Peer, Close(p) PROVE StepOf(p) /\ Repairs(p)
  <2>1. PICK given : Transmit(p, {}, given) /\ Acknowledgements(p) \subseteq given
    BY <1>4 DEF Close
  <2>2. FlushAcks(p) /\ lost' = lost /\ expectedSeq' = expectedSeq
    BY <1>4 DEF Close, receiveState, networkState
  <2>3. QED
    BY <1>4, <2>1, <2>2, FlushNotes, NothingTakenRepairs, CloseStep
<1>5. ASSUME NEW p \in Peer, Tick(p) PROVE StepOf(p) /\ Repairs(p)
  <2>1. /\ Transmit(p, {}, Acknowledgements(p)) /\ FlushAcks(p) /\ lost' = lost
        /\ expectedSeq' = expectedSeq
    BY <1>5 DEF Tick, receiveState, networkState
  <2>2. QED
    BY <1>5, <2>1, FlushNotes, NothingTakenRepairs, TickStep
<1>6. ASSUME NEW p \in Peer, ReceiveAck(p) PROVE StepOf(p) /\ Repairs(p)
  <2>1. PICK dg : /\ dg.kind = "ack" /\ Transmit(p, {dg}, {}) /\ lost' = lost
                  /\ UNCHANGED <<nackQueue, expectedSeq>>
    BY <1>6 DEF ReceiveAck, receiveState, networkState
  <2>2. QED
    BY <1>6, <2>1, OneTakenRepairs, AckStep DEF Handles, Notes
<1>7. ASSUME NEW p \in Peer, ReceiveNack(p) PROVE StepOf(p) /\ Repairs(p)
  <2>1. PICK dg :
          /\ dg.kind = "nack" /\ lost' = lost
          /\ Transmit(p, {dg},
                 {FrameSet(f) : f \in {g \in recovery[p] : SeqNum(g) \in dg.seqs}})
          /\ UNCHANGED <<nackQueue, expectedSeq>>
    BY <1>7 DEF ReceiveNack, receiveState, networkState
  <2>2. PICK given : given = {FrameSet(f) : f \in {g \in recovery[p] : SeqNum(g) \in dg.seqs}}
    OBVIOUS
  <2>3. Handles(p, dg, given)
    BY <2>1, <2>2 DEF Handles
  <2>4. QED
    BY <1>7, <2>1, <2>2, <2>3, OneTakenRepairs, NackStep DEF Notes
<1>8. ASSUME NEW p \in Peer, Receive(p) PROVE StepOf(p) /\ Repairs(p)
  <2>1. CASE ReceiveFragment(p) \/ ReceiveMisfit(p) \/ ReceiveStale(p)
    <3>1. PICK f \in FramesInFlight(p) :
            /\ FrameArrives(p, f) /\ Quietly(p, f)
            /\ UNCHANGED <<orderedQueue, processed>>
            /\ Fragmented(f) \/ Ord24(f) < Len(processed[p])
      BY <2>1 DEF ReceiveFragment, ReceiveMisfit, ReceiveStale
    <3>2. Takes(p, f)
      BY <3>1 DEF Takes, FrameArrives
    <3>3. QED
      BY <3>1, <3>2, ArrivalRepairs, QuietStep DEF Quietly, networkState
  <2>2. CASE ReceiveEarly(p)
    <3>1. PICK f \in FramesInFlight(p) :
            FrameArrives(p, f) /\ Quietly(p, f) /\ Early(p, f)
      BY <2>2 DEF ReceiveEarly, Early
    <3>2. Takes(p, f)
      BY <3>1 DEF Takes, FrameArrives
    <3>3. QED
      BY <3>1, <3>2, ArrivalRepairs, QuietStep DEF Quietly, networkState
  <2>3. CASE ReceiveInOrder(p)
    <3>1. PICK f \in FramesInFlight(p), next \in 1..IndexMod :
            /\ FrameArrives(p, f) /\ InOrder(p, f, next) /\ lost' = lost
            /\ \E given : Transmit(p, {FrameSet(f)}, given)
      BY <2>3 DEF ReceiveInOrder, InOrder, networkState
    <3>2. Takes(p, f)
      BY <3>1 DEF Takes, FrameArrives
    <3>3. QED
      BY <2>3, <3>1, <3>2, ArrivalRepairs, InOrderStep
  <2>4. QED
    BY <1>6, <1>7, <1>8, <2>1, <2>2, <2>3 DEF Receive
<1>9. ASSUME NEW p \in Peer, Lose(p) PROVE StepOf(p) /\ Repairs(p)
  <2>1. PICK dg : /\ Transmit(p, {dg}, {}) /\ lost' = lost + 1
                  /\ UNCHANGED <<nackQueue, expectedSeq>>
    BY <1>9 DEF Lose, receiveState
  <2>2. lost' > lost
    BY <2>1 DEF TypeOK
  <2>3. QED
    BY <1>9, <2>1, <2>2, OneTakenRepairs, LoseStep DEF Handles, Notes
<1>10. ASSUME NEW p \in Peer, Copy(p) PROVE StepOf(Other(p)) /\ Repairs(Other(p))
  <2>1. PICK dg : /\ Transmit(Other(p), {}, {dg}) /\ lost' = lost
                  /\ UNCHANGED <<nackQueue, expectedSeq>>
    BY <1>10 DEF Copy, receiveState
  <2>2. QED
    BY <1>10, <2>1, NothingTakenRepairs, CopyStep, OtherPeer DEF Notes
<1>11. QED
  BY <1>2, <1>3, <1>4, <1>5, <1>8, <1>9, <1>10, OtherPeer DEF Next

(* A transmission moves one copy of each datagram it takes or gives.       *)
LEMMA CopiesMove ==
    ASSUME TypeOK, NEW p \in Peer, NEW taken, NEW given, Transmit(p, taken, given), NEW dg
    PROVE  /\ dg \in InFlight(p) /\ dg \notin taken
                 => dg \in InFlight(p)' /\ net'[p][dg] = net[p][dg]
           /\ dg \in InFlight(p) /\ net[p][dg] >= 2 => dg \in InFlight(p)'
           /\ dg \in InFlight(Other(p))
                 => dg \in InFlight(Other(p))' /\ net'[Other(p)][dg] >= net[Other(p)][dg]
           /\ dg \in InFlight(Other(p)) /\ dg \in given => net'[Other(p)][dg] >= 2
           /\ dg \in given => dg \in InFlight(Other(p))'
<1>1. /\ IsABag(net[p]) /\ IsABag(net[Other(p)]) /\ DOMAIN net = Peer
      /\ Other(p) \in Peer /\ Other(p) # p
  BY OtherPeer DEF TypeOK
<1>2. /\ net'[p] = net[p] (-) SetToBag(taken)
      /\ net'[Other(p)] = net[Other(p)] (+) SetToBag(given)
  BY <1>1 DEF Transmit
<1>3. ASSUME dg \in DOMAIN net[p]
      PROVE  /\ dg \notin taken => /\ dg \in DOMAIN (net[p] (-) SetToBag(taken))
                                   /\ (net[p] (-) SetToBag(taken))[dg] = net[p][dg]
             /\ net[p][dg] >= 2 => dg \in DOMAIN (net[p] (-) SetToBag(taken))
  BY <1>1, <1>3 DEF IsABag, SetToBag, (-)
<1>4. /\ dg \in DOMAIN net[Other(p)]
            => /\ dg \in DOMAIN (net[Other(p)] (+) SetToBag(given))
               /\ (net[Other(p)] (+) SetToBag(given))[dg] >= net[Other(p)][dg]
      /\ dg \in DOMAIN net[Other(p)] /\ dg \in given
            => (net[Other(p)] (+) SetToBag(given))[dg] >= 2
      /\ dg \in given => dg \in DOMAIN (net[Other(p)] (+) SetToBag(given))
  BY <1>1 DEF IsABag, SetToBag, (+)
<1>5. QED
  BY <1>2, <1>3, <1>4 DEF InFlight, BagToSet

(* What is known of a frame of a payload that was sent.                    *)
LEMMA FramesOfSent ==
    ASSUME TypeOK, NEW q \in Peer, NEW i \in 1..Len(sent[q]), NEW f \in FramesOf(sent[q][i])
    PROVE  f \in Frame /\ f.pkt = sent[q][i] /\ SeqNum(f) \in Nat
<1>1. sent[q][i] \in Packet
  BY DEF TypeOK
<1>2. f.pkt = sent[q][i] /\ f.idx \in Nat /\ f.idx < sent[q][i].size
      /\ f = [pkt |-> sent[q][i], idx |-> f.idx]
  BY <1>1 DEF FramesOf, Packet
<1>3. QED
  BY <1>1, <1>2 DEF Frame, Packet, SeqNum

(* Two copies of the frame are on their way to p: the network may lose one. *)
Twice(p, f) == FrameSet(f) \in InFlight(p) /\ net[p][FrameSet(f)] >= 2

(* How a frame that p has passed over comes to p all the same: before a    *)
(* loss it is on its way, and besides asked for or on its way twice.       *)
Coming(p, f) ==
    /\ lost = 0 => AskedFor(p, SeqNum(f)) \/ Twice(p, f)
    /\ lost = 1 => AskedFor(p, SeqNum(f)) \/ FrameSet(f) \in InFlight(p)

Repaired(p) ==
    \A i \in 1..Len(sent[Other(p)]) : \A f \in FramesOf(sent[Other(p)][i]) :
        SeqNum(f) < expectedSeq[p] => Has(p, f) \/ Coming(p, f)

(* A receiver expects at most the number that its sender uses next.        *)
RepairInv ==
    \A q \in Peer : Unwrapped(q) =>
        expectedSeq[Other(q)] <= sendSeq[q] /\ Repaired(Other(q))

(* What p has on its list stays asked for.                                 *)
LEMMA ListGoesOut ==
    ASSUME TypeOK, NEW p \in Peer, NEW taken, NEW given, Transmit(p, taken, given),
           Notes(p, given), NEW s, AskedFor(p, s)
    PROVE  AskedFor(p, s)'
<1>1. \A dg : /\ dg \in InFlight(Other(p)) => dg \in InFlight(Other(p))'
              /\ dg \in given => dg \in InFlight(Other(p))'
  BY CopiesMove
<1>2. nackQueue \in [Peer -> SUBSET (0..IndexMod - 1)]
  BY DEF TypeOK
<1>3. CASE s \in nackQueue[p]
  <2>1. s \in nackQueue'[p] \/ \E dg \in given : dg.kind = "nack" /\ s \in dg.seqs
    BY <1>2, <1>3 DEF Notes, NoteSequence
  <2>2. QED
    BY <1>1, <2>1 DEF AskedFor
<1>4. CASE s \notin nackQueue[p]
  BY <1>1, <1>4 DEF AskedFor
<1>5. QED
  BY <1>3, <1>4

(* The receiver acts: it has taken the frame in, or has just put its       *)
(* number on the list, or what was true of it stays so.                    *)
LEMMA ReceiverRepairs ==
    ASSUME TypeOK, TypeOK', NEW p \in Peer, StepOf(p), Repairs(p),
           Numbered(Other(p)), OnlySent(Other(p)), Unwrapped(Other(p)), Spaced(Other(p)),
           Faithful(p), Faithful(p)', sent'[Other(p)] = sent[Other(p)],
           Repaired(p)
    PROVE  Repaired(p)'
<1> DEFINE q == Other(p)
<1>0. /\ q \in Peer /\ Other(q) = p /\ lost \in Nat
      /\ expectedSeq \in [Peer -> 0..IndexMod]
      /\ nackQueue \in [Peer -> SUBSET (0..IndexMod - 1)]
  <2>1. q \in Peer /\ Other(q) = p
    BY OtherPeer
  <2>2. lost \in Nat
    BY DEF TypeOK
  <2>3. /\ expectedSeq \in [Peer -> 0..IndexMod]
        /\ nackQueue \in [Peer -> SUBSET (0..IndexMod - 1)]
    BY DEF TypeOK
  <2>4. QED
    BY <2>1, <2>2, <2>3
<1>1. PICK taken, given :
        /\ Transmit(p, taken, given)
        /\ \A dg \in taken : Handles(p, dg, given)
        /\ Notes(p, given)
        /\ lost' \in {lost, lost + 1}
  BY DEF Repairs
<1>2. ASSUME NEW i \in 1..Len(sent[q]), NEW f \in FramesOf(sent[q][i]), SeqNum(f) < expectedSeq'[p]
      PROVE  Has(p, f)' \/ Coming(p, f)'
  <2>1. f \in Frame /\ SentBy(q, f) /\ SeqNum(f) \in Nat
    BY <1>0, FramesOfSent DEF SentBy
  <2>2. ASSUME NEW g \in FramesInFlight(p), Takes(p, g)
        PROVE  g \in Frame /\ SentBy(q, g) /\ Seq24(g) = SeqNum(g) /\ Has(p, g)'
    <3>1. g \in Frame /\ SentBy(q, g)
      BY <1>0, <2>2, FramesInFlightAreFrames DEF OnlySent
    <3>2. QED
      BY <1>0, <2>2, <3>1, NumberOnWire, TakenIsThere
  <2>3. CASE Has(p, f)
    BY <2>3, HasKept DEF StepOf
  <2>4. CASE ~(SeqNum(f) < expectedSeq[p])
    <3>1. PICK g \in FramesInFlight(p) : NoteSequence(p, g) /\ Takes(p, g)
      BY <1>1, <1>2, <2>4 DEF Notes
    <3>2. Seq24(g) = SeqNum(g) /\ SeqNum(g) \in Nat
      BY <2>2, <3>1 DEF SeqNum, Frame, Packet
    <3>3. SeqNum(f) \in expectedSeq[p]..SeqNum(g)
      BY <1>0, <1>2, <2>1, <2>4, <3>1, <3>2 DEF NoteSequence
    <3>4. CASE SeqNum(f) = SeqNum(g)
      BY <1>0, <2>1, <2>2, <3>1, <3>4, OneFrameANumber
    <3>5. CASE SeqNum(f) # SeqNum(g)
      <4>1. SeqNum(f) \in expectedSeq[p]..SeqNum(g) - 1
        BY <1>0, <2>1, <3>2, <3>3, <3>5
      <4>2. SeqNum(f) \in nackQueue'[p]
        BY <1>0, <3>1, <3>2, <4>1 DEF NoteSequence
      <4>3. QED
        BY <4>2 DEF AskedFor, Coming, SeqNum
    <3>6. QED
      BY <3>4, <3>5
  <2>5. CASE Coming(p, f) /\ ~Has(p, f)
    <3>1. CASE AskedFor(p, SeqNum(f))
      <4>1. AskedFor(p, SeqNum(f))'
        BY <1>1, <3>1, ListGoesOut DEF SeqNum
      <4>2. QED
        BY <4>1 DEF Coming, SeqNum
    <3>2. CASE ~AskedFor(p, SeqNum(f)) /\ FrameSet(f) \notin taken
      <4>1. /\ FrameSet(f) \in InFlight(p) => FrameSet(f) \in InFlight(p)'
                                               /\ net'[p][FrameSet(f)] = net[p][FrameSet(f)]
        BY <1>1, <3>2, CopiesMove
      <4>2. /\ lost = 0 => Twice(p, f)'
            /\ lost = 1 => FrameSet(f) \in InFlight(p)'
        BY <2>5, <3>2, <4>1 DEF Coming, Twice, FrameSet
      <4>3. QED
        BY <1>0, <1>1, <4>2 DEF Coming, Twice, FrameSet
    <3>3. CASE ~AskedFor(p, SeqNum(f)) /\ FrameSet(f) \in taken /\ lost' > lost
      <4>1. lost = 0 => FrameSet(f) \in InFlight(p)'
        BY <1>1, <2>5, <3>3, CopiesMove DEF Coming, Twice
      <4>2. QED
        BY <1>0, <1>1, <3>3, <4>1 DEF Coming, FrameSet
    <3>4. CASE ~AskedFor(p, SeqNum(f)) /\ FrameSet(f) \in taken /\ ~(lost' > lost)
      <4>1. FrameSet(f).kind = "frameset" /\ FrameSet(f).frame = f
        BY DEF FrameSet
      <4>2. Takes(p, f)
        BY <1>1, <3>4, <4>1 DEF Handles
      <4>3. lost' = lost
        BY <1>0, <1>1, <3>4
      <4>4. CASE FrameSet(f) \in InFlight(p)
        <5>1. f \in FramesInFlight(p)
          BY <4>1, <4>4 DEF FramesInFlight
        <5>2. QED
          BY <2>2, <4>2, <5>1
      <4>5. CASE FrameSet(f) \notin InFlight(p)
        <5>1. lost # 0 /\ lost # 1
          BY <2>5, <3>4, <4>5 DEF Coming, Twice
        <5>2. QED
          BY <4>3, <5>1 DEF Coming
      <4>6. QED
        BY <4>4, <4>5
    <3>5. QED
      BY <3>1, <3>2, <3>3, <3>4
  <2>6. QED
    BY <1>2, <2>3, <2>4, <2>5 DEF Repaired
<1>3. QED
  BY <1>2 DEF Repaired, FramesOf, SeqNum

(* The sender acts: what it sends is numbered beyond what p expects, and   *)
(* when it takes a NACK it still has the frames that p has not.            *)
LEMMA SenderRepairs ==
    ASSUME TypeOK, TypeOK', NEW q \in Peer, StepOf(q), Repairs(q),
           expectedSeq[Other(q)] <= sendSeq[q], Released(Other(q)),
           lost = 0 => Travelling(Other(q)), Repaired(Other(q))
    PROVE  Repaired(Other(q))' /\ expectedSeq'[Other(q)] = expectedSeq[Other(q)]
<1> DEFINE p == Other(q)
           s == sent[q]
<1>0. /\ p \in Peer /\ Other(p) = q /\ p # q /\ lost \in Nat
      /\ expectedSeq \in [Peer -> 0..IndexMod] /\ sendSeq[q] \in Nat
      /\ nackQueue \in [Peer -> SUBSET (0..IndexMod - 1)]
  <2>1. p \in Peer /\ Other(p) = q /\ p # q
    BY OtherPeer
  <2>2. lost \in Nat
    BY DEF TypeOK
  <2>3. /\ expectedSeq \in [Peer -> 0..IndexMod] /\ sendSeq[q] \in Nat
        /\ nackQueue \in [Peer -> SUBSET (0..IndexMod - 1)]
    BY DEF TypeOK
  <2>4. QED
    BY <2>1, <2>2, <2>3
<1>1. PICK taken, given :
        /\ Transmit(q, taken, given)
        /\ \A dg \in taken : Handles(q, dg, given)
        /\ Notes(q, given)
        /\ lost' \in {lost, lost + 1}
  BY DEF Repairs
<1>2. expectedSeq'[p] = expectedSeq[p] /\ nackQueue'[p] = nackQueue[p]
  BY <1>0, <1>1 DEF Notes, NoteSequence
<1>3. \A g : Has(p, g)' <=> Has(p, g)
  <2>1. /\ fragments'[p] = fragments[p] /\ orderedQueue'[p] = orderedQueue[p]
        /\ processed'[p] = processed[p]
    BY <1>0, OthersAlone DEF StepOf
  <2>2. QED
    BY <2>1 DEF Has
<1>4. PICK t \in Seq(Packet) :
        /\ sent' = [sent EXCEPT ![q] = @ \o t]
        /\ \A k \in 1..Len(t) : sendSeq[q] <= t[k].seq
  BY SenderKeeps DEF StepOf, Keeps
<1>5. s \in Seq(Packet) /\ sent'[q] = s \o t
  BY <1>4 DEF TypeOK
<1>6. ASSUME NEW i \in 1..Len(s), NEW f \in FramesOf(s[i]), SeqNum(f) < expectedSeq[p]
      PROVE  Has(p, f) \/ Coming(p, f)'
  <2>1. f \in recovery[q] \/ Has(p, f)
    BY <1>0, <1>6 DEF Released
  <2>2. lost = 0 => FrameSet(f) \in InFlight(p) \/ Has(p, f)
    BY <1>0, <1>6 DEF Travelling
  <2>3. Has(p, f) \/ Coming(p, f)
    BY <1>0, <1>6 DEF Repaired
  <2>4. /\ FrameSet(f) \in InFlight(p)
             => FrameSet(f) \in InFlight(p)' /\ net'[p][FrameSet(f)] >= net[p][FrameSet(f)]
        /\ FrameSet(f) \in InFlight(p) /\ FrameSet(f) \in given => net'[p][FrameSet(f)] >= 2
        /\ FrameSet(f) \in given => FrameSet(f) \in InFlight(p)'
    BY <1>1, CopiesMove
  <2>5. Twice(p, f) => Twice(p, f)'
    <3> SUFFICES ASSUME Twice(p, f) PROVE Twice(p, f)'
      OBVIOUS
    <3>1. FrameSet(f) \in DOMAIN net[p] /\ net[p][FrameSet(f)] >= 2
      BY DEF Twice, InFlight, BagToSet
    <3>2. /\ FrameSet(f) \in InFlight(p)' /\ FrameSet(f) \in DOMAIN net'[p]
          /\ net'[p][FrameSet(f)] >= net[p][FrameSet(f)]
      BY <2>4 DEF Twice, InFlight, BagToSet
    <3>3. IsABag(net[p]) /\ IsABag(net'[p])
      BY <1>0 DEF TypeOK
    <3>4. net[p][FrameSet(f)] \in Nat /\ net'[p][FrameSet(f)] \in Nat
      BY <3>1, <3>2, <3>3 DEF IsABag
    <3>5. net'[p][FrameSet(f)] >= 2
      BY <3>1, <3>2, <3>4
    <3>6. QED
      BY <3>2, <3>5 DEF Twice, FrameSet
  <2>6. CASE Has(p, f)
    BY <2>6
  <2>7. CASE ~Has(p, f) /\ AskedFor(p, SeqNum(f))
    <3>1. CASE SeqNum(f) \in nackQueue[p]
      <4>1. AskedFor(p, SeqNum(f))'
        BY <1>2, <3>1 DEF AskedFor, SeqNum
      <4>2. QED
        BY <4>1 DEF Coming, SeqNum
    <3>2. CASE SeqNum(f) \notin nackQueue[p]
      <4>1. PICK dg \in InFlight(q) : dg.kind = "nack" /\ SeqNum(f) \in dg.seqs
        BY <1>0, <2>7, <3>2 DEF AskedFor
      <4>2. CASE dg \notin taken
        <5>1. dg \in InFlight(q)'
          BY <1>1, <4>2, CopiesMove
        <5>2. AskedFor(p, SeqNum(f))'
          BY <1>0, <4>1, <5>1 DEF AskedFor, SeqNum
        <5>3. QED
          BY <5>2 DEF Coming, SeqNum
      <4>3. CASE dg \in taken /\ lost' > lost
        <5>1. lost' # 0 /\ (lost' = 1 => lost = 0)
          BY <1>0, <1>1, <4>3
        <5>2. lost' = 1 => FrameSet(f) \in InFlight(p)'
          BY <2>2, <2>4, <2>7, <5>1
        <5>3. QED
          BY <5>1, <5>2 DEF Coming, FrameSet
      <4>4. CASE dg \in taken /\ ~(lost' > lost)
        <5>1. FrameSet(f) \in given
          BY <1>1, <2>1, <2>7, <4>1, <4>4 DEF Handles
        <5>2. lost' = lost
          BY <1>0, <1>1, <4>4
        <5>3. FrameSet(f) \in InFlight(p)' /\ (lost = 0 => Twice(p, f)')
          BY <2>2, <2>4, <2>7, <5>1 DEF Twice, FrameSet
        <5>4. QED
          BY <5>2, <5>3 DEF Coming, FrameSet
      <4>5. QED
        BY <4>2, <4>3, <4>4
    <3>3. QED
      BY <3>1, <3>2
  <2>8. CASE ~Has(p, f) /\ ~AskedFor(p, SeqNum(f))
    <3>1. /\ lost = 0 => Twice(p, f) /\ FrameSet(f) \in InFlight(p)
          /\ lost = 1 => FrameSet(f) \in InFlight(p)
      BY <2>3, <2>8 DEF Coming, Twice
    <3>2. /\ lost = 0 => Twice(p, f)' /\ FrameSet(f) \in InFlight(p)'
          /\ lost = 1 => FrameSet(f) \in InFlight(p)'
      BY <2>4, <2>5, <3>1
    <3>3. QED
      BY <1>0, <1>1, <3>2 DEF Coming, FrameSet
  <2>9. QED
    BY <2>6, <2>7, <2>8
<1> HIDE DEF s
<1>7. ASSUME NEW i \in 1..Len(s \o t), NEW f \in FramesOf((s \o t)[i]),
             SeqNum(f) < expectedSeq[p]
      PROVE  Has(p, f)' \/ Coming(p, f)'
  <2>1. CASE i \in 1..Len(s)
    <3>1. (s \o t)[i] = s[i]
      BY <1>5, <2>1, ConcatParts
    <3>2. QED
      BY <1>3, <1>6, <1>7, <2>1, <3>1
  <2>2. CASE i \notin 1..Len(s)
    <3>1. PICK k \in 1..Len(t) : (s \o t)[i] = t[k]
      BY <1>5, <2>2, ConcatParts
    <3>2. f \in FramesOf(t[k]) /\ t[k] \in Packet /\ sendSeq[q] <= t[k].seq
      BY <1>4, <1>7, <3>1
    <3>3. t[k].seq \in Nat /\ t[k].size \in Nat
      BY <3>2 DEF Packet
    <3>4. f.pkt = t[k] /\ f.idx \in Nat
      BY <3>2, <3>3 DEF FramesOf
    <3>5. sendSeq[q] \in Nat /\ expectedSeq[p] \in Nat
      BY <1>0
    <3>6. SeqNum(f) = t[k].seq + f.idx
      BY <3>4 DEF SeqNum
    <3>7. ~(SeqNum(f) < expectedSeq[p])
      BY <3>2, <3>3, <3>4, <3>5, <3>6, SMTT(60)
    <3>8. QED
      BY <1>7, <3>7
  <2>3. QED
    BY <2>1, <2>2
<1>8. Repaired(p)'
  BY <1>0, <1>2, <1>5, <1>7 DEF Repaired, FramesOf, SeqNum
<1>9. QED
  BY <1>2, <1>8 DEF p

(* A receiver expects no number that its sender has not used.              *)
LEMMA ReceiverExpects ==
    ASSUME TypeOK, TypeOK', NEW p \in Peer, Repairs(p), OnlySent(Other(p)), Spaced(Other(p)),
           Unwrapped(Other(p)), expectedSeq[p] <= sendSeq[Other(p)]
    PROVE  expectedSeq'[p] <= sendSeq[Other(p)]
<1>1. PICK given : Notes(p, given)
  BY DEF Repairs
<1>2. Other(p) \in Peer /\ Other(Other(p)) = p
  BY OtherPeer
<1>3. expectedSeq \in [Peer -> 0..IndexMod]
  BY DEF TypeOK
<1>4. CASE expectedSeq' = expectedSeq
  BY <1>4
<1>5. ASSUME NEW f \in FramesInFlight(p), NoteSequence(p, f)
      PROVE  expectedSeq'[p] <= sendSeq[Other(p)]
  <2>1. f \in Frame /\ SentBy(Other(p), f)
    BY <1>2, FramesInFlightAreFrames DEF OnlySent
  <2>2. Seq24(f) = SeqNum(f)
    BY <1>2, <2>1, NumberOnWire
  <2>3. PICK i \in 1..Len(sent[Other(p)]) : f.pkt = sent[Other(p)][i]
    BY <2>1 DEF SentBy
  <2>4. f.pkt.seq + f.pkt.size <= sendSeq[Other(p)]
    BY <2>3 DEF Spaced, SpacedSeq
  <2>5. f.idx \in Nat /\ f.pkt.seq \in Nat /\ f.pkt.size \in Nat /\ f.idx < f.pkt.size
    BY <2>1 DEF Frame, Packet
  <2>6. SeqNum(f) + 1 <= sendSeq[Other(p)]
    <3>1. sendSeq[Other(p)] \in Nat
      BY <1>2 DEF TypeOK
    <3>2. QED
      BY <2>4, <2>5, <3>1 DEF SeqNum
  <2>7. expectedSeq'[p] \in {expectedSeq[p], SeqNum(f) + 1}
    BY <1>3, <1>5, <2>2 DEF NoteSequence
  <2>8. QED
    BY <2>6, <2>7
<1>6. QED
  BY <1>1, <1>4, <1>5 DEF Notes

(* Every step keeps it.                                                    *)
LEMMA RepairPreserved ==
    /\ ChannelInv /\ ChannelInv' /\ ReleaseInv /\ TravelInv /\ RepairInv
    /\ [Next]_vars
    => RepairInv'
<1> SUFFICES ASSUME ChannelInv, ChannelInv', ReleaseInv, TravelInv, RepairInv, [Next]_vars,
                    NEW q \in Peer, Unwrapped(q)'
             PROVE  expectedSeq'[Other(q)] <= sendSeq'[q] /\ Repaired(Other(q))'
  BY DEF RepairInv
<1>1. TypeOK /\ TypeOK'
  BY DEF ChannelInv
<1>2. Other(q) \in Peer /\ Other(Other(q)) = q /\ Other(q) # q
  BY OtherPeer
<1>3. CASE UNCHANGED vars
  <2>1. Unwrapped(q)
    BY <1>3 DEF vars, Unwrapped
  <2>2. Repaired(Other(q)) /\ expectedSeq[Other(q)] <= sendSeq[q]
    BY <2>1 DEF RepairInv
  <2>3. \A g : Has(Other(q), g)' <=> Has(Other(q), g)
    BY <1>3 DEF vars, Has
  <2>4. \A g : Coming(Other(q), g) => Coming(Other(q), g)'
    BY <1>3 DEF vars, Coming, AskedFor, Twice, InFlight, FrameSet, SeqNum
  <2>5. sent' = sent /\ expectedSeq' = expectedSeq /\ sendSeq' = sendSeq
    BY <1>3 DEF vars
  <2>6. QED
    BY <2>2, <2>3, <2>4, <2>5 DEF Repaired, FramesOf, SeqNum
<1>4. CASE Next
  <2>1. PICK a \in Peer : StepOf(a) /\ Repairs(a)
    BY <1>1, <1>4, RepairShape
  <2>2. /\ Unwrapped(q)' => Unwrapped(q)
        /\ q # a => sent'[q] = sent[q]
    BY <1>1, <2>1, SenderKeepsNumbers DEF StepOf, ChannelInv
  <2>3. /\ Unwrapped(q) /\ Numbered(q) /\ OnlySent(q) /\ Faithful(Other(q))
        /\ Faithful(Other(q))' /\ Spaced(q) /\ Released(Other(q))
        /\ lost = 0 => Travelling(Other(q))
        /\ Repaired(Other(q)) /\ expectedSeq[Other(q)] <= sendSeq[q]
    BY <2>2 DEF ChannelInv, ReleaseInv, TravelInv, RepairInv
  <2>4. sendSeq[q] <= sendSeq'[q]
    <3>1. /\ sendSeq[a] <= sendSeq'[a]
          /\ \A b \in Peer \ {a} : sendSeq'[b] = sendSeq[b]
      BY <1>1, <2>1, SenderKeeps DEF StepOf, Keeps
    <3>2. sendSeq \in [Peer -> Nat]
      BY <1>1 DEF TypeOK
    <3>3. QED
      BY <3>1, <3>2
  <2>5. expectedSeq[Other(q)] \in Nat /\ expectedSeq'[Other(q)] \in Nat
        /\ sendSeq[q] \in Nat /\ sendSeq'[q] \in Nat
    BY <1>1, <1>2, WidthsArePositive DEF TypeOK
  <2>6. CASE q = a
    <3>1. Repaired(Other(q))' /\ expectedSeq'[Other(q)] = expectedSeq[Other(q)]
      BY <1>1, <2>1, <2>3, <2>6, SenderRepairs
    <3>2. QED
      BY <2>3, <2>4, <2>5, <3>1
  <2>7. CASE q # a
    <3>1. Other(q) = a
      BY <1>2, <2>7 DEF Peer
    <3>2. Repaired(Other(q))'
      BY <1>1, <1>2, <2>1, <2>2, <2>3, <2>7, <3>1, ReceiverRepairs
    <3>3. expectedSeq'[Other(q)] <= sendSeq[q]
      BY <1>1, <1>2, <2>1, <2>3, <3>1, ReceiverExpects
    <3>4. QED
      BY <2>4, <2>5, <3>2, <3>3
  <2>8. QED
    BY <2>6, <2>7
<1>5. QED
  BY <1>3, <1>4

LEMMA RepairInitially == Init => RepairInv
<1> SUFFICES ASSUME Init, NEW q \in Peer
             PROVE  expectedSeq[Other(q)] <= sendSeq[q] /\ Repaired(Other(q))
  BY DEF RepairInv
<1>1. Other(q) \in Peer /\ Other(Other(q)) = q
  BY OtherPeer
<1>2. sent[q] = <<>> /\ expectedSeq[Other(q)] = 0 /\ sendSeq[q] = 0
  BY <1>1 DEF Init
<1>3. QED
  BY <1>1, <1>2 DEF Repaired

(* After one loss of whatever kind each frame that a receiver has passed   *)
(* over is with it, on its way, or asked for, until a counter of the       *)
(* sender wraps: _handle_frame_set lists every number it skips, and        *)
(* _handle_nack finds in _recovery what has not arrived.                   *)
THEOREM PassedOverIsRepaired == Spec => []RepairIsUnderWay
<1>1. Init => TravelInv
  BY OtherPeer DEF Init, TravelInv, Travelling
<1>2. ChannelInv /\ RepairInv /\ TravelInv => RepairIsUnderWay
  <2> SUFFICES ASSUME ChannelInv, RepairInv, TravelInv, lost <= 1, NEW p \in Peer,
                      Unwrapped(Other(p)), NEW i \in DOMAIN sent[Other(p)],
                      NEW f \in FramesOf(sent[Other(p)][i]), SeqNum(f) < expectedSeq[p]
               PROVE  Has(p, f) \/ f \in FramesInFlight(p) \/ AskedFor(p, SeqNum(f))
    BY DEF RepairIsUnderWay
  <2>1. Other(p) \in Peer /\ Other(Other(p)) = p
    BY OtherPeer
  <2>2. i \in 1..Len(sent[Other(p)]) /\ lost \in {0, 1}
    BY <2>1 DEF ChannelInv, TypeOK
  <2>3. Has(p, f) \/ Coming(p, f)
    BY <2>1, <2>2 DEF RepairInv, Repaired
  <2>4. Has(p, f) \/ AskedFor(p, SeqNum(f)) \/ FrameSet(f) \in InFlight(p)
    BY <2>2, <2>3 DEF Coming, Twice
  <2>5. FrameSet(f).kind = "frameset" /\ FrameSet(f).frame = f
    BY DEF FrameSet
  <2>6. FrameSet(f) \in InFlight(p) => f \in FramesInFlight(p)
    BY <2>5 DEF FramesInFlight
  <2>7. QED
    BY <2>4, <2>6
<1>3. QED
  BY Invariant, ReleaseInitially, ReleasePreserved, TravelPreserved, RepairInitially,
     RepairPreserved, <1>1, <1>2, PTL DEF Spec
=============================================================================
