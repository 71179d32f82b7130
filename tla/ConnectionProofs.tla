-------------------------- MODULE ConnectionProofs --------------------------
(***************************************************************************)
(* Theorems about Connection, for every value of its constants: the state  *)
(* stays well typed, neither of the two directions reorders packets, a     *)
(* packet is lost for a cause only, an error comes last; and together that *)
(* Connection implements PacketStream, what the application is promised.   *)
(***************************************************************************)
EXTENDS Connection, SequenceTheorems, FiniteSetTheorems, TLAPS

-----------------------------------------------------------------------------
(* Lemmas about sequences.                                                 *)

\* Taking the first element: the rest is what remains, still in order, behind it.
LEMMA HeadFirst ==
    ASSUME NEW s \in Seq(Nat), s # <<>>
    PROVE  /\ Head(s) \in Nat /\ Head(s) \in Range(s)
           /\ Tail(s) \in Seq(Nat)
           /\ Len(Tail(s)) = Len(s) - 1
           /\ Range(Tail(s)) \subseteq Range(s)
           /\ Range(s) = {Head(s)} \cup Range(Tail(s))
           /\ Increasing(s) =>
                /\ Increasing(Tail(s))
                /\ \A y \in Range(Tail(s)) : Head(s) < y
<1>1. /\ Head(s) = s[1] /\ 1 \in DOMAIN s
      /\ Tail(s) \in Seq(Nat)
      /\ Len(Tail(s)) = Len(s) - 1
      /\ \A i \in 1 .. Len(s) - 1 : Tail(s)[i] = s[i + 1]
  OBVIOUS
<1>2. DOMAIN s = 1 .. Len(s) /\ DOMAIN Tail(s) = 1 .. Len(s) - 1 /\ Len(s) \in Nat
  BY <1>1
<1>3. \A x \in Range(Tail(s)) : \E i \in 1 .. Len(s) - 1 : x = s[i + 1]
  BY <1>1, <1>2 DEF Range
<1>4. Range(Tail(s)) \subseteq Range(s)
  BY <1>2, <1>3 DEF Range
<1>5. \A x \in Range(s) : x = Head(s) \/ x \in Range(Tail(s))
  <2>1. SUFFICES ASSUME NEW i \in 1 .. Len(s) PROVE s[i] = Head(s) \/ s[i] \in Range(Tail(s))
    BY <1>2 DEF Range
  <2>2. i = 1 \/ (i - 1 \in 1 .. Len(s) - 1 /\ s[i] = Tail(s)[i - 1])
    BY <1>1, <1>2
  <2>3. QED
    BY <2>2, <1>1, <1>2 DEF Range
<1>6. ASSUME Increasing(s)
      PROVE  Increasing(Tail(s)) /\ \A y \in Range(Tail(s)) : Head(s) < y
  <2>1. Increasing(Tail(s))
    BY <1>1, <1>2, <1>6, SMTT(60) DEF Increasing
  <2>2. \A i \in 1 .. Len(s) - 1 : Head(s) < s[i + 1]
    BY <1>1, <1>2, <1>6 DEF Increasing
  <2>3. QED
    BY <2>1, <2>2, <1>3
<1>7. Head(s) \in Nat /\ Head(s) \in Range(s)
  BY <1>1 DEF Range
<1>8. Range(s) = {Head(s)} \cup Range(Tail(s))
  BY <1>4, <1>5, <1>7
<1>9. QED
  BY <1>1, <1>4, <1>6, <1>7, <1>8

\* Adding a last element that is larger than the others.
LEMMA AppendLast ==
    ASSUME NEW s \in Seq(Nat), NEW e \in Nat
    PROVE  /\ Append(s, e) \in Seq(Nat)
           /\ Len(Append(s, e)) = Len(s) + 1
           /\ Range(Append(s, e)) = Range(s) \cup {e}
           /\ Increasing(s) /\ (\A x \in Range(s) : x < e) => Increasing(Append(s, e))
<1>1. /\ Append(s, e) \in Seq(Nat)
      /\ Len(Append(s, e)) = Len(s) + 1
      /\ \A i \in 1 .. Len(s) : Append(s, e)[i] = s[i]
      /\ Append(s, e)[Len(s) + 1] = e
  OBVIOUS
<1>2. DOMAIN s = 1 .. Len(s) /\ DOMAIN Append(s, e) = 1 .. Len(s) + 1 /\ Len(s) \in Nat
  BY <1>1
<1>3. Range(Append(s, e)) = Range(s) \cup {e}
  BY <1>1, <1>2 DEF Range
<1>4. ASSUME Increasing(s), \A x \in Range(s) : x < e
      PROVE  Increasing(Append(s, e))
  <2>1. \A i \in 1 .. Len(s) : s[i] < e
    BY <1>2, <1>4 DEF Range
  <2>2. QED
    BY <1>1, <1>2, <1>4, <2>1 DEF Increasing
<1>5. QED
  BY <1>1, <1>3, <1>4

\* Joining two sequences.
LEMMA JoinRange ==
    ASSUME NEW s \in Seq(Nat), NEW t \in Seq(Nat)
    PROVE  /\ s \o t \in Seq(Nat)
           /\ Range(s \o t) = Range(s) \cup Range(t)
BY RangeConcatenation, ConcatProperties

\* A sequence of one element.
LEMMA Singleton ==
    ASSUME NEW e \in Nat
    PROVE  <<e>> \in Seq(Nat) /\ Range(<<e>>) = {e} /\ Increasing(<<e>>)
BY DEF Range, Increasing

\* A sequence that is neither empty nor longer than one element.
LEMMA OneElement ==
    ASSUME NEW s \in Seq(Nat), s # <<>>, Len(s) < 2
    PROVE  \E e \in Nat : s = <<e>>
<1>1. Len(s) = 1
  <2>1. Len(Tail(s)) = Len(s) - 1 /\ Len(Tail(s)) \in Nat
    BY HeadFirst
  <2>2. QED
    BY <2>1
<1>2. s = <<s[1]>> /\ s[1] \in Nat
  BY <1>1
<1>3. QED
  BY <1>2

\* The empty sequence.
LEMMA Nothing ==
    /\ <<>> \in Seq(Nat)
    /\ Range(<<>>) = {}
    /\ Increasing(<<>>)
BY DEF Range, Increasing

\* The elements of a sequence of numbers are numbers.
LEMMA RangeOfNats ==
    ASSUME NEW s \in Seq(Nat)
    PROVE  Range(s) \subseteq Nat
BY DEF Range

\* The first element and the rest of any sequence.
LEMMA FirstAndRest ==
    ASSUME NEW S, NEW s \in Seq(S), s # <<>>
    PROVE  Head(s) \in S /\ Tail(s) \in Seq(S)
OBVIOUS

\* A task leaves the line of tasks.
LEMMA CancelledIsALine ==
    ASSUME NEW S, NEW s \in Seq(S), NEW t
    PROVE  Cancelled(s, t) \in Seq(S)
<1>1. CASE t \notin Range(s)
  BY <1>1 DEF Cancelled
<1>2. CASE t \in Range(s)
  <2>1. PICK i \in DOMAIN s : i = CHOOSE k \in DOMAIN s : s[k] = t
    BY <1>2 DEF Range
  <2>2. SubSeq(s, 1, i - 1) \in Seq(S) /\ SubSeq(s, i + 1, Len(s)) \in Seq(S)
    OBVIOUS
  <2>3. Cancelled(s, t) = SubSeq(s, 1, i - 1) \o SubSeq(s, i + 1, Len(s))
    BY <1>2, <2>1 DEF Cancelled
  <2>4. QED
    BY <2>2, <2>3
<1>3. QED
  BY <1>1, <1>2

\* The packets of an arriving batch are numbered on from those before.
LEMMA ArrivingBatch ==
    ASSUME NEW n \in Nat, NEW k \in Nat
    PROVE  LET b == [i \in 1 .. k |-> n + i]
           IN  /\ b \in Seq(Nat)
               /\ Increasing(b)
               /\ \A x \in Range(b) : n < x /\ x \in 1 .. n + k
BY DEF Increasing, Range

\* A write keeps the types of what it changes.
LEMMA WriteTypes ==
    ASSUME TypeOK, NEW batch \in Seq(Nat), NEW ok \in BOOLEAN, Write(batch, ok)
    PROVE  sent' \in Seq(Nat) /\ lost' \in SUBSET Nat /\ fails' \in Nat
<1>1. sent \o batch \in Seq(Nat) /\ Range(batch) \subseteq Nat
  BY JoinRange, RangeOfNats DEF TypeOK
<1>2. sent \in Seq(Nat) /\ lost \in SUBSET Nat /\ fails \in Nat
  BY DEF TypeOK
<1>3. CASE ok
  <2>1. sent' = sent \o batch /\ lost' = lost /\ fails' = fails
    BY <1>3 DEF Write
  <2>2. QED
    BY <1>1, <1>2, <2>1
<1>4. CASE ~ok
  <2>1. sent' = sent /\ lost' = lost \cup Range(batch) /\ (fails' = fails \/ fails' = fails + 1)
    BY <1>4 DEF Write
  <2>2. fails' \in Nat
    BY <1>2, <2>1
  <2>3. lost' \in SUBSET Nat
    BY <1>1, <1>2, <2>1, Zenon
  <2>4. QED
    BY <1>2, <2>1, <2>2, <2>3
<1>5. QED
  BY <1>3, <1>4

\* So does a flush.
LEMMA FlushTypes ==
    ASSUME TypeOK, NEW ok \in BOOLEAN, Flush(ok)
    PROVE  /\ sent' \in Seq(Nat) /\ lost' \in SUBSET Nat /\ fails' \in Nat
           /\ sendBuffer' = <<>> /\ sendBuffer' \in Seq(Nat)
           /\ UNCHANGED <<accepted, immediates>>
<1>1. Write(sendBuffer, ok) /\ sendBuffer \in Seq(Nat)
  BY DEF TypeOK, Flush
<1>2. sent' \in Seq(Nat) /\ lost' \in SUBSET Nat /\ fails' \in Nat
  BY <1>1, WriteTypes
<1>3. QED
  BY <1>2, Nothing DEF Flush

-----------------------------------------------------------------------------
(* The state stays well typed: one step of each action.                    *)

\* The transport's two events.
LEMMA TransportTypes ==
    ASSUME TypeOK, Arrive \/ PeerEnds
    PROVE  TypeOK'
<1>1. CASE Arrive
  <2>1. PICK k \in BatchSizes :
          /\ inbox' = Append(inbox, [i \in 1 .. k |-> arrived + i])
          /\ arrived' = arrived + k
    BY <1>1 DEF Arrive
  <2>2. k \in Nat /\ arrived \in Nat
    BY BatchSizesAssumption DEF TypeOK
  <2>3. [i \in 1 .. k |-> arrived + i] \in Seq(Nat)
    BY <2>2, ArrivingBatch
  <2>4. inbox' \in Seq(Seq(Nat)) /\ arrived' \in Nat
    BY <2>1, <2>2, <2>3 DEF TypeOK
  <2>5. QED
    BY <1>1, <2>4, SMTT(60) DEF TypeOK, Arrive, queueVars, readVars, readerVars, writeVars, closeVars
<1>2. CASE PeerEnds
  BY <1>2 DEF TypeOK, PeerEnds, queueVars, readVars, readerVars, writeVars, closeVars
<1>3. QED
  BY <1>1, <1>2

\* The read loop.
LEMMA ReadLoopTypes ==
    ASSUME TypeOK, ReadLoop
    PROVE  TypeOK'
<1>1. ASSUME TakeBatch \/ LoopEnds \/ Suspend
      PROVE  /\ inbox' \in Seq(Seq(Nat)) /\ rest' \in Seq(Nat) /\ closeEvent' \in BOOLEAN
             /\ readPc' \in {"ready", "running", "waiting", "putting", "done"}
  <2>1. inbox \in Seq(Seq(Nat)) /\ rest \in Seq(Nat) /\ closeEvent \in BOOLEAN
    BY DEF TypeOK
  <2>2. inbox # <<>> => Head(inbox) \in Seq(Nat) /\ Tail(inbox) \in Seq(Seq(Nat))
    BY <2>1, FirstAndRest
  <2>3. QED
    BY <1>1, <2>1, <2>2 DEF TakeBatch, LoopEnds, Suspend
<1>2. CASE ReadNext
  BY <1>1, <1>2 DEF TypeOK, ReadNext, queueVars, readerVars, writeVars
<1>3. CASE ReadResumes
  BY <1>1, <1>3 DEF TypeOK, ReadResumes, queueVars, readerVars, writeVars
<1>4. CASE PutPacket
  <2>1. rest # <<>> /\ recvQueue' = Append(recvQueue, Head(rest)) /\ rest' = Tail(rest)
    BY <1>4 DEF PutPacket
  <2>2. rest \in Seq(Nat) /\ recvQueue \in Seq(Nat) /\ Len(recvQueue) < QueueSize
    BY <1>4 DEF TypeOK, PutPacket
  <2>3. Head(rest) \in Nat /\ Tail(rest) \in Seq(Nat)
    BY <2>1, <2>2, HeadFirst
  <2>4. recvQueue' \in Seq(Nat) /\ Len(recvQueue') = Len(recvQueue) + 1
    BY <2>1, <2>2, <2>3, AppendLast
  <2>5. Len(recvQueue') <= QueueSize
    BY <2>2, <2>4, QueueSizeAssumption
  <2>6. getters' \in Seq(GetTask) /\ woken' \subseteq GetTask
    <3>1. getters \in Seq(GetTask) /\ woken \subseteq GetTask
      BY DEF TypeOK
    <3>2. getters # <<>> => Head(getters) \in GetTask /\ Tail(getters) \in Seq(GetTask)
      BY <3>1, FirstAndRest
    <3>3. QED
      BY <1>4, <3>1, <3>2 DEF PutPacket, WakeNext
  <2>7. QED
    BY <1>4, <2>1, <2>3, <2>4, <2>5, <2>6, ZenonT(60)
    DEF TypeOK, PutPacket, transportVars, readerVars, writeVars, closeVars
<1>5. CASE PutSuspends
  BY <1>5 DEF TypeOK, PutSuspends, transportVars, queueVars, readerVars, writeVars, closeVars
<1>6. QED
  BY <1>2, <1>3, <1>4, <1>5 DEF ReadLoop

\* What a read takes from the queue.
LEMMA ReturnTypes ==
    ASSUME TypeOK, ReturnQueued \/ Raise
    PROVE  /\ recvQueue' \in Seq(Nat) /\ Len(recvQueue') <= QueueSize
           /\ got' \in Seq(Nat) /\ told' \in BOOLEAN
<1>1. CASE ReturnQueued
  <2>1. recvQueue # <<>> /\ recvQueue \in Seq(Nat) /\ got \in Seq(Nat)
    BY <1>1 DEF TypeOK, ReturnQueued
  <2>2. Head(recvQueue) \in Nat /\ Tail(recvQueue) \in Seq(Nat)
        /\ Len(Tail(recvQueue)) = Len(recvQueue) - 1
    BY <2>1, HeadFirst
  <2>3. got' \in Seq(Nat)
    BY <1>1, <2>1, <2>2, AppendLast DEF ReturnQueued
  <2>4. Len(recvQueue') <= QueueSize
    BY <1>1, <2>1, <2>2, QueueSizeAssumption DEF TypeOK, ReturnQueued
  <2>5. QED
    BY <1>1, <2>2, <2>3, <2>4 DEF TypeOK, ReturnQueued
<1>2. CASE Raise
  BY <1>2 DEF TypeOK, Raise
<1>3. QED
  BY <1>1, <1>2

\* The application's read_packet and the tasks it starts.
LEMMA ReaderTypes ==
    ASSUME TypeOK, Reader
    PROVE  TypeOK'
<1>1. CASE ReadPacket
  <2>1. CASE (ReturnQueued \/ (closeEvent /\ Raise)) /\ UNCHANGED <<getTask, woken>>
    <3>1. /\ recvQueue' \in Seq(Nat) /\ Len(recvQueue') <= QueueSize
          /\ got' \in Seq(Nat) /\ told' \in BOOLEAN
      BY <2>1, ReturnTypes
    <3>2. QED
      BY <1>1, <2>1, <3>1, SMTT(60)
      DEF TypeOK, ReadPacket, transportVars, readVars, writeVars, closeVars
  <2>2. CASE /\ recvQueue = <<>> /\ ~closeEvent
             /\ FreeTask # {} /\ getTask' = CHOOSE t \in FreeTask : TRUE
             /\ woken' = woken \cup {getTask'}
             /\ UNCHANGED <<recvQueue, got, told>>
    <3>1. getTask' \in GetTask
      BY <2>2 DEF FreeTask
    <3>2. woken' \subseteq GetTask
      BY <2>2, <3>1 DEF TypeOK
    <3>3. QED
      BY <1>1, <2>2, <3>1, <3>2
      DEF TypeOK, ReadPacket, transportVars, readVars, writeVars, closeVars
  <2>3. QED
    BY <1>1, <2>1, <2>2 DEF ReadPacket
<1>2. ASSUME NEW t \in GetTask, GetRuns(t) PROVE TypeOK'
  <2>1. /\ woken' = woken \ {t}
        /\ UNCHANGED <<transportVars, readVars, getTask, got, told, cancels, writeVars, flushPc,
                       closeVars>>
    BY <1>2 DEF GetRuns
  <2>2. CASE recvQueue = <<>>
    <3>1. getters' = Append(getters, t) /\ UNCHANGED <<recvQueue, answer, swallowed>>
      BY <1>2, <2>2 DEF GetRuns
    <3>2. getters' \in Seq(GetTask)
      BY <3>1 DEF TypeOK
    <3>3. QED
      BY <2>1, <3>1, <3>2 DEF TypeOK, transportVars, readVars, writeVars, closeVars
  <2>3. CASE recvQueue # <<>>
    <3>1. /\ recvQueue' = Tail(recvQueue) /\ UNCHANGED getters
          /\ answer' = <<Head(recvQueue)>> \/ answer' = answer
          /\ swallowed' = swallowed \/ swallowed' = swallowed \cup {Head(recvQueue)}
      BY <1>2, <2>3, Zenon DEF GetRuns
    <3>2. /\ Head(recvQueue) \in Nat /\ Tail(recvQueue) \in Seq(Nat)
          /\ Len(Tail(recvQueue)) = Len(recvQueue) - 1
      BY <2>3, HeadFirst DEF TypeOK
    <3>3. Len(recvQueue) \in Nat /\ Len(recvQueue) <= QueueSize
      BY DEF TypeOK
    <3>4. Len(recvQueue') <= QueueSize
      BY <3>1, <3>2, <3>3, QueueSizeAssumption
    <3>5. answer' \in Seq(Nat) /\ swallowed' \subseteq Nat
      BY <3>1, <3>2, Singleton DEF TypeOK
    <3>6. QED
      BY <2>1, <3>1, <3>2, <3>4, <3>5, SMTT(60) DEF TypeOK, transportVars, readVars, writeVars, closeVars
  <2>4. QED
    BY <2>2, <2>3
<1>3. CASE ReadAnswered
  <2>1. got' \in Seq(Nat)
    BY <1>3, JoinRange DEF TypeOK, ReadAnswered
  <2>2. QED
    BY <1>3, <2>1, Nothing
    DEF TypeOK, ReadAnswered, transportVars, queueVars, readVars, writeVars, closeVars
<1>4. CASE ReadCut
  <2>1. /\ recvQueue' \in Seq(Nat) /\ Len(recvQueue') <= QueueSize
        /\ got' \in Seq(Nat) /\ told' \in BOOLEAN
    BY <1>4, ReturnTypes DEF ReadCut
  <2>2. getters' \in Seq(GetTask) /\ woken' \subseteq GetTask
    <3>1. PICK others : others = Cancelled(getters, getTask)
      OBVIOUS
    <3>2. others \in Seq(GetTask)
      BY <3>1, CancelledIsALine DEF TypeOK
    <3>3. others # <<>> => Head(others) \in GetTask /\ Tail(others) \in Seq(GetTask)
      BY <3>2, FirstAndRest
    <3>4. \/ /\ woken' = (woken \ {getTask}) \cup {Head(others)}
             /\ getters' = Tail(others) /\ others # <<>>
          \/ woken' = woken \ {getTask} /\ getters' = others
      BY <1>4, <3>1 DEF ReadCut
    <3>5. QED
      BY <3>2, <3>3, <3>4 DEF TypeOK
  <2>3. QED
    BY <1>4, <2>1, <2>2, SMTT(60) DEF TypeOK, ReadCut, transportVars, readVars, writeVars, closeVars
<1>5. CASE CancelRead
  <2>1. swallowed' \subseteq Nat
    BY <1>5, RangeOfNats DEF TypeOK, CancelRead
  <2>2. answer' \in Seq(Nat)
    BY <1>5, Nothing DEF CancelRead
  <2>3. QED
    BY <1>5, <2>1, <2>2, SMTT(60)
    DEF TypeOK, CancelRead, transportVars, queueVars, readVars, writeVars, closeVars
<1>6. QED
  BY <1>1, <1>2, <1>3, <1>4, <1>5 DEF Reader

\* The application's writes and the flush loop.
LEMMA WriterTypes ==
    ASSUME TypeOK, Writer
    PROVE  TypeOK'
<1>1. CASE WritePacket
  <2>1. sendBuffer' \in Seq(Nat) /\ accepted' \in Nat
    BY <1>1, AppendLast DEF TypeOK, WritePacket
  <2>2. QED
    BY <1>1, <2>1
    DEF TypeOK, WritePacket, transportVars, queueVars, readVars, readerVars, closeVars
<1>2. CASE WritePacketImmediate
  <2>1. accepted + 1 \in Nat
    BY DEF TypeOK
  <2>2. <<accepted + 1>> \in Seq(Nat)
    BY <2>1, Singleton
  <2>3. PICK ok \in BOOLEAN : Write(<<accepted + 1>>, ok)
    BY <1>2 DEF WritePacketImmediate
  <2>4. sent' \in Seq(Nat) /\ lost' \in SUBSET Nat /\ fails' \in Nat
    BY <2>2, <2>3, WriteTypes
  <2>5. QED
    BY <1>2, <2>1, <2>4, SMTT(60)
    DEF TypeOK, WritePacketImmediate, transportVars, queueVars, readVars, readerVars, closeVars
<1>3. CASE AppFlush
  <2>1. PICK ok \in BOOLEAN : Flush(ok)
    BY <1>3 DEF AppFlush
  <2>2. /\ sent' \in Seq(Nat) /\ lost' \in SUBSET Nat /\ fails' \in Nat
        /\ sendBuffer' \in Seq(Nat)
        /\ UNCHANGED <<accepted, immediates>>
    BY <2>1, FlushTypes
  <2>3. QED
    BY <1>3, <2>2
    DEF TypeOK, AppFlush, transportVars, queueVars, readVars, readerVars, closeVars
<1>4. CASE FlushWakes
  <2>1. CASE sendBuffer = <<>> /\ flushPc' = NextRound /\ UNCHANGED writeVars
    BY <1>4, <2>1
    DEF TypeOK, FlushWakes, NextRound, transportVars, queueVars, readVars, readerVars, writeVars,
        closeVars
  <2>2. ASSUME NEW ok \in BOOLEAN, Flush(ok),
               flushPc' = IF ~ok THEN "done"
                          ELSE IF transport = "TCP" THEN "draining" ELSE NextRound
        PROVE  TypeOK'
    <3>1. flushPc' \in {"sleeping", "draining", "done"}
      BY <2>2 DEF NextRound
    <3>2. /\ sent' \in Seq(Nat) /\ lost' \in SUBSET Nat /\ fails' \in Nat
          /\ sendBuffer' \in Seq(Nat) /\ UNCHANGED <<accepted, immediates>>
      BY <2>2, FlushTypes
    <3>3. QED
      BY <1>4, <3>1, <3>2
      DEF TypeOK, FlushWakes, transportVars, queueVars, readVars, readerVars, closeVars
  <2>3. QED
    BY <1>4, <2>1, <2>2 DEF FlushWakes
<1>5. CASE FlushDrained
  BY <1>5
  DEF TypeOK, FlushDrained, NextRound, transportVars, queueVars, readVars, readerVars, writeVars,
      closeVars
<1>6. QED
  BY <1>1, <1>2, <1>3, <1>4, <1>5 DEF Writer, FlushLoop

\* close().
LEMMA CloseTypes ==
    ASSUME TypeOK, Close \/ CloseGoesOn
    PROVE  TypeOK'
<1>1. CASE Close
  <2>1. CASE UNCHANGED writeVars /\ closePc' = "stopFlush"
    BY <1>1, <2>1
    DEF TypeOK, Close, transportVars, queueVars, readVars, readerVars, writeVars
  <2>2. ASSUME NEW ok \in BOOLEAN, Flush(ok), closePc' \in {"flushing", "stopFlush"}
        PROVE  TypeOK'
    BY <1>1, <2>2, FlushTypes, ZenonT(60)
    DEF TypeOK, Close, transportVars, queueVars, readVars, readerVars
  <2>3. QED
    BY <1>1, <2>1, <2>2 DEF Close
<1>2. CASE CloseDrained
  BY <1>2
  DEF TypeOK, CloseDrained, transportVars, queueVars, readVars, readerVars, writeVars
<1>3. CASE StopFlushing
  BY <1>3
  DEF TypeOK, StopFlushing, transportVars, queueVars, readVars, readerVars, writeVars
<1>4. CASE StopReading
  BY <1>4, Nothing DEF TypeOK, StopReading, transportVars, queueVars, readerVars, writeVars
<1>5. QED
  BY <1>1, <1>2, <1>3, <1>4 DEF CloseGoesOn

\* Init establishes the type invariant, and every step keeps it.
LEMMA InitTypes == Init => TypeOK
<1>1. <<>> \in Seq(Nat) /\ <<>> \in Seq(Seq(Nat)) /\ <<>> \in Seq(GetTask) /\ Len(<<>>) = 0
  OBVIOUS
<1>2. QED
  <2>1. SUFFICES ASSUME Init PROVE TypeOK
    OBVIOUS
  <2>2. recvQueue \in Seq(Nat) /\ Len(recvQueue) <= QueueSize
    BY <1>1, <2>1, QueueSizeAssumption DEF Init
  <2>3. inbox \in Seq(Seq(Nat)) /\ getters \in Seq(GetTask) /\ rest \in Seq(Nat)
        /\ answer \in Seq(Nat) /\ got \in Seq(Nat) /\ sendBuffer \in Seq(Nat) /\ sent \in Seq(Nat)
    BY <1>1, <2>1 DEF Init
  <2>4. QED
    BY <2>1, <2>2, <2>3 DEF Init, TypeOK

LEMMA StepTypes == TypeOK /\ [Next]_vars => TypeOK'
<1>1. SUFFICES ASSUME TypeOK, [Next]_vars PROVE TypeOK'
  OBVIOUS
<1>2. CASE UNCHANGED vars
  <2>1. recvQueue' = recvQueue
    BY <1>2 DEF vars, queueVars
  <2>2. recvQueue' \in Seq(Nat) /\ Len(recvQueue') <= QueueSize
    BY <1>1, <2>1 DEF TypeOK
  <2>3. QED
    BY <1>1, <1>2, <2>2
    DEF TypeOK, vars, transportVars, queueVars, readVars, readerVars, writeVars, closeVars
<1>3. CASE Next
  <2>1. \/ ReadLoop \/ Arrive \/ PeerEnds \/ Reader \/ Writer \/ Close \/ CloseGoesOn
    BY <1>3 DEF Next
  <2>2. QED
    BY <1>1, <2>1, TransportTypes, ReadLoopTypes, ReaderTypes, WriterTypes, CloseTypes
<1>4. QED
  BY <1>1, <1>2, <1>3

\* Every reachable state is well typed; in particular the receive queue never
\* holds more than its capacity, however reads, cancellations and the read loop's
\* puts interleave.
THEOREM TypeCorrect == Spec => []TypeOK
<1>1. QED
  BY InitTypes, StepTypes, PTL DEF Spec

-----------------------------------------------------------------------------
(* Writing: no packet is reordered or vanishes.                            *)

\* What OnlyImmediateOvertakes says of the wire, for any sequence.
OrderedBut(s, I) ==
    \A i, j \in DOMAIN s : i < j => \/ s[i] < s[j]
                                    \/ s[i] \in I /\ s[i] # s[j]

\* A batch in order, none of whose packets an earlier one should have followed,
\* keeps the wire in order.
LEMMA OrderedJoin ==
    ASSUME NEW s \in Seq(Nat), NEW b \in Seq(Nat), NEW I,
           OrderedBut(s, I), Increasing(b),
           \A x \in Range(s), y \in Range(b) : x # y /\ (x < y \/ x \in I)
    PROVE  OrderedBut(s \o b, I)
<1>1. SUFFICES ASSUME NEW i \in DOMAIN (s \o b), NEW j \in DOMAIN (s \o b), i < j
               PROVE  \/ (s \o b)[i] < (s \o b)[j]
                      \/ (s \o b)[i] \in I /\ (s \o b)[i] # (s \o b)[j]
  BY DEF OrderedBut
<1>2. DOMAIN s = 1 .. Len(s) /\ DOMAIN b = 1 .. Len(b) /\ Len(s) \in Nat /\ Len(b) \in Nat
      /\ DOMAIN (s \o b) = 1 .. Len(s) + Len(b)
  OBVIOUS
<1>3. \A k \in 1 .. Len(s) + Len(b) :
        (s \o b)[k] = IF k <= Len(s) THEN s[k] ELSE b[k - Len(s)]
  OBVIOUS
<1>4. CASE j <= Len(s)
  BY <1>1, <1>2, <1>3, <1>4 DEF OrderedBut
<1>5. CASE i <= Len(s) /\ Len(s) < j
  <2>1. j - Len(s) \in DOMAIN b /\ i \in DOMAIN s
    BY <1>1, <1>2, <1>5
  <2>2. s[i] \in Range(s) /\ b[j - Len(s)] \in Range(b)
    BY <2>1 DEF Range
  <2>3. (s \o b)[i] = s[i] /\ (s \o b)[j] = b[j - Len(s)]
    BY <1>1, <1>2, <1>3, <1>5
  <2>4. QED
    BY <2>2, <2>3
<1>6. CASE Len(s) < i
  <2>1. i - Len(s) \in DOMAIN b /\ j - Len(s) \in DOMAIN b /\ i - Len(s) < j - Len(s)
    BY <1>1, <1>2, <1>6
  <2>2. (s \o b)[i] = b[i - Len(s)] /\ (s \o b)[j] = b[j - Len(s)]
    BY <1>1, <1>2, <1>3, <1>6
  <2>3. b[i - Len(s)] < b[j - Len(s)]
    BY <2>1 DEF Increasing
  <2>4. QED
    BY <2>2, <2>3
<1>7. j <= Len(s) \/ (i <= Len(s) /\ Len(s) < j) \/ Len(s) < i
  BY <1>1, <1>2
<1>8. QED
  BY <1>4, <1>5, <1>6, <1>7

\* What a write does to the packets: they are on the wire, or lost.
LEMMA WriteEffect ==
    ASSUME NEW batch, NEW ok \in BOOLEAN, Write(batch, ok)
    PROVE  \/ sent' = sent \o batch /\ lost' = lost
           \/ sent' = sent /\ lost' = lost \cup Range(batch)
BY DEF Write

\* A step that writes nothing.
LEMMA OutboundRests ==
    ASSUME OutboundInv, UNCHANGED writeVars
    PROVE  OutboundInv'
BY DEF OutboundInv, OnlyImmediateOvertakes, NothingVanishes, writeVars

\* A flush moves the buffer to the end of the wire, or loses it.
LEMMA FlushKeepsOrder ==
    ASSUME TypeOK, OutboundInv, NEW ok \in BOOLEAN, Flush(ok)
    PROVE  OutboundInv'
<1>1. /\ sent \in Seq(Nat) /\ sendBuffer \in Seq(Nat)
      /\ OrderedBut(sent, immediates) /\ Increasing(sendBuffer)
      /\ 1 .. accepted = Range(sent) \cup Range(sendBuffer) \cup lost
      /\ immediates \subseteq 1 .. accepted
      /\ Range(sent) \subseteq 1 .. accepted /\ Range(sendBuffer) \subseteq 1 .. accepted
      /\ \A x \in Range(sent), y \in Range(sendBuffer) : x # y /\ (x < y \/ x \in immediates)
  BY DEF TypeOK, OutboundInv, OnlyImmediateOvertakes, OrderedBut, NothingVanishes
<1>2. sendBuffer' = <<>> /\ accepted' = accepted /\ immediates' = immediates
      /\ Write(sendBuffer, ok)
  BY DEF Flush
<1>3. Range(sendBuffer') = {} /\ Increasing(sendBuffer')
  BY <1>2, Nothing
<1>4. CASE sent' = sent \o sendBuffer /\ lost' = lost
  <2>1. OrderedBut(sent', immediates')
    BY <1>1, <1>2, <1>4, OrderedJoin
  <2>2. Range(sent') = Range(sent) \cup Range(sendBuffer)
    BY <1>1, <1>4, JoinRange
  <2>3. QED
    BY <1>1, <1>2, <1>3, <1>4, <2>1, <2>2
    DEF OutboundInv, OnlyImmediateOvertakes, OrderedBut, NothingVanishes
<1>5. CASE sent' = sent /\ lost' = lost \cup Range(sendBuffer)
  <2>1. OrderedBut(sent', immediates')
    BY <1>1, <1>2, <1>5
  <2>2. QED
    BY <1>1, <1>2, <1>3, <1>5, <2>1
    DEF OutboundInv, OnlyImmediateOvertakes, OrderedBut, NothingVanishes
<1>6. QED
  BY <1>2, <1>4, <1>5, WriteEffect

\* A packet goes to the end of the buffer.
LEMMA WriteKeepsOrder ==
    ASSUME TypeOK, OutboundInv, WritePacket
    PROVE  OutboundInv'
<1>1. /\ sent \in Seq(Nat) /\ sendBuffer \in Seq(Nat) /\ accepted \in Nat
      /\ OrderedBut(sent, immediates) /\ Increasing(sendBuffer)
      /\ 1 .. accepted = Range(sent) \cup Range(sendBuffer) \cup lost
      /\ immediates \subseteq 1 .. accepted
      /\ Range(sent) \subseteq 1 .. accepted /\ Range(sendBuffer) \subseteq 1 .. accepted
      /\ \A x \in Range(sent), y \in Range(sendBuffer) : x # y /\ (x < y \/ x \in immediates)
  BY DEF TypeOK, OutboundInv, OnlyImmediateOvertakes, OrderedBut, NothingVanishes
<1>2. /\ accepted' = accepted + 1 /\ sendBuffer' = Append(sendBuffer, accepted + 1)
      /\ sent' = sent /\ lost' = lost /\ immediates' = immediates
  BY DEF WritePacket
<1>3. Range(sendBuffer') = Range(sendBuffer) \cup {accepted + 1} /\ Increasing(sendBuffer')
  BY <1>1, <1>2, AppendLast
<1>4. 1 .. accepted' = (1 .. accepted) \cup {accepted + 1}
  BY <1>1, <1>2
<1>5. \A x \in Range(sent), y \in Range(sendBuffer') : x # y /\ (x < y \/ x \in immediates)
  BY <1>1, <1>3
<1>6. OrderedBut(sent', immediates')
  BY <1>1, <1>2
<1>7. 1 .. accepted' = Range(sent') \cup Range(sendBuffer') \cup lost'
  BY <1>1, <1>2, <1>3, <1>4
<1>8. QED
  BY <1>1, <1>2, <1>3, <1>4, <1>5, <1>6, <1>7
  DEF OutboundInv, OnlyImmediateOvertakes, OrderedBut, NothingVanishes

\* An immediate packet goes to the end of the wire, past the buffer.
LEMMA ImmediateKeepsOrder ==
    ASSUME TypeOK, OutboundInv, WritePacketImmediate
    PROVE  OutboundInv'
<1>1. /\ sent \in Seq(Nat) /\ sendBuffer \in Seq(Nat) /\ accepted \in Nat
      /\ OrderedBut(sent, immediates) /\ Increasing(sendBuffer)
      /\ 1 .. accepted = Range(sent) \cup Range(sendBuffer) \cup lost
      /\ immediates \subseteq 1 .. accepted
      /\ Range(sent) \subseteq 1 .. accepted /\ Range(sendBuffer) \subseteq 1 .. accepted
      /\ \A x \in Range(sent), y \in Range(sendBuffer) : x # y /\ (x < y \/ x \in immediates)
  BY DEF TypeOK, OutboundInv, OnlyImmediateOvertakes, OrderedBut, NothingVanishes
<1>2. PICK n \in Nat : n = accepted + 1
  BY <1>1
<1>3. PICK ok \in BOOLEAN : Write(<<n>>, ok)
  BY <1>2 DEF WritePacketImmediate
<1>4. accepted' = n /\ immediates' = immediates \cup {n} /\ sendBuffer' = sendBuffer
  BY <1>2 DEF WritePacketImmediate
<1>5. <<n>> \in Seq(Nat) /\ Range(<<n>>) = {n} /\ Increasing(<<n>>)
  BY Singleton
<1>6. 1 .. accepted' = (1 .. accepted) \cup {n}
  BY <1>1, <1>2, <1>4
<1>7. OrderedBut(sent, immediates')
  BY <1>1, <1>4 DEF OrderedBut
<1>8. OrderedBut(sent', immediates')
  <2>1. \A x \in Range(sent), y \in Range(<<n>>) : x # y /\ (x < y \/ x \in immediates')
    BY <1>1, <1>2, <1>5, SMTT(60)
  <2>2. OrderedBut(sent \o <<n>>, immediates')
    BY <1>1, <1>5, <1>7, <2>1, OrderedJoin
  <2>3. QED
    BY <1>3, <1>7, <2>2, WriteEffect
<1>9. /\ Range(sent') \subseteq Range(sent) \cup {n}
      /\ Range(sent') \cup lost' = Range(sent) \cup lost \cup {n}
  <2>1. Range(sent \o <<n>>) = Range(sent) \cup {n}
    BY <1>1, <1>5, JoinRange
  <2>2. QED
    BY <1>3, <1>5, <2>1, WriteEffect
<1>10. \A x \in Range(sent'), y \in Range(sendBuffer) : x # y /\ (x < y \/ x \in immediates')
  BY <1>1, <1>2, <1>4, <1>9
<1>11. QED
  BY <1>1, <1>4, <1>6, <1>8, <1>9, <1>10
  DEF OutboundInv, OnlyImmediateOvertakes, OrderedBut, NothingVanishes

\* Initially and in every step.
LEMMA OutboundStep == TypeOK /\ OutboundInv /\ [Next]_vars => OutboundInv'
<1>1. SUFFICES ASSUME TypeOK, OutboundInv, [Next]_vars PROVE OutboundInv'
  OBVIOUS
<1>2. CASE WritePacket
  BY <1>1, <1>2, WriteKeepsOrder
<1>3. CASE WritePacketImmediate
  BY <1>1, <1>3, ImmediateKeepsOrder
<1>4. CASE \E ok \in BOOLEAN : Flush(ok)
  BY <1>1, <1>4, FlushKeepsOrder
<1>5. CASE UNCHANGED writeVars
  BY <1>1, <1>5, OutboundRests
<1>6. CASE AppFlush \/ FlushWakes \/ Close
  BY <1>4, <1>5, <1>6 DEF AppFlush, FlushWakes, Close
<1>7. CASE ReadLoop \/ Arrive \/ PeerEnds \/ Reader
  BY <1>5, <1>7
  DEF ReadLoop, ReadNext, ReadResumes, PutPacket, PutSuspends, Arrive, PeerEnds, Reader, ReadPacket,
      GetRuns, ReadAnswered, ReadCut, CancelRead
<1>8. CASE FlushDrained \/ CloseGoesOn
  BY <1>5, <1>8 DEF FlushDrained, CloseGoesOn, CloseDrained, StopFlushing, StopReading, transportVars
<1>9. CASE UNCHANGED vars
  BY <1>5, <1>9 DEF vars
<1>10. QED
  BY <1>1, <1>2, <1>3, <1>6, <1>7, <1>8, <1>9 DEF Next, Writer, FlushLoop

LEMMA OutboundInit == Init => OutboundInv
<1>1. SUFFICES ASSUME Init PROVE OutboundInv
  OBVIOUS
<1>2. sent = <<>> /\ sendBuffer = <<>> /\ lost = {} /\ immediates = {} /\ accepted = 0
  BY <1>1 DEF Init
<1>3. Range(sent) = {} /\ Range(sendBuffer) = {} /\ Increasing(sendBuffer) /\ DOMAIN sent = {}
      /\ 1 .. accepted = {}
  BY <1>2, Nothing
<1>4. QED
  BY <1>2, <1>3 DEF OutboundInv, OnlyImmediateOvertakes, NothingVanishes

\* The invariant of the writing side.
THEOREM Outbound == Spec => []OutboundInv
<1>1. QED
  BY InitTypes, StepTypes, OutboundInit, OutboundStep, PTL DEF Spec

\* Packets reach the wire in the order of the write_packet calls, once each,
\* whichever of the application, the flush loop and close() flushes them.
THEOREM WireOrder == Spec => []OnlyImmediateOvertakes
<1>1. OutboundInv => OnlyImmediateOvertakes
  BY DEF OutboundInv
<1>2. QED
  BY <1>1, Outbound, PTL

\* A packet that the application has written is on the wire, in the buffer, or in
\* a batch whose write failed.
THEOREM Accounted == Spec => []NothingVanishes
<1>1. OutboundInv => NothingVanishes
  BY DEF OutboundInv
<1>2. QED
  BY <1>1, Outbound, PTL

-----------------------------------------------------------------------------
(* Reading: no packet overtakes another.                                   *)

\* Batches stay behind the stages when the stages hold no new packet.
LEMMA BatchesStay ==
    ASSUME Ahead \subseteq 1 .. arrived, BatchesInOrder, Ahead' \subseteq Ahead,
           UNCHANGED <<inbox, arrived>>
    PROVE  Ahead' \subseteq 1 .. arrived' /\ BatchesInOrder'
BY DEF BatchesInOrder, Precede

\* A step that touches no stage.
LEMMA InboundRests ==
    ASSUME InboundInv, UNCHANGED <<got, answer, recvQueue, rest, getTask, inbox, arrived>>
    PROVE  InboundInv'
BY DEF InboundInv, StagesInOrder, BatchesInOrder, Ahead

\* A batch arrives: it is behind everything.
LEMMA ArriveKeepsOrder ==
    ASSUME TypeOK, InboundInv, Arrive
    PROVE  InboundInv'
<1>1. PICK k \in BatchSizes :
        /\ inbox' = Append(inbox, [i \in 1 .. k |-> arrived + i])
        /\ arrived' = arrived + k
  BY DEF Arrive
<1>2. k \in Nat /\ arrived \in Nat /\ inbox \in Seq(Seq(Nat))
  BY BatchSizesAssumption DEF TypeOK
<1>3. PICK b \in Seq(Nat) :
        /\ inbox' = Append(inbox, b)
        /\ Increasing(b)
        /\ \A x \in Range(b) : arrived < x /\ x \in 1 .. arrived + k
  BY <1>1, <1>2, ArrivingBatch
<1>4. UNCHANGED <<got, answer, recvQueue, rest, getTask>>
  BY DEF Arrive, queueVars, readVars, readerVars
<1>5. StagesInOrder' /\ Ahead' = Ahead
  BY <1>4 DEF InboundInv, StagesInOrder, Ahead
<1>6. Ahead \subseteq 1 .. arrived /\ BatchesInOrder
  BY DEF InboundInv
<1>7. \A x \in 1 .. arrived : x \in 1 .. arrived' /\ \A y \in Range(b) : x < y
  BY <1>1, <1>2, <1>3
<1>8. /\ DOMAIN inbox' = 1 .. Len(inbox) + 1 /\ DOMAIN inbox = 1 .. Len(inbox)
      /\ Len(inbox) \in Nat
      /\ \A i \in 1 .. Len(inbox) : inbox'[i] = inbox[i]
      /\ inbox'[Len(inbox) + 1] = b
  BY <1>2, <1>3
<1>9. \A i \in 1 .. Len(inbox) :
        /\ Increasing(inbox[i])
        /\ Range(inbox[i]) \subseteq 1 .. arrived
        /\ Precede(Ahead, Range(inbox[i]))
        /\ \A j \in 1 .. Len(inbox) : i < j => Precede(Range(inbox[i]), Range(inbox[j]))
  BY <1>6, <1>8 DEF BatchesInOrder
<1>10. \A i \in 1 .. Len(inbox) : Precede(Range(inbox[i]), Range(b))
  BY <1>7, <1>9 DEF Precede
<1>11. Precede(Ahead, Range(b)) /\ Range(b) \subseteq 1 .. arrived'
  BY <1>1, <1>3, <1>6, <1>7 DEF Precede
<1>12. BatchesInOrder'
  <2>1. SUFFICES ASSUME NEW i \in 1 .. Len(inbox) + 1
                 PROVE  /\ Increasing(inbox'[i])
                        /\ Range(inbox'[i]) \subseteq 1 .. arrived'
                        /\ Precede(Ahead, Range(inbox'[i]))
                        /\ \A j \in 1 .. Len(inbox) + 1 :
                             i < j => Precede(Range(inbox'[i]), Range(inbox'[j]))
    BY <1>5, <1>8 DEF BatchesInOrder
  <2>2. CASE i \in 1 .. Len(inbox)
    <3>1. inbox'[i] = inbox[i] /\ Range(inbox[i]) \subseteq 1 .. arrived'
      BY <1>7, <1>8, <1>9, <2>2
    <3>2. ASSUME NEW j \in 1 .. Len(inbox) + 1, i < j
          PROVE  Precede(Range(inbox'[i]), Range(inbox'[j]))
      <4>1. CASE j \in 1 .. Len(inbox)
        BY <1>8, <1>9, <2>2, <3>2, <4>1
      <4>2. CASE j = Len(inbox) + 1
        BY <1>8, <1>10, <2>2, <4>2
      <4>3. QED
        BY <1>8, <4>1, <4>2
    <3>3. QED
      BY <1>9, <2>2, <3>1, <3>2
  <2>3. CASE i = Len(inbox) + 1
    <3>1. \A j \in 1 .. Len(inbox) + 1 : ~(i < j)
      BY <1>8, <2>3
    <3>2. QED
      BY <1>3, <1>8, <1>11, <2>3, <3>1
  <2>4. QED
    BY <1>8, <2>2, <2>3
<1>13. Ahead' \subseteq 1 .. arrived'
  BY <1>5, <1>6, <1>7
<1>14. QED
  BY <1>5, <1>12, <1>13 DEF InboundInv

\* The read loop takes the first batch: it is behind the other stages, and in
\* front of the other batches.
LEMMA TakeKeepsOrder ==
    ASSUME TypeOK, InboundInv, TakeBatch,
           UNCHANGED <<got, answer, recvQueue, getTask, arrived>>
    PROVE  InboundInv'
<1>1. inbox \in Seq(Seq(Nat)) /\ inbox # <<>> /\ rest' = Head(inbox) /\ inbox' = Tail(inbox)
  BY DEF TypeOK, TakeBatch
<1>2. /\ DOMAIN inbox = 1 .. Len(inbox) /\ Len(inbox) \in Nat /\ 1 \in DOMAIN inbox
      /\ DOMAIN inbox' = 1 .. Len(inbox) - 1
      /\ rest' = inbox[1]
      /\ \A i \in 1 .. Len(inbox) - 1 : inbox'[i] = inbox[i + 1] /\ i + 1 \in DOMAIN inbox
  BY <1>1
<1>3. StagesInOrder /\ Ahead \subseteq 1 .. arrived /\ BatchesInOrder
  BY DEF InboundInv
<1>4. /\ Increasing(rest') /\ Range(rest') \subseteq 1 .. arrived
      /\ Precede(Ahead, Range(rest'))
      /\ \A i \in DOMAIN inbox' : Precede(Range(rest'), Range(inbox'[i]))
  <2>1. \A i \in DOMAIN inbox' : i + 1 \in DOMAIN inbox /\ 1 < i + 1
    BY <1>2
  <2>2. QED
    BY <1>2, <1>3, <2>1 DEF BatchesInOrder
<1>5. StagesInOrder'
  BY <1>3, <1>4 DEF StagesInOrder, Ahead, Precede
<1>6. Ahead' \subseteq Ahead \cup Range(rest')
  BY DEF Ahead
<1>7. \A i \in DOMAIN inbox' :
        /\ Increasing(inbox'[i])
        /\ Range(inbox'[i]) \subseteq 1 .. arrived
        /\ Precede(Ahead, Range(inbox'[i]))
        /\ \A j \in DOMAIN inbox' : i < j => Precede(Range(inbox'[i]), Range(inbox'[j]))
  <2>1. \A i, j \in DOMAIN inbox' : i < j => i + 1 < j + 1
    BY <1>2
  <2>2. QED
    BY <1>2, <1>3, <2>1 DEF BatchesInOrder
<1>8. BatchesInOrder'
  BY <1>4, <1>6, <1>7 DEF BatchesInOrder, Precede
<1>9. Ahead' \subseteq 1 .. arrived'
  BY <1>3, <1>4, <1>6
<1>10. QED
  BY <1>5, <1>8, <1>9 DEF InboundInv

\* A packet goes from the rest of the batch to the end of the queue.
LEMMA PutKeepsOrder ==
    ASSUME TypeOK, InboundInv, PutPacket
    PROVE  InboundInv'
<1>1. /\ rest \in Seq(Nat) /\ rest # <<>> /\ recvQueue \in Seq(Nat)
      /\ recvQueue' = Append(recvQueue, Head(rest)) /\ rest' = Tail(rest)
      /\ UNCHANGED <<got, answer, getTask, inbox, arrived>>
  BY DEF TypeOK, PutPacket, transportVars, readerVars
<1>2. StagesInOrder /\ Ahead \subseteq 1 .. arrived /\ BatchesInOrder
  BY DEF InboundInv
<1>3. PICK e \in Nat :
        /\ recvQueue' = Append(recvQueue, e) /\ e \in Range(rest)
        /\ Range(rest') \subseteq Range(rest) /\ Increasing(rest')
        /\ \A y \in Range(rest') : e < y
  BY <1>1, <1>2, HeadFirst DEF StagesInOrder
<1>4. \A x \in Range(recvQueue) : x < e
  BY <1>2, <1>3 DEF StagesInOrder, Precede
<1>5. Range(recvQueue') = Range(recvQueue) \cup {e} /\ Increasing(recvQueue')
  BY <1>1, <1>2, <1>3, <1>4, AppendLast DEF StagesInOrder
<1>6. StagesInOrder'
  BY <1>1, <1>2, <1>3, <1>5 DEF StagesInOrder, Precede
<1>7. Ahead' \subseteq Ahead
  BY <1>1, <1>3, <1>5 DEF Ahead
<1>8. QED
  BY <1>1, <1>2, <1>6, <1>7, BatchesStay DEF InboundInv

\* The first packet of the queue goes to the application, which holds no answer.
LEMMA ReturnKeepsOrder ==
    ASSUME TypeOK, InboundInv, answer = <<>>, ReturnQueued \/ Raise,
           UNCHANGED <<answer, rest, inbox, arrived>>
    PROVE  InboundInv'
<1>1. StagesInOrder /\ Ahead \subseteq 1 .. arrived /\ BatchesInOrder
  BY DEF InboundInv
<1>2. CASE Raise
  <2>1. UNCHANGED <<got, recvQueue>>
    BY <1>2 DEF Raise
  <2>2. StagesInOrder' /\ Ahead' \subseteq Ahead
    BY <1>1, <2>1 DEF StagesInOrder, Ahead
  <2>3. QED
    BY <1>1, <2>2, BatchesStay DEF InboundInv
<1>3. CASE ReturnQueued
  <2>1. /\ recvQueue \in Seq(Nat) /\ recvQueue # <<>> /\ got \in Seq(Nat)
        /\ got' = Append(got, Head(recvQueue)) /\ recvQueue' = Tail(recvQueue)
    BY <1>3 DEF TypeOK, ReturnQueued
  <2>2. PICK e \in Nat :
          /\ got' = Append(got, e) /\ e \in Range(recvQueue)
          /\ Range(recvQueue') \subseteq Range(recvQueue) /\ Increasing(recvQueue')
          /\ \A y \in Range(recvQueue') : e < y
    BY <1>1, <2>1, HeadFirst DEF StagesInOrder
  <2>3. \A x \in Range(got) : x < e
    BY <1>1, <2>2 DEF StagesInOrder, Precede
  <2>4. Range(got') = Range(got) \cup {e} /\ Increasing(got')
    BY <1>1, <2>1, <2>2, <2>3, AppendLast DEF StagesInOrder
  <2>5. Range(answer) = {}
    BY Nothing
  <2>6. \A y \in Range(rest) : e < y
    BY <1>1, <2>2 DEF StagesInOrder, Precede
  <2>7. StagesInOrder'
    BY <1>1, <2>2, <2>4, <2>5, <2>6 DEF StagesInOrder, Precede
  <2>8. Ahead' \subseteq Ahead
    BY <2>2, <2>4 DEF Ahead
  <2>9. QED
    BY <1>1, <2>7, <2>8, BatchesStay DEF InboundInv
<1>4. QED
  BY <1>2, <1>3

\* A task takes the first packet of the queue, for the reader or for nobody.
LEMMA GetKeepsOrder ==
    ASSUME TypeOK, InboundInv, NEW t \in GetTask, GetRuns(t)
    PROVE  InboundInv'
<1>1. StagesInOrder /\ Ahead \subseteq 1 .. arrived /\ BatchesInOrder
  BY DEF InboundInv
<1>2. UNCHANGED <<got, rest, getTask, inbox, arrived>> /\ recvQueue \in Seq(Nat)
  BY DEF TypeOK, GetRuns, transportVars, readVars
<1>3. CASE recvQueue = <<>>
  <2>1. UNCHANGED <<recvQueue, answer>>
    BY <1>3 DEF GetRuns
  <2>2. QED
    BY <1>2, <2>1, InboundRests
<1>4. CASE recvQueue # <<>>
  <2>1. PICK e \in Nat :
          /\ e = Head(recvQueue) /\ e \in Range(recvQueue)
          /\ Range(Tail(recvQueue)) \subseteq Range(recvQueue) /\ Increasing(Tail(recvQueue))
          /\ \A y \in Range(Tail(recvQueue)) : e < y
    BY <1>1, <1>2, <1>4, HeadFirst DEF StagesInOrder
  <2>2. recvQueue' = Tail(recvQueue)
    BY <1>4 DEF GetRuns
  <2>3. \/ answer' = answer
        \/ t = getTask /\ answer' = <<e>>
    BY <1>4, <2>1 DEF GetRuns
  <2>4. Ahead' \subseteq Ahead
    BY <1>2, <2>1, <2>2, <2>3, Singleton DEF Ahead
  <2>5. CASE answer' = answer
    <3>1. StagesInOrder'
      BY <1>1, <1>2, <2>1, <2>2, <2>5 DEF StagesInOrder, Precede
    <3>2. QED
      BY <1>1, <1>2, <2>4, <3>1, BatchesStay DEF InboundInv
  <2>6. CASE t = getTask /\ answer' = <<e>>
    <3>1. Range(answer') = {e} /\ Len(answer') < 2 /\ getTask' # 0
      BY <1>2, <2>1, <2>6, Singleton DEF GetTask
    <3>2. /\ \A x \in Range(got) : x < e
          /\ \A y \in Range(rest) : e < y
      BY <1>1, <2>1 DEF StagesInOrder, Precede
    <3>3. StagesInOrder'
      BY <1>1, <1>2, <2>1, <2>2, <3>1, <3>2 DEF StagesInOrder, Precede
    <3>4. QED
      BY <1>1, <1>2, <2>4, <3>3, BatchesStay DEF InboundInv
  <2>7. QED
    BY <2>3, <2>5, <2>6
<1>5. QED
  BY <1>3, <1>4

\* The answer goes to the application.
LEMMA AnswerKeepsOrder ==
    ASSUME TypeOK, InboundInv, ReadAnswered
    PROVE  InboundInv'
<1>1. StagesInOrder /\ Ahead \subseteq 1 .. arrived /\ BatchesInOrder
  BY DEF InboundInv
<1>2. /\ answer \in Seq(Nat) /\ answer # <<>> /\ got \in Seq(Nat)
      /\ got' = got \o answer /\ answer' = <<>>
      /\ UNCHANGED <<recvQueue, rest, inbox, arrived>>
  BY DEF TypeOK, ReadAnswered, transportVars, queueVars, readVars
<1>3. PICK e \in Nat : answer = <<e>>
  <2>1. Len(answer) < 2
    BY <1>1 DEF StagesInOrder
  <2>2. QED
    BY <1>2, <2>1, OneElement
<1>4. Range(answer) = {e} /\ Range(answer') = {} /\ Len(answer') < 2
  BY <1>2, <1>3, Singleton, Nothing
<1>5. got' = Append(got, e)
  BY <1>2, <1>3
<1>6. \A x \in Range(got) : x < e
  BY <1>1, <1>4 DEF StagesInOrder, Precede
<1>7. Range(got') = Range(got) \cup {e} /\ Increasing(got')
  BY <1>1, <1>2, <1>5, <1>6, AppendLast DEF StagesInOrder
<1>8. StagesInOrder'
  BY <1>1, <1>2, <1>4, <1>7 DEF StagesInOrder, Precede
<1>9. Ahead' \subseteq Ahead
  BY <1>2, <1>4, <1>7 DEF Ahead
<1>10. QED
  BY <1>1, <1>2, <1>8, <1>9, BatchesStay DEF InboundInv

\* What was to be returned or put is dropped: a cancelled read, a closed loop.
LEMMA DropKeepsOrder ==
    ASSUME InboundInv, CancelRead \/ StopReading
    PROVE  InboundInv'
<1>1. StagesInOrder /\ Ahead \subseteq 1 .. arrived /\ BatchesInOrder
  BY DEF InboundInv
<1>2. UNCHANGED <<got, recvQueue, inbox, arrived>>
  BY DEF CancelRead, StopReading, transportVars, queueVars, readerVars
<1>3. \/ answer' = <<>> /\ rest' = rest
      \/ rest' = <<>> /\ answer' = answer /\ getTask' = getTask
  BY DEF CancelRead, StopReading, readVars, readerVars
<1>4. StagesInOrder' /\ Ahead' \subseteq Ahead
  <2>1. CASE answer' = <<>> /\ rest' = rest
    <3>1. Range(answer') = {} /\ Len(answer') < 2
      BY <2>1, Nothing
    <3>2. QED
      BY <1>1, <1>2, <2>1, <3>1 DEF StagesInOrder, Ahead, Precede
  <2>2. CASE rest' = <<>> /\ answer' = answer /\ getTask' = getTask
    <3>1. Range(rest') = {} /\ Increasing(rest')
      BY <2>2, Nothing
    <3>2. QED
      BY <1>1, <1>2, <2>2, <3>1 DEF StagesInOrder, Ahead, Precede
  <2>3. QED
    BY <1>3, <2>1, <2>2
<1>5. QED
  BY <1>1, <1>2, <1>4, BatchesStay DEF InboundInv

\* Initially and in every step.
LEMMA InboundStep == TypeOK /\ InboundInv /\ [Next]_vars => InboundInv'
<1>1. SUFFICES ASSUME TypeOK, InboundInv, [Next]_vars PROVE InboundInv'
  OBVIOUS
<1>2. CASE UNCHANGED <<got, answer, recvQueue, rest, getTask, inbox, arrived>>
  BY <1>1, <1>2, InboundRests
<1>3. CASE Arrive
  BY <1>1, <1>3, ArriveKeepsOrder
<1>4. CASE ReadNext \/ ReadResumes
  <2>1. /\ UNCHANGED <<got, answer, recvQueue, getTask, arrived>>
        /\ TakeBatch \/ LoopEnds \/ Suspend
    BY <1>4 DEF ReadNext, ReadResumes, queueVars, readerVars
  <2>2. CASE TakeBatch
    BY <1>1, <2>1, <2>2, TakeKeepsOrder
  <2>3. CASE LoopEnds \/ Suspend
    BY <1>2, <2>1, <2>3 DEF LoopEnds, Suspend
  <2>4. QED
    BY <2>1, <2>2, <2>3
<1>5. CASE PutPacket
  BY <1>1, <1>5, PutKeepsOrder
<1>6. CASE ReadPacket
  <2>1. /\ UNCHANGED <<answer, rest, inbox, arrived>>
        /\ getTask = 0
        /\ \/ ReturnQueued \/ Raise
           \/ UNCHANGED <<recvQueue, got>>
    BY <1>6 DEF ReadPacket, transportVars, readVars
  <2>2. answer = <<>>
    BY <1>1, <2>1 DEF InboundInv, StagesInOrder
  <2>3. CASE ReturnQueued \/ Raise
    BY <1>1, <2>1, <2>2, <2>3, ReturnKeepsOrder
  <2>4. CASE UNCHANGED <<recvQueue, got>>
    BY <1>1, <2>1, <2>2, <2>4 DEF InboundInv, StagesInOrder, BatchesInOrder, Ahead
  <2>5. QED
    BY <2>1, <2>3, <2>4
<1>7. CASE \E t \in GetTask : GetRuns(t)
  BY <1>1, <1>7, GetKeepsOrder
<1>8. CASE ReadAnswered
  BY <1>1, <1>8, AnswerKeepsOrder
<1>9. CASE ReadCut
  <2>1. /\ answer = <<>> /\ (ReturnQueued \/ Raise)
        /\ UNCHANGED <<answer, rest, inbox, arrived>>
    BY <1>9 DEF ReadCut, transportVars, readVars
  <2>2. QED
    BY <1>1, <2>1, ReturnKeepsOrder
<1>10. CASE CancelRead \/ StopReading
  BY <1>1, <1>10, DropKeepsOrder
<1>11. CASE PeerEnds \/ PutSuspends \/ Writer
  BY <1>2, <1>11
  DEF PeerEnds, PutSuspends, Writer, WritePacket, WritePacketImmediate, AppFlush, FlushLoop, FlushWakes,
      FlushDrained, transportVars, queueVars, readVars, readerVars
<1>12. CASE Close \/ CloseDrained \/ StopFlushing
  BY <1>2, <1>12
  DEF Close, CloseDrained, StopFlushing, transportVars, queueVars, readVars, readerVars
<1>13. CASE UNCHANGED vars
  BY <1>2, <1>13 DEF vars, transportVars, queueVars, readVars, readerVars
<1>14. QED
  BY <1>1, <1>3, <1>4, <1>5, <1>6, <1>7, <1>8, <1>9, <1>10, <1>11, <1>12, <1>13
  DEF Next, ReadLoop, Reader, CloseGoesOn

LEMMA InboundInit == Init => InboundInv
<1>1. SUFFICES ASSUME Init PROVE InboundInv
  OBVIOUS
<1>2. /\ got = <<>> /\ answer = <<>> /\ recvQueue = <<>> /\ rest = <<>> /\ inbox = <<>>
      /\ arrived = 0
  BY <1>1 DEF Init
<1>3. Range(<<>>) = {} /\ Increasing(<<>>) /\ Len(<<>>) = 0 /\ DOMAIN <<>> = {}
  BY Nothing
<1>4. QED
  BY <1>2, <1>3 DEF InboundInv, StagesInOrder, BatchesInOrder, Ahead, Precede

\* The invariant of the reading side.
THEOREM Inbound == Spec => []InboundInv
<1>1. QED
  BY InitTypes, StepTypes, InboundInit, InboundStep, PTL DEF Spec

\* read_packet returns packets in the order of their arrival, none twice, for any
\* number of cancelled reads, any capacity of the queue and any transport.
THEOREM ReadOrder == Spec => []ReadInOrder
<1>1. InboundInv => ReadInOrder
  BY DEF InboundInv, StagesInOrder, ReadInOrder
<1>2. QED
  BY <1>1, Inbound, PTL

-----------------------------------------------------------------------------
(* close() flushes.                                                        *)

\* A packet is lost for a cause, and from the call of close() on what was accepted before
\* it is on the wire unless there is one.
CloseInv ==
    /\ closed <=> (closePc # "open")
    /\ lost # {} => ended \/ fails > 0 \/ closePc = "closed"
    /\ closed /\ ~ended /\ fails = 0 => 1 .. owed \subseteq Range(sent)

\* A write that fails is a cause.
LEMMA WriteFailsForCause ==
    ASSUME TypeOK, CloseInv, NEW batch \in Seq(Nat), NEW ok \in BOOLEAN, Write(batch, ok)
    PROVE  /\ fails' \in Nat /\ (fails' = 0 => fails = 0)
           /\ Range(sent) \subseteq Range(sent')
           /\ lost' # {} => ended \/ fails' > 0 \/ closePc = "closed"
<1>1. fails \in Nat /\ sent \in Seq(Nat)
  BY DEF TypeOK
<1>2. CASE ok
  <2>1. sent' = sent \o batch /\ lost' = lost /\ fails' = fails
    BY <1>2 DEF Write
  <2>2. Range(sent') = Range(sent) \cup Range(batch)
    BY <1>1, <2>1, JoinRange
  <2> QED BY <1>1, <2>1, <2>2 DEF CloseInv
<1>3. CASE ~ok
  <2>1. sent' = sent /\ MayFail /\ fails' = IF MustFail \/ ended THEN fails ELSE fails + 1
    BY <1>3 DEF Write
  <2>2. MustFail => ended \/ closePc = "closed"
    BY DEF MustFail
  <2>3. fails' \in Nat /\ (fails' = 0 => fails = 0)
    BY <1>1, <2>1
  <2>4. ~(MustFail \/ ended) => fails' > 0
    BY <1>1, <2>1
  <2> QED BY <2>1, <2>2, <2>3, <2>4
<1> QED BY <1>2, <1>3

\* A step that writes no batch.
LEMMA CloseRests ==
    ASSUME CloseInv, UNCHANGED <<closed, closePc, lost, fails, sent, owed>>, ended => ended'
    PROVE  CloseInv'
BY DEF CloseInv

\* One that does, and leaves close() where it is.
LEMMA WriteKeepsClose ==
    ASSUME TypeOK, CloseInv, NEW batch \in Seq(Nat), NEW ok \in BOOLEAN, Write(batch, ok),
           UNCHANGED <<closed, closePc, owed, ended>>
    PROVE  CloseInv'
<1>1. /\ fails' = 0 => fails = 0
      /\ Range(sent) \subseteq Range(sent')
      /\ lost' # {} => ended \/ fails' > 0 \/ closePc = "closed"
  BY WriteFailsForCause
<1> QED BY <1>1 DEF CloseInv

\* The call of close(): what has been accepted is on the wire already, or in the buffer.
LEMMA CloseKeepsClose ==
    ASSUME TypeOK, OutboundInv, CloseInv, Close
    PROVE  CloseInv'
<1>1. /\ ~closed /\ closed' = TRUE /\ owed' = accepted /\ ended' = ended
      /\ closePc' \in {"stopFlush", "flushing"} /\ closePc = "open"
  BY DEF Close, CloseInv, transportVars
<1>2. 1 .. accepted = Range(sent) \cup Range(sendBuffer) \cup lost
  BY DEF OutboundInv, NothingVanishes
<1>3. CASE sendBuffer = <<>> /\ UNCHANGED writeVars
  <2>1. UNCHANGED <<sent, lost, fails>> /\ Range(sendBuffer) = {}
    BY <1>3, Nothing DEF writeVars
  <2> QED BY <1>1, <1>2, <2>1 DEF CloseInv
<1>4. CASE \E ok \in BOOLEAN : Flush(ok)
  <2>1. PICK ok \in BOOLEAN : Flush(ok)
    BY <1>4
  <2>2. Write(sendBuffer, ok) /\ sendBuffer \in Seq(Nat) /\ sent \in Seq(Nat)
    BY <2>1 DEF TypeOK, Flush
  <2>3. /\ fails' \in Nat /\ (fails' = 0 => fails = 0)
        /\ lost' # {} => ended \/ fails' > 0
    BY <1>1, <2>2, WriteFailsForCause
  <2>4. CASE ok
    <3>1. sent' = sent \o sendBuffer /\ lost' = lost
      BY <2>2, <2>4 DEF Write
    <3>2. Range(sent') = Range(sent) \cup Range(sendBuffer)
      BY <2>2, <3>1, JoinRange
    <3>3. ~ended /\ fails' = 0 => lost = {}
      BY <2>3, <3>1
    <3> QED BY <1>1, <1>2, <2>3, <3>2, <3>3 DEF CloseInv
  <2>5. CASE ~ok
    <3>1. MayFail /\ fails' = IF MustFail \/ ended THEN fails ELSE fails + 1
      BY <2>2, <2>5 DEF Write
    <3>2. ended \/ fails' > 0
      BY <1>1, <3>1 DEF MustFail, TypeOK
    <3> QED BY <1>1, <2>3, <3>2 DEF CloseInv
  <2> QED BY <2>4, <2>5
<1> QED BY <1>3, <1>4 DEF Close

LEMMA CloseInvStep == TypeOK /\ OutboundInv /\ CloseInv /\ [Next]_vars => CloseInv'
<1> SUFFICES ASSUME TypeOK, OutboundInv, CloseInv, [Next]_vars
             PROVE  CloseInv'
  OBVIOUS
<1>1. CASE UNCHANGED <<closed, closePc, lost, fails, sent, owed>> /\ (ended => ended')
  BY <1>1, CloseRests
<1>2. CASE Arrive \/ PeerEnds \/ Reader \/ ReadLoop \/ UNCHANGED vars
  BY <1>1, <1>2
  DEF Arrive, PeerEnds, ReadLoop, ReadNext, ReadResumes, PutPacket, PutSuspends, Reader, ReadPacket,
      GetRuns, ReadAnswered, ReadCut, CancelRead, vars, transportVars, writeVars, closeVars
<1>3. CASE WritePacket \/ FlushDrained
  BY <1>1, <1>3 DEF WritePacket, FlushDrained, transportVars, writeVars, closeVars
<1>4. ASSUME NEW ok \in BOOLEAN, Flush(ok), UNCHANGED <<closed, closePc, owed, ended>>
      PROVE  CloseInv'
  <2>1. Write(sendBuffer, ok) /\ sendBuffer \in Seq(Nat)
    BY <1>4 DEF Flush, TypeOK
  <2> QED BY <1>4, <2>1, WriteKeepsClose
<1>5. CASE AppFlush
  BY <1>4, <1>5 DEF AppFlush, transportVars, closeVars
<1>6. CASE FlushWakes
  <2>1. UNCHANGED <<closed, closePc, owed, ended>> /\ (UNCHANGED writeVars \/ \E ok \in BOOLEAN : Flush(ok))
    BY <1>6 DEF FlushWakes, transportVars, closeVars
  <2>2. CASE UNCHANGED writeVars
    BY <1>1, <2>1, <2>2 DEF writeVars
  <2> QED BY <1>4, <2>1, <2>2
<1>7. CASE WritePacketImmediate
  <2>1. PICK ok \in BOOLEAN : Write(<<accepted + 1>>, ok)
    BY <1>7 DEF WritePacketImmediate
  <2>2. <<accepted + 1>> \in Seq(Nat)
    BY DEF TypeOK
  <2>3. UNCHANGED <<closed, closePc, owed, ended>>
    BY <1>7 DEF WritePacketImmediate, transportVars, closeVars
  <2> QED BY <2>1, <2>2, <2>3, WriteKeepsClose
<1>8. CASE Close
  BY <1>8, CloseKeepsClose
<1>9. CASE CloseGoesOn
  <2>1. /\ UNCHANGED <<closed, lost, fails, sent, owed, ended>>
        /\ closePc # "open" /\ closePc' # "open" /\ (closePc = "closed" => closePc' = "closed")
    BY <1>9 DEF CloseGoesOn, CloseDrained, StopFlushing, StopReading, transportVars, writeVars
  <2> QED BY <2>1 DEF CloseInv
<1> QED BY <1>2, <1>3, <1>5, <1>6, <1>7, <1>8, <1>9 DEF Next, Writer, FlushLoop

LEMMA CloseInvInit == Init => CloseInv
BY Nothing DEF Init, CloseInv

\* close() puts on the wire what was accepted before it, whatever the flush loop that it
\* cancels was about to do, unless the peer has ended the connection or a write has failed.
THEOREM CloseFlushesFirst == Spec => []CloseFlushes
<1>1. TypeOK /\ OutboundInv /\ CloseInv => CloseFlushes
  BY DEF CloseInv, CloseFlushes
<1>2. Init => TypeOK /\ OutboundInv /\ CloseInv
  BY InitTypes, OutboundInit, CloseInvInit
<1>3. (TypeOK /\ OutboundInv /\ CloseInv) /\ [Next]_vars => (TypeOK /\ OutboundInv /\ CloseInv)'
  BY StepTypes, OutboundStep, CloseInvStep
<1> QED BY <1>1, <1>2, <1>3, PTL DEF Spec

-----------------------------------------------------------------------------
(* The get() tasks of cancelled reads.                                     *)

NoTwice(s) == \A i, j \in DOMAIN s : s[i] = s[j] => i = j

\* The line of tasks without its first, with another, and without one of them.
LEMMA TailOnce ==
    ASSUME NEW S, NEW s \in Seq(S), s # <<>>, NoTwice(s)
    PROVE  /\ NoTwice(Tail(s)) /\ Head(s) \notin Range(Tail(s))
           /\ Range(s) = {Head(s)} \cup Range(Tail(s))
<1>1. /\ Head(s) = s[1] /\ Len(s) \in Nat /\ Len(s) >= 1 /\ Len(Tail(s)) = Len(s) - 1
      /\ DOMAIN s = 1 .. Len(s) /\ DOMAIN Tail(s) = 1 .. Len(s) - 1
      /\ \A i \in 1 .. Len(s) - 1 : Tail(s)[i] = s[i + 1]
  OBVIOUS
<1>2. \A i \in 1 .. Len(s) - 1 : i + 1 \in DOMAIN s /\ i \in Int
  BY <1>1
<1>3. 1 \in DOMAIN s /\ \A i \in DOMAIN s : i = 1 \/ (i - 1 \in 1 .. Len(s) - 1 /\ s[i] = Tail(s)[i - 1])
  BY <1>1
<1>4. NoTwice(Tail(s))
  <2> SUFFICES ASSUME NEW i \in 1 .. Len(s) - 1, NEW j \in 1 .. Len(s) - 1, Tail(s)[i] = Tail(s)[j]
               PROVE  i = j
    BY <1>1 DEF NoTwice
  <2>1. s[i + 1] = s[j + 1]
    BY <1>1
  <2>2. i + 1 = j + 1
    BY <1>2, <2>1 DEF NoTwice
  <2> QED BY <1>2, <2>2
<1>5. Head(s) \notin Range(Tail(s))
  <2> SUFFICES ASSUME NEW i \in 1 .. Len(s) - 1, Tail(s)[i] = Head(s)
               PROVE  FALSE
    BY <1>1 DEF Range
  <2>1. s[i + 1] = s[1]
    BY <1>1
  <2>2. i + 1 = 1
    BY <1>2, <1>3, <2>1 DEF NoTwice
  <2> QED BY <2>2
<1>6. Range(s) = {Head(s)} \cup Range(Tail(s))
  <2>1. Range(s) \subseteq {Head(s)} \cup Range(Tail(s))
    <3> SUFFICES ASSUME NEW i \in 1 .. Len(s)
                 PROVE  s[i] = Head(s) \/ s[i] \in Range(Tail(s))
      BY <1>1 DEF Range
    <3>1. CASE i = 1
      BY <1>1, <3>1
    <3>2. CASE i # 1
      BY <1>1, <1>3, <3>2 DEF Range
    <3> QED BY <3>1, <3>2
  <2>2. {Head(s)} \cup Range(Tail(s)) \subseteq Range(s)
    BY <1>1, <1>2, <1>3 DEF Range
  <2> QED BY <2>1, <2>2
<1> QED BY <1>4, <1>5, <1>6

LEMMA AppendOnce ==
    ASSUME NEW S, NEW s \in Seq(S), NEW t \in S, NoTwice(s), t \notin Range(s)
    PROVE  NoTwice(Append(s, t)) /\ Range(Append(s, t)) = Range(s) \cup {t}
<1>1. /\ Len(s) \in Nat /\ DOMAIN s = 1 .. Len(s) /\ DOMAIN Append(s, t) = 1 .. Len(s) + 1
      /\ \A i \in 1 .. Len(s) : Append(s, t)[i] = s[i]
      /\ Append(s, t)[Len(s) + 1] = t
  OBVIOUS
<1>2. \A i \in 1 .. Len(s) + 1 : i \in 1 .. Len(s) \/ i = Len(s) + 1
  BY <1>1
<1>3. \A i \in 1 .. Len(s) : s[i] # t /\ i \in 1 .. Len(s) + 1
  BY <1>1 DEF Range
<1>4. Len(s) + 1 \in 1 .. Len(s) + 1
  BY <1>1
<1>5. NoTwice(Append(s, t))
  BY <1>1, <1>2, <1>3 DEF NoTwice
<1>6. Range(Append(s, t)) = Range(s) \cup {t}
  BY <1>1, <1>2, <1>3, <1>4 DEF Range
<1> QED BY <1>5, <1>6

LEMMA CancelledOnce ==
    ASSUME NEW S, NEW s \in Seq(S), NoTwice(s), NEW t
    PROVE  NoTwice(Cancelled(s, t)) /\ Range(Cancelled(s, t)) = Range(s) \ {t}
<1>1. CASE t \notin Range(s)
  <2>1. Cancelled(s, t) = s
    BY <1>1 DEF Cancelled
  <2> QED BY <1>1, <2>1
<1>2. CASE t \in Range(s)
  <2> DEFINE c == Cancelled(s, t)
  <2>1. Len(s) \in Nat /\ DOMAIN s = 1 .. Len(s)
    OBVIOUS
  <2>2. PICK k \in DOMAIN s : k = CHOOSE i \in DOMAIN s : s[i] = t
    BY <1>2 DEF Range
  <2>3. s[k] = t /\ k \in 1 .. Len(s) /\ k \in Int
    BY <1>2, <2>1, <2>2 DEF Range
  <2> DEFINE a == SubSeq(s, 1, k - 1)
             b == SubSeq(s, k + 1, Len(s))
  <2>4. c = a \o b
    BY <1>2, <2>2 DEF Cancelled
  <2>5. /\ a \in Seq(S) /\ Len(a) = k - 1
        /\ \A i \in 1 .. k - 1 : a[i] = s[i]
    <3>1. \A i \in 1 .. k - 1 : s[i] \in S
      BY <2>1, <2>3
    <3>2. 1 <= k - 1 => Len(a) = k - 1 - 1 + 1
      BY <2>3, <3>1, SubSeqProperties
    <3>3. ~(1 <= k - 1) => Len(a) = 0
      BY <2>3, <3>1, SubSeqProperties
    <3>4. Len(a) = k - 1
      BY <2>3, <3>2, <3>3
    <3>5. a \in Seq(S) /\ \A i \in 1 .. k - 1 - 1 + 1 : a[i] = s[1 + i - 1]
      BY <2>3, <3>1, SubSeqProperties
    <3>6. \A i \in 1 .. k - 1 : a[i] = s[i]
      BY <2>3, <3>5
    <3> QED BY <3>4, <3>5, <3>6
  <2>6. /\ b \in Seq(S) /\ Len(b) = Len(s) - k
        /\ \A i \in 1 .. Len(s) - k : b[i] = s[i + k]
    <3>1. \A i \in k + 1 .. Len(s) : s[i] \in S
      BY <2>1, <2>3
    <3>2. k + 1 <= Len(s) => Len(b) = Len(s) - (k + 1) + 1
      BY <2>1, <2>3, <3>1, SubSeqProperties
    <3>3. ~(k + 1 <= Len(s)) => Len(b) = 0
      BY <2>1, <2>3, <3>1, SubSeqProperties
    <3>4. Len(b) = Len(s) - k
      BY <2>1, <2>3, <3>2, <3>3
    <3>5. b \in Seq(S) /\ \A i \in 1 .. Len(s) - (k + 1) + 1 : b[i] = s[k + 1 + i - 1]
      BY <2>1, <2>3, <3>1, SubSeqProperties
    <3>6. \A i \in 1 .. Len(s) - k : b[i] = s[i + k]
      BY <2>1, <2>3, <3>5
    <3> QED BY <3>4, <3>5, <3>6
  <2> HIDE DEF a, b
  <2>7. /\ DOMAIN (a \o b) = 1 .. Len(s) - 1
        /\ \A i \in 1 .. Len(s) - 1 : (a \o b)[i] = IF i < k THEN s[i] ELSE s[i + 1]
    <3>1. /\ a \o b \in Seq(S) /\ Len(a \o b) = Len(a) + Len(b)
          /\ \A i \in 1 .. Len(a) + Len(b) : (a \o b)[i] = IF i <= Len(a) THEN a[i] ELSE b[i - Len(a)]
      BY <2>5, <2>6, ConcatProperties
    <3>2. Len(a) + Len(b) = Len(s) - 1
      BY <2>1, <2>3, <2>5, <2>6
    <3>3. DOMAIN (a \o b) = 1 .. Len(s) - 1
      BY <3>1, <3>2, LenProperties
    <3>4. ASSUME NEW i \in 1 .. Len(s) - 1
          PROVE  (a \o b)[i] = IF i < k THEN s[i] ELSE s[i + 1]
      <4>1. (a \o b)[i] = IF i <= k - 1 THEN a[i] ELSE b[i - (k - 1)]
        BY <2>5, <3>1, <3>2
      <4>2. i < k => i \in 1 .. k - 1 /\ i <= k - 1
        BY <2>1, <2>3
      <4>3. ~(i < k) => i - (k - 1) \in 1 .. Len(s) - k /\ i - (k - 1) + k = i + 1 /\ ~(i <= k - 1)
        BY <2>1, <2>3
      <4> QED BY <2>5, <2>6, <4>1, <4>2, <4>3
    <3> QED BY <3>3, <3>4
  <2> DEFINE at(i) == IF i < k THEN i ELSE i + 1
  <2>8. \A i \in 1 .. Len(s) - 1 : at(i) \in 1 .. Len(s) /\ at(i) # k /\ c[i] = s[at(i)]
    <3> SUFFICES ASSUME NEW i \in 1 .. Len(s) - 1
                 PROVE  at(i) \in 1 .. Len(s) /\ at(i) # k /\ c[i] = s[at(i)]
      OBVIOUS
    <3>1. at(i) \in 1 .. Len(s) /\ at(i) # k
      BY <2>1, <2>3
    <3>2. (a \o b)[i] = s[at(i)]
      BY <2>7
    <3> QED BY <2>4, <3>1, <3>2
  <2>9. \A i, j \in 1 .. Len(s) - 1 : at(i) = at(j) => i = j
    BY <2>1, <2>3
  <2>10. \A j \in 1 .. Len(s) : j # k => \E i \in 1 .. Len(s) - 1 : at(i) = j
    <3> SUFFICES ASSUME NEW j \in 1 .. Len(s), j # k
                 PROVE  \E i \in 1 .. Len(s) - 1 : at(i) = j
      OBVIOUS
    <3>1. CASE j < k
      <4>1. j \in 1 .. Len(s) - 1 /\ at(j) = j
        BY <2>1, <2>3, <3>1
      <4> QED BY <4>1
    <3>2. CASE ~(j < k)
      <4>1. j - 1 \in 1 .. Len(s) - 1 /\ at(j - 1) = j
        BY <2>1, <2>3, <3>2
      <4> QED BY <4>1
    <3> QED BY <3>1, <3>2
  <2>11. DOMAIN c = 1 .. Len(s) - 1
    BY <2>4, <2>7
  <2> HIDE DEF at, c
  <2>12. NoTwice(c)
    BY <2>1, <2>8, <2>9, <2>11 DEF NoTwice
  <2>13. \A j \in 1 .. Len(s) : j # k => s[j] # t
    BY <2>1, <2>3 DEF NoTwice
  <2>14. Range(c) \subseteq Range(s) \ {t}
    BY <2>1, <2>8, <2>11, <2>13 DEF Range
  <2>15. Range(s) \ {t} \subseteq Range(c)
    <3> SUFFICES ASSUME NEW j \in 1 .. Len(s), s[j] # t
                 PROVE  s[j] \in Range(c)
      BY <2>1 DEF Range
    <3>1. PICK i \in 1 .. Len(s) - 1 : at(i) = j
      BY <2>3, <2>10
    <3> QED BY <2>8, <2>11, <3>1 DEF Range
  <2> QED BY <2>12, <2>14, <2>15 DEF c
<1> QED BY <1>1, <1>2

Tasks == woken \cup Range(getters)
Orphans == Tasks \ {getTask}

\* Tasks wait once each, the one that has answered no more, and each cancelled read has left
\* one behind at most, which has swallowed one packet or none.
TasksInv ==
    /\ NoTwice(getters) /\ woken \cap Range(getters) = {}
    /\ answer # <<>> => getTask \notin Tasks
    /\ IsFiniteSet(swallowed)
    /\ Cardinality(swallowed) + Cardinality(Orphans) <= cancels

LEMMA TasksAre ==
    ASSUME TypeOK
    PROVE  /\ Tasks \subseteq GetTask /\ 0 \notin Tasks
           /\ IsFiniteSet(Orphans) /\ Cardinality(Orphans) \in Nat
<1>1. getters \in Seq(GetTask) /\ woken \subseteq GetTask
  BY DEF TypeOK
<1>2. Tasks \subseteq GetTask
  BY <1>1 DEF Tasks, Range
<1>3. IsFiniteSet(GetTask)
  BY FS_Interval, BoundsAssumption DEF GetTask
<1>4. IsFiniteSet(Orphans)
  BY <1>2, <1>3, FS_Subset DEF Orphans
<1>5. 0 \notin GetTask
  BY DEF GetTask
<1> QED BY <1>2, <1>4, <1>5, FS_CardinalityType

\* One element more.
LEMMA OneElementMore ==
    ASSUME NEW S, IsFiniteSet(S), NEW x
    PROVE  /\ IsFiniteSet(S \cup {x}) /\ Cardinality(S \cup {x}) \in Nat
           /\ Cardinality(S \cup {x}) <= Cardinality(S) + 1
<1>1. Cardinality(S) \in Nat
  BY FS_CardinalityType
<1>2. IsFiniteSet(S \cup {x}) /\ Cardinality(S \cup {x}) \in {Cardinality(S), Cardinality(S) + 1}
  BY FS_AddElement
<1> QED BY <1>1, <1>2

\* A step that leaves the same tasks behind.
LEMMA SameOrphans ==
    ASSUME TasksInv, NoTwice(getters'), woken' \cap Range(getters') = {},
           answer' # <<>> => getTask' \notin Tasks', Orphans' = Orphans,
           UNCHANGED <<swallowed, cancels>>
    PROVE  TasksInv'
BY DEF TasksInv

LEMMA TasksRest ==
    ASSUME TasksInv, UNCHANGED <<woken, getters, answer, getTask, swallowed, cancels>>
    PROVE  TasksInv'
BY SameOrphans DEF TasksInv, Tasks, Orphans

\* A packet in the queue wakes the first that waits.
LEMMA PutKeepsTasks ==
    ASSUME TypeOK, TasksInv, PutPacket
    PROVE  TasksInv'
<1>1. WakeNext /\ UNCHANGED <<answer, getTask, swallowed, cancels>> /\ getters \in Seq(GetTask)
  BY DEF PutPacket, readerVars, TypeOK
<1>2. CASE getters = <<>>
  BY <1>1, <1>2, TasksRest DEF WakeNext
<1>3. CASE getters # <<>>
  <2>1. getters' = Tail(getters) /\ woken' = woken \cup {Head(getters)}
    BY <1>1, <1>3 DEF WakeNext
  <2>2. /\ NoTwice(Tail(getters)) /\ Head(getters) \notin Range(Tail(getters))
        /\ Range(getters) = {Head(getters)} \cup Range(Tail(getters))
    BY <1>1, <1>3, TailOnce DEF TasksInv
  <2>3. Tasks' = Tasks
    BY <2>1, <2>2 DEF Tasks
  <2>4. woken' \cap Range(getters') = {}
    BY <2>1, <2>2 DEF TasksInv
  <2>5. Orphans' = Orphans
    BY <1>1, <2>3 DEF Orphans
  <2> QED BY <1>1, <2>1, <2>2, <2>3, <2>4, <2>5, SameOrphans DEF TasksInv
<1> QED BY <1>2, <1>3

\* read_packet starts a task.
LEMMA ReadKeepsTasks ==
    ASSUME TypeOK, InboundInv, TasksInv, ReadPacket
    PROVE  TasksInv'
<1>1. getTask = 0 /\ answer = <<>> /\ UNCHANGED <<getters, answer, swallowed, cancels>>
  BY DEF ReadPacket, InboundInv, StagesInOrder
<1>2. CASE UNCHANGED <<getTask, woken>>
  BY <1>1, <1>2, TasksRest
<1>3. CASE FreeTask # {} /\ getTask' = (CHOOSE t \in FreeTask : TRUE) /\ woken' = woken \cup {getTask'}
  <2>1. getTask' \notin Tasks
    BY <1>3 DEF FreeTask, Tasks
  <2>2. 0 \notin Tasks
    BY TasksAre
  <2>3. Orphans' = Orphans
    BY <1>1, <1>3, <2>1, <2>2 DEF Orphans, Tasks
  <2>4. woken' \cap Range(getters') = {}
    BY <1>1, <1>3, <2>1 DEF Tasks, TasksInv
  <2> QED BY <1>1, <2>3, <2>4, SameOrphans DEF TasksInv
<1> QED BY <1>2, <1>3 DEF ReadPacket

\* A task runs: it waits, answers, or swallows a packet and is gone.
LEMMA GetKeepsTasks ==
    ASSUME TypeOK, TasksInv, NEW t \in GetTask, GetRuns(t)
    PROVE  TasksInv'
<1>1. /\ t \in woken /\ woken' = woken \ {t} /\ UNCHANGED <<getTask, cancels>>
      /\ getters \in Seq(GetTask) /\ t \notin Range(getters)
  BY DEF GetRuns, TypeOK, TasksInv
<1>2. CASE recvQueue = <<>>
  <2>1. getters' = Append(getters, t) /\ UNCHANGED <<answer, swallowed>>
    BY <1>2 DEF GetRuns
  <2>2. NoTwice(getters') /\ Range(getters') = Range(getters) \cup {t}
    BY <1>1, <2>1, AppendOnce DEF TasksInv
  <2>3. Tasks' = Tasks
    BY <1>1, <2>2 DEF Tasks
  <2>4. woken' \cap Range(getters') = {}
    BY <1>1, <2>2 DEF TasksInv
  <2>5. Orphans' = Orphans
    BY <1>1, <2>3 DEF Orphans
  <2> QED BY <1>1, <2>1, <2>2, <2>3, <2>4, <2>5, SameOrphans DEF TasksInv
<1>3. CASE recvQueue # <<>> /\ t = getTask
  <2>1. UNCHANGED <<getters, swallowed>>
    BY <1>3 DEF GetRuns
  <2>2. Tasks' = Tasks \ {t}
    BY <1>1, <2>1 DEF Tasks
  <2>3. Orphans' = Orphans /\ getTask' \notin Tasks'
    BY <1>1, <1>3, <2>2 DEF Orphans
  <2>4. woken' \cap Range(getters') = {}
    BY <1>1, <2>1 DEF TasksInv
  <2> QED BY <1>1, <2>1, <2>3, <2>4, SameOrphans DEF TasksInv
<1>4. CASE recvQueue # <<>> /\ t # getTask
  <2> DEFINE e == Head(recvQueue)
  <2>1. UNCHANGED <<getters, answer>> /\ swallowed' = swallowed \cup {e}
    BY <1>4 DEF GetRuns
  <2>2. Tasks' = Tasks \ {t} /\ t \in Tasks
    BY <1>1, <2>1 DEF Tasks
  <2>3. Orphans' = Orphans \ {t} /\ t \in Orphans
    BY <1>1, <1>4, <2>2 DEF Orphans
  <2> HIDE DEF e
  <2>4. IsFiniteSet(Orphans) /\ Cardinality(Orphans) \in Nat
    BY TasksAre
  <2>5. Cardinality(Orphans') = Cardinality(Orphans) - 1
    BY <2>3, <2>4, FS_RemoveElement
  <2>6. IsFiniteSet(swallowed) /\ Cardinality(swallowed) \in Nat
    BY FS_CardinalityType DEF TasksInv
  <2>7. /\ IsFiniteSet(swallowed') /\ Cardinality(swallowed') \in Nat
        /\ Cardinality(swallowed') <= Cardinality(swallowed) + 1
    <3>1. PICK more : more = swallowed \cup {e}
      OBVIOUS
    <3>2. /\ IsFiniteSet(more)
          /\ Cardinality(more) = IF e \in swallowed THEN Cardinality(swallowed)
                                 ELSE Cardinality(swallowed) + 1
      BY <2>6, <3>1, FS_AddElement, Zenon
    <3>3. Cardinality(more) \in Nat /\ Cardinality(more) <= Cardinality(swallowed) + 1
      BY <2>6, <3>2
    <3>4. QED
      BY <2>1, <3>1, <3>2, <3>3
  <2>8. Cardinality(swallowed) + Cardinality(Orphans) <= cancels /\ cancels \in Nat
    BY DEF TasksInv, TypeOK
  <2>9. Cardinality(swallowed') + Cardinality(Orphans') <= cancels'
    BY <1>1, <2>4, <2>5, <2>6, <2>7, <2>8
  <2>10. woken' \cap Range(getters') = {}
    BY <1>1, <2>1 DEF TasksInv
  <2>11. answer' # <<>> => getTask' \notin Tasks'
    BY <1>1, <2>1, <2>2 DEF TasksInv
  <2> QED BY <2>1, <2>7, <2>9, <2>10, <2>11 DEF TasksInv
<1> QED BY <1>2, <1>3, <1>4

\* A read ends with the answer of its task, or without: then its task leaves the line.
LEMMA EndKeepsTasks ==
    ASSUME TypeOK, TasksInv, ReadAnswered \/ ReadCut
    PROVE  TasksInv'
<1>1. answer' = <<>> /\ getTask' = 0 /\ getTask # 0 /\ UNCHANGED <<swallowed, cancels>>
  BY DEF ReadAnswered, ReadCut
<1>2. 0 \notin Tasks
  BY TasksAre
<1>3. CASE ReadAnswered
  <2>1. UNCHANGED <<woken, getters>> /\ answer # <<>>
    BY <1>3 DEF ReadAnswered, queueVars
  <2>2. Tasks' = Tasks /\ getTask \notin Tasks
    BY <2>1 DEF Tasks, TasksInv
  <2>3. Orphans' = Orphans
    BY <1>1, <1>2, <2>2 DEF Orphans
  <2> QED BY <1>1, <2>1, <2>3, SameOrphans DEF TasksInv
<1>4. CASE ReadCut
  <2> DEFINE others == Cancelled(getters, getTask)
  <2>1. getters \in Seq(GetTask)
    BY DEF TypeOK
  <2>2. /\ others \in Seq(GetTask) /\ NoTwice(others)
        /\ Range(others) = Range(getters) \ {getTask}
    BY <2>1, CancelledOnce, CancelledIsALine DEF TasksInv
  <2>3. \/ /\ others # <<>>
           /\ woken' = (woken \ {getTask}) \cup {Head(others)} /\ getters' = Tail(others)
        \/ woken' = woken \ {getTask} /\ getters' = others
    BY <1>4 DEF ReadCut
  <2> HIDE DEF others
  <2>4. others # <<>> => /\ NoTwice(Tail(others)) /\ Head(others) \notin Range(Tail(others))
                         /\ Range(others) = {Head(others)} \cup Range(Tail(others))
    BY <2>2, TailOnce
  <2>5. woken \cap Range(getters) = {}
    BY DEF TasksInv
  <2>6. NoTwice(getters')
    BY <2>2, <2>3, <2>4
  <2>7. Tasks' = Tasks \ {getTask}
    BY <2>2, <2>3, <2>4 DEF Tasks
  <2>8. woken' \cap Range(getters') = {}
    BY <2>2, <2>3, <2>4, <2>5
  <2>9. Orphans' = Orphans
    BY <1>1, <1>2, <2>7 DEF Orphans
  <2> QED BY <1>1, <2>6, <2>8, <2>9, SameOrphans
<1> QED BY <1>3, <1>4

\* A read is cancelled: its packet is lost, or its task is left behind.
LEMMA CancelKeepsTasks ==
    ASSUME TypeOK, InboundInv, TasksInv, CancelRead
    PROVE  TasksInv'
<1>1. /\ answer' = <<>> /\ getTask' = 0 /\ cancels' = cancels + 1 /\ cancels \in Nat
      /\ swallowed' = swallowed \cup Range(answer) /\ UNCHANGED <<woken, getters>>
      /\ answer \in Seq(Nat)
  BY DEF CancelRead, queueVars, TypeOK
<1>2. Tasks' = Tasks /\ 0 \notin Tasks /\ Orphans' = Tasks
  BY <1>1, TasksAre DEF Tasks, Orphans
<1>3. /\ IsFiniteSet(Orphans) /\ Cardinality(Orphans) \in Nat
      /\ IsFiniteSet(swallowed) /\ Cardinality(swallowed) \in Nat
      /\ Cardinality(swallowed) + Cardinality(Orphans) <= cancels
  BY TasksAre, FS_CardinalityType DEF TasksInv
<1>4. IsFiniteSet(swallowed') /\ Cardinality(swallowed') + Cardinality(Orphans') <= cancels'
  <2>1. CASE answer = <<>>
    <3>1. swallowed' = swallowed
      BY <1>1, <2>1, Nothing
    <3>2. Tasks = Orphans \/ Tasks = Orphans \cup {getTask}
      BY DEF Orphans
    <3>3. Cardinality(Tasks) \in Nat /\ Cardinality(Tasks) <= Cardinality(Orphans) + 1
      <4>1. CASE Tasks = Orphans
        BY <1>3, <4>1
      <4>2. CASE Tasks = Orphans \cup {getTask}
        BY <1>3, <4>2, OneElementMore
      <4> QED BY <3>2, <4>1, <4>2
    <3>4. Cardinality(swallowed) + Cardinality(Tasks) <= cancels + 1
      BY <1>1, <1>3, <3>3
    <3> QED BY <1>1, <1>2, <1>3, <3>1, <3>4
  <2>2. CASE answer # <<>>
    <3>1. PICK e \in Nat : answer = <<e>>
      BY <1>1, <2>2, OneElement DEF InboundInv, StagesInOrder
    <3>2. swallowed' = swallowed \cup {e}
      BY <1>1, <3>1, Singleton
    <3>3. /\ IsFiniteSet(swallowed') /\ Cardinality(swallowed') \in Nat
          /\ Cardinality(swallowed') <= Cardinality(swallowed) + 1
      BY <1>3, <3>2, OneElementMore
    <3>4. Orphans = Tasks
      BY <2>2 DEF TasksInv, Orphans
    <3> QED BY <1>1, <1>2, <1>3, <3>3, <3>4
  <2> QED BY <2>1, <2>2
<1> QED BY <1>1, <1>4 DEF TasksInv

LEMMA TasksStep == TypeOK /\ InboundInv /\ TasksInv /\ [Next]_vars => TasksInv'
<1> SUFFICES ASSUME TypeOK, InboundInv, TasksInv, [Next]_vars
             PROVE  TasksInv'
  OBVIOUS
<1>1. CASE UNCHANGED <<woken, getters, answer, getTask, swallowed, cancels>>
  BY <1>1, TasksRest
<1>2. CASE Arrive \/ PeerEnds \/ ReadNext \/ ReadResumes \/ PutSuspends \/ UNCHANGED vars
  BY <1>1, <1>2
  DEF Arrive, PeerEnds, ReadNext, ReadResumes, PutSuspends, vars, queueVars, readerVars
<1>3. CASE Writer
  BY <1>1, <1>3
  DEF Writer, WritePacket, WritePacketImmediate, AppFlush, FlushLoop, FlushWakes, FlushDrained,
      queueVars, readerVars
<1>4. CASE Close \/ CloseGoesOn
  BY <1>1, <1>4
  DEF Close, CloseGoesOn, CloseDrained, StopFlushing, StopReading, queueVars, readerVars
<1> QED BY <1>2, <1>3, <1>4, PutKeepsTasks, ReadKeepsTasks, GetKeepsTasks, EndKeepsTasks, CancelKeepsTasks
        DEF Next, ReadLoop, Reader

LEMMA TasksInit == Init => TasksInv
<1> SUFFICES ASSUME Init
             PROVE  TasksInv
  OBVIOUS
<1>1. woken = {} /\ getters = <<>> /\ answer = <<>> /\ swallowed = {} /\ cancels = 0
  BY DEF Init
<1>2. Range(getters) = {} /\ NoTwice(getters)
  BY <1>1, Nothing DEF NoTwice
<1>3. Orphans = {}
  BY <1>1, <1>2 DEF Orphans, Tasks
<1> QED BY <1>1, <1>2, <1>3, FS_EmptySet DEF TasksInv

-----------------------------------------------------------------------------
(* Where packets are.                                                      *)

InBatches(s) == UNION {Range(s[i]) : i \in DOMAIN s}

Taken == Range(got) \cup Range(answer) \cup Range(recvQueue)
Everywhere == Ahead \cup swallowed \cup InBatches(inbox)

\* A packet that has arrived is somewhere on its way, or close() has dropped it with the rest
\* of its batch, behind all that had been put in the queue.
FoundInv ==
    /\ swallowed \subseteq 1 .. arrived
    /\ \A x \in 1 .. arrived : \/ x \in Everywhere
                               \/ closePc = "closed" /\ \A y \in Taken : y < x

\* The read loop has a rest only while it puts it, and signals its end when there is no more
\* to come; an error is raised when nothing is left to return.
LoopInv ==
    /\ rest # <<>> => readPc \in {"running", "putting"}
    /\ closePc = "closed" => closed /\ readPc = "done"
    /\ closeEvent /\ ~closed => readPc = "done"
    /\ readPc = "done" /\ ~closed => ended /\ (transport # "RakNet" => inbox = <<>>)
    /\ told /\ ~closed => readPc = "done" /\ recvQueue = <<>> /\ answer = <<>>

\* The batches but for the first, and with one more.
LEMMA BatchTaken ==
    ASSUME NEW s \in Seq(Seq(Nat)), s # <<>>
    PROVE  InBatches(s) \subseteq Range(Head(s)) \cup InBatches(Tail(s))
<1>1. /\ Head(s) = s[1] /\ DOMAIN s = 1 .. Len(s) /\ Len(s) \in Nat
      /\ DOMAIN Tail(s) = 1 .. Len(s) - 1
      /\ \A i \in 1 .. Len(s) - 1 : Tail(s)[i] = s[i + 1]
  OBVIOUS
<1> SUFFICES ASSUME NEW i \in 1 .. Len(s), NEW x \in Range(s[i])
             PROVE  x \in Range(Head(s)) \cup InBatches(Tail(s))
  BY <1>1 DEF InBatches
<1>2. CASE i = 1
  BY <1>1, <1>2
<1>3. CASE i # 1
  <2>1. i - 1 \in DOMAIN Tail(s) /\ Tail(s)[i - 1] = s[i]
    BY <1>1, <1>3
  <2>2. x \in Range(Tail(s)[i - 1])
    BY <2>1
  <2> QED BY <2>1, <2>2 DEF InBatches
<1> QED BY <1>2, <1>3

LEMMA BatchAdded ==
    ASSUME NEW s \in Seq(Seq(Nat)), NEW b \in Seq(Nat)
    PROVE  InBatches(s) \subseteq InBatches(Append(s, b)) /\ Range(b) \subseteq InBatches(Append(s, b))
<1>1. /\ DOMAIN s = 1 .. Len(s) /\ Len(s) \in Nat /\ DOMAIN Append(s, b) = 1 .. Len(s) + 1
      /\ \A i \in 1 .. Len(s) : Append(s, b)[i] = s[i]
      /\ Append(s, b)[Len(s) + 1] = b
  OBVIOUS
<1>2. Len(s) + 1 \in 1 .. Len(s) + 1 /\ \A i \in 1 .. Len(s) : i \in 1 .. Len(s) + 1
  BY <1>1
<1> QED BY <1>1, <1>2 DEF InBatches

\* A step that only moves packets.
LEMMA StillFound ==
    ASSUME FoundInv, UNCHANGED arrived, Everywhere \subseteq Everywhere',
           swallowed' \subseteq 1 .. arrived,
           closePc = "closed" => closePc' = "closed" /\ Taken' \subseteq Taken
    PROVE  FoundInv'
BY DEF FoundInv

LEMMA FoundRests ==
    ASSUME FoundInv, UNCHANGED <<arrived, inbox, got, answer, recvQueue, rest, swallowed>>,
           closePc = "closed" => closePc' = "closed"
    PROVE  FoundInv'
<1>1. Everywhere' = Everywhere /\ Taken' = Taken
  BY DEF Everywhere, Taken, Ahead
<1> QED BY <1>1, StillFound DEF FoundInv

LEMMA ArriveKeepsFound ==
    ASSUME TypeOK, FoundInv, Arrive
    PROVE  FoundInv'
<1>1. PICK k \in BatchSizes :
        /\ inbox' = Append(inbox, [i \in 1 .. k |-> arrived + i])
        /\ arrived' = arrived + k
  BY DEF Arrive
<1>2. k \in Nat /\ arrived \in Nat /\ inbox \in Seq(Seq(Nat))
  BY BatchSizesAssumption DEF TypeOK
<1> DEFINE b == [i \in 1 .. k |-> arrived + i]
<1>3. b \in Seq(Nat)
  BY <1>2, ArrivingBatch
<1>4. \A x \in arrived + 1 .. arrived + k : x \in Range(b)
  <2> SUFFICES ASSUME NEW x \in arrived + 1 .. arrived + k
               PROVE  x \in Range(b)
    OBVIOUS
  <2>1. x - arrived \in 1 .. k /\ x = arrived + (x - arrived)
    BY <1>2
  <2>2. b[x - arrived] = x /\ DOMAIN b = 1 .. k
    BY <2>1
  <2> QED BY <2>1, <2>2 DEF Range
<1>5. inbox' = Append(inbox, b)
  BY <1>1
<1> HIDE DEF b
<1>6. InBatches(inbox) \subseteq InBatches(inbox') /\ Range(b) \subseteq InBatches(inbox')
  BY <1>2, <1>3, <1>5, BatchAdded
<1>7. UNCHANGED <<got, answer, recvQueue, rest, swallowed>> /\ closePc # "closed"
  BY DEF Arrive, queueVars, readVars, readerVars
<1>8. Everywhere \subseteq Everywhere' /\ Range(b) \subseteq Everywhere'
  BY <1>6, <1>7 DEF Everywhere, Ahead
<1>9. \A x \in 1 .. arrived' : x \in 1 .. arrived \/ x \in arrived + 1 .. arrived + k
  BY <1>1, <1>2
<1>10. \A x \in 1 .. arrived' : x \in Everywhere'
  BY <1>4, <1>7, <1>8, <1>9 DEF FoundInv
<1>11. swallowed' \subseteq 1 .. arrived'
  BY <1>1, <1>2, <1>7 DEF FoundInv
<1> QED BY <1>10, <1>11 DEF FoundInv

\* The read loop takes a batch when the one before it has been put.
LEMMA TakeKeepsFound ==
    ASSUME TypeOK, LoopInv, FoundInv, TakeBatch, readPc # "done", rest = <<>>,
           UNCHANGED <<arrived, got, answer, recvQueue, swallowed, closePc>>
    PROVE  FoundInv'
<1>1. inbox \in Seq(Seq(Nat)) /\ inbox # <<>> /\ rest' = Head(inbox) /\ inbox' = Tail(inbox)
  BY DEF TypeOK, TakeBatch
<1>2. InBatches(inbox) \subseteq Range(rest') \cup InBatches(inbox')
  BY <1>1, BatchTaken
<1>3. Range(rest) = {}
  BY Nothing
<1>4. Everywhere \subseteq Everywhere'
  BY <1>2, <1>3 DEF Everywhere, Ahead
<1>5. closePc # "closed"
  BY DEF LoopInv
<1> QED BY <1>4, <1>5, StillFound DEF FoundInv

LEMMA PutKeepsFound ==
    ASSUME TypeOK, LoopInv, FoundInv, PutPacket
    PROVE  FoundInv'
<1>1. /\ rest \in Seq(Nat) /\ rest # <<>> /\ recvQueue \in Seq(Nat) /\ readPc # "done"
      /\ recvQueue' = Append(recvQueue, Head(rest)) /\ rest' = Tail(rest)
      /\ UNCHANGED <<got, answer, inbox, arrived, swallowed, closePc>>
  BY DEF TypeOK, PutPacket, transportVars, readerVars, closeVars
<1>2. Head(rest) \in Nat /\ Range(rest) = {Head(rest)} \cup Range(rest')
  BY <1>1, HeadFirst
<1>3. Range(recvQueue') = Range(recvQueue) \cup {Head(rest)}
  BY <1>1, <1>2, AppendLast
<1>4. Everywhere \subseteq Everywhere'
  BY <1>1, <1>2, <1>3 DEF Everywhere, Ahead
<1>5. closePc # "closed"
  BY <1>1 DEF LoopInv
<1> QED BY <1>1, <1>4, <1>5, StillFound DEF FoundInv

LEMMA ReturnKeepsFound ==
    ASSUME TypeOK, FoundInv, ReturnQueued \/ Raise,
           UNCHANGED <<answer, rest, inbox, arrived, swallowed, closePc>>
    PROVE  FoundInv'
<1>1. CASE Raise
  BY <1>1, FoundRests DEF Raise
<1>2. CASE ReturnQueued
  <2>1. /\ recvQueue \in Seq(Nat) /\ recvQueue # <<>> /\ got \in Seq(Nat)
        /\ got' = Append(got, Head(recvQueue)) /\ recvQueue' = Tail(recvQueue)
    BY <1>2 DEF TypeOK, ReturnQueued
  <2>2. Head(recvQueue) \in Nat /\ Range(recvQueue) = {Head(recvQueue)} \cup Range(recvQueue')
    BY <2>1, HeadFirst
  <2>3. Range(got') = Range(got) \cup {Head(recvQueue)}
    BY <2>1, <2>2, AppendLast
  <2>4. Everywhere \subseteq Everywhere' /\ Taken' \subseteq Taken
    BY <2>2, <2>3 DEF Everywhere, Ahead, Taken
  <2> QED BY <2>4, StillFound DEF FoundInv
<1> QED BY <1>1, <1>2

LEMMA GetKeepsFound ==
    ASSUME TypeOK, InboundInv, TasksInv, FoundInv, NEW t \in GetTask, GetRuns(t)
    PROVE  FoundInv'
<1>1. t \in woken /\ recvQueue \in Seq(Nat) /\ UNCHANGED <<got, rest, inbox, arrived, closePc>>
  BY DEF GetRuns, TypeOK, transportVars, readVars, closeVars
<1>2. CASE recvQueue = <<>>
  BY <1>1, <1>2, FoundRests DEF GetRuns
<1>3. CASE recvQueue # <<>>
  <2>1. Head(recvQueue) \in Nat /\ Range(recvQueue) = {Head(recvQueue)} \cup Range(Tail(recvQueue))
    BY <1>1, <1>3, HeadFirst
  <2>2. recvQueue' = Tail(recvQueue)
    BY <1>3 DEF GetRuns
  <2>3. Range(<<Head(recvQueue)>>) = {Head(recvQueue)}
    BY <2>1, Singleton
  <2>4. CASE t = getTask
    <3>1. answer = <<>>
      BY <1>1, <2>4 DEF TasksInv, Tasks
    <3>2. Range(answer) = {} /\ Range(answer') = {Head(recvQueue)} /\ swallowed' = swallowed
      BY <1>3, <2>3, <2>4, <3>1, Nothing DEF GetRuns
    <3>3. Everywhere \subseteq Everywhere' /\ Taken' \subseteq Taken
      BY <1>1, <2>1, <2>2, <3>2 DEF Everywhere, Ahead, Taken
    <3> QED BY <1>1, <3>2, <3>3, StillFound DEF FoundInv
  <2>5. CASE t # getTask
    <3>1. answer' = answer /\ swallowed' = swallowed \cup {Head(recvQueue)}
      BY <1>3, <2>5 DEF GetRuns
    <3>2. Everywhere \subseteq Everywhere' /\ Taken' \subseteq Taken
      BY <1>1, <2>1, <2>2, <3>1 DEF Everywhere, Ahead, Taken
    <3>3. Head(recvQueue) \in 1 .. arrived
      BY <2>1 DEF InboundInv, Ahead
    <3> QED BY <1>1, <3>1, <3>2, <3>3, StillFound DEF FoundInv
  <2> QED BY <2>4, <2>5
<1> QED BY <1>2, <1>3

\* The answer is returned, or lost with its read; close() drops the rest of the batch.
LEMMA DropKeepsFound ==
    ASSUME TypeOK, InboundInv, CloseInv, LoopInv, FoundInv, ReadAnswered \/ CancelRead \/ StopReading
    PROVE  FoundInv'
<1>1. Range(<<>>) = {} /\ answer \in Seq(Nat) /\ got \in Seq(Nat)
  BY Nothing DEF TypeOK
<1>2. Range(answer) \subseteq 1 .. arrived
  BY DEF InboundInv, Ahead
<1>3. CASE ReadAnswered
  <2>1. /\ got' = got \o answer /\ answer' = <<>>
        /\ UNCHANGED <<recvQueue, rest, inbox, arrived, swallowed, closePc>>
    BY <1>3 DEF ReadAnswered, transportVars, queueVars, readVars, closeVars
  <2>2. Range(got') = Range(got) \cup Range(answer)
    BY <1>1, <2>1, JoinRange
  <2>3. Everywhere \subseteq Everywhere' /\ Taken' \subseteq Taken
    BY <1>1, <2>1, <2>2 DEF Everywhere, Ahead, Taken
  <2> QED BY <2>1, <2>3, StillFound DEF FoundInv
<1>4. CASE CancelRead
  <2>1. /\ swallowed' = swallowed \cup Range(answer) /\ answer' = <<>>
        /\ UNCHANGED <<got, recvQueue, rest, inbox, arrived, closePc>>
    BY <1>4 DEF CancelRead, transportVars, queueVars, readVars, closeVars
  <2>2. Everywhere \subseteq Everywhere' /\ Taken' \subseteq Taken
    BY <1>1, <2>1 DEF Everywhere, Ahead, Taken
  <2> QED BY <1>2, <2>1, <2>2, StillFound DEF FoundInv
<1>5. CASE StopReading
  <2>1. /\ closePc = "stopRead" /\ closePc' = "closed" /\ rest' = <<>>
        /\ UNCHANGED <<got, answer, recvQueue, inbox, arrived, swallowed>>
    BY <1>5 DEF StopReading, transportVars, queueVars, readerVars
  <2>2. Everywhere \subseteq Everywhere' \cup Range(rest) /\ Taken' = Taken
    BY <2>1 DEF Everywhere, Ahead, Taken
  <2>3. \A x \in Range(rest), y \in Taken : y < x
    BY DEF InboundInv, StagesInOrder, Precede, Taken
  <2> QED BY <2>1, <2>2, <2>3 DEF FoundInv
<1> QED BY <1>3, <1>4, <1>5

LEMMA FoundStep ==
    TypeOK /\ InboundInv /\ CloseInv /\ TasksInv /\ LoopInv /\ FoundInv /\ [Next]_vars => FoundInv'
<1> SUFFICES ASSUME TypeOK, InboundInv, CloseInv, TasksInv, LoopInv, FoundInv, [Next]_vars
             PROVE  FoundInv'
  OBVIOUS
<1>1. CASE /\ UNCHANGED <<arrived, inbox, got, answer, recvQueue, rest, swallowed>>
           /\ closePc = "closed" => closePc' = "closed"
  BY <1>1, FoundRests
<1>2. CASE ReadNext \/ ReadResumes
  <2>1. /\ UNCHANGED <<got, answer, recvQueue, swallowed, arrived, closePc>>
        /\ readPc # "done" /\ rest = <<>>
        /\ TakeBatch \/ LoopEnds \/ Suspend
    BY <1>2 DEF ReadNext, ReadResumes, queueVars, readerVars, LoopInv
  <2>2. CASE LoopEnds \/ Suspend
    BY <1>1, <2>1, <2>2 DEF LoopEnds, Suspend
  <2> QED BY <2>1, <2>2, TakeKeepsFound
<1>3. CASE ReadPacket
  <2>1. /\ UNCHANGED <<answer, rest, inbox, arrived, swallowed, closePc>>
        /\ ReturnQueued \/ Raise \/ UNCHANGED <<recvQueue, got>>
    BY <1>3 DEF ReadPacket, transportVars, readVars, closeVars
  <2>2. CASE UNCHANGED <<recvQueue, got>>
    BY <1>1, <2>1, <2>2
  <2> QED BY <2>1, <2>2, ReturnKeepsFound
<1>4. CASE ReadCut
  <2>1. (ReturnQueued \/ Raise) /\ UNCHANGED <<answer, rest, inbox, arrived, swallowed, closePc>>
    BY <1>4 DEF ReadCut, transportVars, readVars, closeVars
  <2> QED BY <2>1, ReturnKeepsFound
<1>5. CASE PeerEnds \/ PutSuspends \/ Writer \/ UNCHANGED vars
  BY <1>1, <1>5
  DEF PeerEnds, PutSuspends, Writer, WritePacket, WritePacketImmediate, AppFlush, FlushLoop, FlushWakes,
      FlushDrained, vars, transportVars, queueVars, readVars, readerVars, closeVars
<1>6. CASE Close \/ CloseDrained \/ StopFlushing
  BY <1>1, <1>6
  DEF Close, CloseDrained, StopFlushing, transportVars, queueVars, readVars, readerVars, CloseInv
<1> QED BY <1>2, <1>3, <1>4, <1>5, <1>6, ArriveKeepsFound, PutKeepsFound, GetKeepsFound, DropKeepsFound
        DEF Next, ReadLoop, Reader, CloseGoesOn

LEMMA LoopRests ==
    ASSUME LoopInv, UNCHANGED <<rest, readPc, closePc, closed, closeEvent, inbox, transport,
                                told, recvQueue, answer>>,
           ended => ended'
    PROVE  LoopInv'
BY DEF LoopInv

\* The read loop: an error has not been raised while it runs.
LEMMA LoopKeepsLoop ==
    ASSUME TypeOK, CloseInv, LoopInv, ReadLoop
    PROVE  LoopInv'
<1>1. readPc # "done" /\ closePc # "closed"
  BY DEF LoopInv, ReadLoop, ReadNext, ReadResumes, PutPacket, PutSuspends
<1>2. ~closed => ~closeEvent /\ ~told
  BY <1>1 DEF LoopInv
<1>3. UNCHANGED <<closed, closePc, ended, transport, told>>
  BY DEF ReadLoop, ReadNext, ReadResumes, PutPacket, PutSuspends, transportVars, readerVars, closeVars
<1>4. CASE ReadNext \/ ReadResumes
  <2>1. rest = <<>> /\ (TakeBatch \/ Suspend \/ (LoopEnds /\ (closed \/ EndIsNext)))
    BY <1>4 DEF ReadNext, ReadResumes, LoopInv, EndWakes, EndIsNext
  <2>2. CASE TakeBatch \/ Suspend
    <3>1. readPc' \in {"running", "waiting"} /\ closeEvent' = closeEvent
          /\ (rest' # <<>> => readPc' = "running")
      BY <2>1, <2>2 DEF TakeBatch, Suspend
    <3> QED BY <1>1, <1>2, <1>3, <3>1 DEF LoopInv
  <2>3. CASE LoopEnds /\ (closed \/ EndIsNext)
    <3>1. readPc' = "done" /\ rest' = <<>> /\ inbox' = inbox
      BY <2>1, <2>3 DEF LoopEnds
    <3>2. ~closed => ended /\ (transport # "RakNet" => inbox = <<>>)
      BY <2>3 DEF EndIsNext
    <3> QED BY <1>1, <1>2, <1>3, <3>1, <3>2 DEF LoopInv
  <2> QED BY <2>1, <2>2, <2>3
<1>5. CASE PutPacket \/ PutSuspends
  <2>1. readPc' \in {"running", "putting"} /\ closeEvent' = closeEvent
    BY <1>5 DEF PutPacket, PutSuspends, closeVars
  <2> QED BY <1>1, <1>2, <1>3, <2>1 DEF LoopInv
<1> QED BY <1>4, <1>5 DEF ReadLoop

\* The reader: an error is raised when the queue is empty and the loop has ended.
LEMMA ReaderKeepsLoop ==
    ASSUME TypeOK, InboundInv, LoopInv, Reader
    PROVE  LoopInv'
<1>1. UNCHANGED <<rest, readPc, closePc, closed, closeEvent, inbox, transport, ended>>
  BY DEF Reader, ReadPacket, GetRuns, ReadAnswered, ReadCut, CancelRead, transportVars, readVars, closeVars
<1>2. ASSUME ~closed, told'
      PROVE  readPc = "done" /\ recvQueue' = <<>> /\ answer' = <<>>
  <2>1. CASE told
    <3>1. readPc = "done" /\ recvQueue = <<>> /\ answer = <<>>
      BY <1>2, <2>1 DEF LoopInv
    <3>2. recvQueue' = recvQueue /\ (answer' = answer \/ answer' = <<>>)
      BY <3>1
      DEF Reader, ReadPacket, GetRuns, ReadAnswered, ReadCut, CancelRead, ReturnQueued, Raise, queueVars
    <3> QED BY <3>1, <3>2
  <2>2. CASE ~told
    <3>1. /\ closeEvent /\ recvQueue' = <<>> /\ answer' = answer
          /\ getTask = 0 \/ answer = <<>>
      BY <1>2, <2>2
      DEF Reader, ReadPacket, GetRuns, ReadAnswered, ReadCut, CancelRead, ReturnQueued, Raise
    <3>2. answer = <<>>
      BY <3>1 DEF InboundInv, StagesInOrder
    <3> QED BY <1>2, <3>1, <3>2 DEF LoopInv
  <2> QED BY <2>1, <2>2
<1> QED BY <1>1, <1>2 DEF LoopInv

LEMMA LoopStep ==
    TypeOK /\ InboundInv /\ CloseInv /\ LoopInv /\ [Next]_vars => LoopInv'
<1> SUFFICES ASSUME TypeOK, InboundInv, CloseInv, LoopInv, [Next]_vars
             PROVE  LoopInv'
  OBVIOUS
<1>1. CASE Arrive
  <2>1. ~ended /\ closePc # "closed"
    BY <1>1 DEF Arrive
  <2>2. readPc = "done" => closed
    BY <2>1 DEF LoopInv
  <2>3. UNCHANGED <<rest, readPc, closePc, closed, closeEvent, transport, told, recvQueue, answer, ended>>
    BY <1>1 DEF Arrive, queueVars, readVars, readerVars, closeVars
  <2> QED BY <2>1, <2>2, <2>3 DEF LoopInv
<1>2. CASE PeerEnds \/ Writer \/ UNCHANGED vars
  BY <1>2, LoopRests
  DEF PeerEnds, Writer, WritePacket, WritePacketImmediate, AppFlush, FlushLoop, FlushWakes,
      FlushDrained, vars, transportVars, queueVars, readVars, readerVars, closeVars
<1>3. CASE Close
  <2>1. /\ closed' /\ closePc' # "closed"
        /\ UNCHANGED <<rest, readPc>>
    BY <1>3 DEF Close, readVars
  <2> QED BY <2>1 DEF LoopInv
<1>4. CASE CloseGoesOn
  <2>1. closed /\ closed'
    BY <1>4 DEF CloseGoesOn, CloseDrained, StopFlushing, StopReading, CloseInv
  <2>2. CASE StopReading
    BY <2>1, <2>2 DEF StopReading, LoopInv
  <2>3. CASE CloseDrained \/ StopFlushing
    <3>1. closePc' # "closed" /\ UNCHANGED <<rest, readPc>>
      BY <2>3 DEF CloseDrained, StopFlushing, readVars
    <3> QED BY <2>1, <3>1 DEF LoopInv
  <2> QED BY <1>4, <2>2, <2>3 DEF CloseGoesOn
<1> QED BY <1>1, <1>2, <1>3, <1>4, LoopKeepsLoop, ReaderKeepsLoop DEF Next

EndsInv == TypeOK /\ OutboundInv /\ InboundInv /\ CloseInv /\ TasksInv /\ LoopInv /\ FoundInv

LEMMA EndsStart == Init => EndsInv
<1> SUFFICES ASSUME Init
             PROVE  EndsInv
  OBVIOUS
<1>1. LoopInv
  BY DEF Init, LoopInv
<1>2. FoundInv
  BY DEF Init, FoundInv
<1> QED BY <1>1, <1>2, InitTypes, OutboundInit, InboundInit, CloseInvInit, TasksInit DEF EndsInv

LEMMA EndsGoOn == EndsInv /\ [Next]_vars => EndsInv'
BY StepTypes, OutboundStep, InboundStep, CloseInvStep, TasksStep, LoopStep, FoundStep DEF EndsInv

LEMMA EndsAlways == Spec => []EndsInv
BY EndsStart, EndsGoOn, PTL DEF Spec

\* What is before a returned packet has been returned or swallowed.
LEMMA SkipsForCancels == EndsInv => OnlyCancelsSkip
<1> SUFFICES ASSUME EndsInv
             PROVE  OnlyCancelsSkip
  OBVIOUS
<1>1. /\ StagesInOrder /\ Ahead \subseteq 1 .. arrived /\ BatchesInOrder
      /\ got \in Seq(Nat) /\ arrived \in Nat
  BY DEF EndsInv, InboundInv, TypeOK
<1>2. ASSUME NEW i \in DOMAIN got, NEW x \in 1 .. got[i], x \notin Range(got) \cup swallowed
      PROVE  FALSE
  <2>1. got[i] \in Range(got) /\ got[i] \in Nat /\ got[i] \in Ahead /\ got[i] \in Taken
    BY <1>1 DEF Range, Ahead, Taken
  <2>2. x \in 1 .. arrived /\ ~(got[i] < x)
    BY <1>1, <2>1
  <2>3. x \in Everywhere
    BY <2>1, <2>2 DEF EndsInv, FoundInv
  <2>4. x \notin Range(answer) \cup Range(recvQueue) \cup Range(rest)
    BY <1>1, <2>1, <2>2 DEF StagesInOrder, Precede
  <2>5. x \notin InBatches(inbox)
    BY <1>1, <2>1, <2>2 DEF InBatches, BatchesInOrder, Precede
  <2> QED BY <1>2, <2>3, <2>4, <2>5 DEF Everywhere, Ahead
<1>3. \A i \in DOMAIN got : 1 .. got[i] \subseteq Range(got) \cup swallowed
  BY <1>2
<1>4. Cardinality(swallowed) <= cancels
  <2>1. Cardinality(swallowed) + Cardinality(Orphans) <= cancels /\ IsFiniteSet(swallowed)
    BY DEF EndsInv, TasksInv
  <2>2. Cardinality(Orphans) \in Nat /\ Cardinality(swallowed) \in Nat /\ cancels \in Nat
    BY <2>1, TasksAre, FS_CardinalityType DEF EndsInv, TypeOK
  <2> QED BY <2>1, <2>2
<1> QED BY <1>3, <1>4 DEF OnlyCancelsSkip

\* A packet is passed over only when the task of a cancelled read has taken it, one each at
\* most: for any capacity of the queue, any number of reads, and any transport.
THEOREM OnlyCancelsLose == Spec => []OnlyCancelsSkip
BY SkipsForCancels, EndsAlways, PTL

\* When the loop has ended and its queue is empty nothing is on its way.
LEMMA NothingLeft == EndsInv => ErrorComesLast
<1> SUFFICES ASSUME EndsInv, told, ~closed, transport # "RakNet"
             PROVE  Range(got) \cup swallowed = 1 .. arrived
  BY DEF ErrorComesLast
<1>1. readPc = "done" /\ recvQueue = <<>> /\ answer = <<>> /\ inbox = <<>> /\ rest = <<>>
      /\ closePc # "closed"
  BY DEF EndsInv, LoopInv
<1>2. Range(recvQueue) = {} /\ Range(answer) = {} /\ Range(rest) = {} /\ InBatches(inbox) = {}
  BY <1>1, Nothing DEF InBatches
<1>3. Everywhere = Range(got) \cup swallowed
  BY <1>2 DEF Everywhere, Ahead
<1>4. 1 .. arrived \subseteq Range(got) \cup swallowed
  BY <1>1, <1>3 DEF EndsInv, FoundInv
<1>5. Range(got) \cup swallowed \subseteq 1 .. arrived
  BY DEF EndsInv, FoundInv, InboundInv, Ahead
<1> QED BY <1>4, <1>5

\* When read_packet raises although the application has not closed, every packet that arrived
\* has been taken from the queue before, unless the transport is RakNet.
THEOREM ErrorIsLast == Spec => []ErrorComesLast
BY NothingLeft, EndsAlways, PTL

-----------------------------------------------------------------------------
(* A read that waits.                                                      *)

\* The task of a read without an answer waits or is about to run; while tasks wait, each
\* packet in the queue has one that is about to run; and the end is signalled.
WakeInv ==
    /\ getTask # 0 /\ answer = <<>> => getTask \in Tasks
    /\ getters # <<>> => Len(recvQueue) <= Cardinality(woken)
    /\ readPc = "done" \/ closed => closeEvent

\* The tasks that are about to run, and one more or one less.
LEMMA WokenAre ==
    ASSUME TypeOK
    PROVE  /\ IsFiniteSet(woken) /\ Cardinality(woken) \in Nat
           /\ Len(recvQueue) \in Nat /\ recvQueue \in Seq(Nat)
           /\ \A x : x \notin woken => Cardinality(woken \cup {x}) = Cardinality(woken) + 1
           /\ \A x \in woken : Cardinality(woken \ {x}) = Cardinality(woken) - 1
<1>1. woken \subseteq GetTask /\ recvQueue \in Seq(Nat)
  BY DEF TypeOK
<1>2. IsFiniteSet(GetTask)
  BY FS_Interval, BoundsAssumption DEF GetTask
<1>3. IsFiniteSet(woken)
  BY <1>1, <1>2, FS_Subset
<1>4. Cardinality(woken) \in Nat
  BY <1>3, FS_CardinalityType
<1>5. ASSUME NEW x, x \notin woken
      PROVE  Cardinality(woken \cup {x}) = Cardinality(woken) + 1
  BY <1>3, <1>5, FS_AddElement, ZenonT(60)
<1>6. ASSUME NEW x \in woken
      PROVE  Cardinality(woken \ {x}) = Cardinality(woken) - 1
  BY <1>3, FS_RemoveElement, ZenonT(60)
<1>7. QED
  BY <1>1, <1>3, <1>4, <1>5, <1>6

LEMMA WakeRests ==
    ASSUME WakeInv,
           UNCHANGED <<getTask, answer, woken, getters, recvQueue, readPc, closed, closeEvent>>
    PROVE  WakeInv'
BY DEF WakeInv, Tasks

\* A packet in the queue wakes a task, if one waits.
LEMMA PutKeepsWake ==
    ASSUME TypeOK, TasksInv, WakeInv, PutPacket
    PROVE  WakeInv'
<1>1. /\ UNCHANGED <<getTask, answer, closed, closeEvent>> /\ readPc' = "running"
      /\ recvQueue' = Append(recvQueue, Head(rest)) /\ WakeNext
      /\ getters \in Seq(GetTask) /\ rest \in Seq(Nat) /\ rest # <<>>
  BY DEF PutPacket, readerVars, closeVars, TypeOK
<1>2. Len(recvQueue') = Len(recvQueue) + 1
  BY <1>1, HeadFirst, AppendLast, WokenAre
<1>3. CASE getters = <<>>
  BY <1>1, <1>3 DEF WakeNext, WakeInv, Tasks
<1>4. CASE getters # <<>>
  <2>1. getters' = Tail(getters) /\ woken' = woken \cup {Head(getters)}
    BY <1>1, <1>4 DEF WakeNext
  <2>2. /\ Range(getters) = {Head(getters)} \cup Range(Tail(getters))
        /\ Head(getters) \notin woken
    BY <1>1, <1>4, TailOnce DEF TasksInv
  <2>3. Tasks' = Tasks
    BY <2>1, <2>2 DEF Tasks
  <2>4. Cardinality(woken') = Cardinality(woken) + 1
    BY <2>1, <2>2, WokenAre
  <2>5. Len(recvQueue') <= Cardinality(woken')
    BY <1>2, <1>4, <2>4, WokenAre DEF WakeInv
  <2>6. QED
    BY <1>1, <2>3, <2>5 DEF WakeInv
<1>5. QED
  BY <1>3, <1>4

\* The read loop signals its end.
LEMMA LoopKeepsWake ==
    ASSUME WakeInv, ReadNext \/ ReadResumes \/ PutSuspends
    PROVE  WakeInv'
<1>1. UNCHANGED <<getTask, answer, woken, getters, recvQueue, closed>>
  BY DEF ReadNext, ReadResumes, PutSuspends, queueVars, readerVars, closeVars
<1>2. \/ readPc' = "done" /\ closeEvent'
      \/ readPc' # "done" /\ closeEvent' = closeEvent
  BY DEF ReadNext, ReadResumes, PutSuspends, TakeBatch, Suspend, LoopEnds, closeVars
<1>3. QED
  BY <1>1, <1>2 DEF WakeInv, Tasks

\* A read takes a queued packet, raises, or starts a task, which is about to run.
LEMMA ReadKeepsWake ==
    ASSUME TypeOK, InboundInv, WakeInv, ReadPacket
    PROVE  WakeInv'
<1>1. getTask = 0 /\ UNCHANGED <<getters, answer, readPc, closed, closeEvent>>
  BY DEF ReadPacket, readVars, closeVars
<1>2. CASE UNCHANGED <<getTask, woken>> /\ (ReturnQueued \/ Raise)
  <2>1. Len(recvQueue') <= Len(recvQueue)
    BY <1>2, HeadFirst, WokenAre DEF ReturnQueued, Raise
  <2>2. Len(recvQueue') \in Nat
    BY <1>2, HeadFirst, WokenAre DEF ReturnQueued, Raise
  <2>3. getters # <<>> => Len(recvQueue') <= Cardinality(woken)
    BY <2>1, <2>2, WokenAre DEF WakeInv
  <2>4. QED
    BY <1>1, <1>2, <2>3 DEF WakeInv
<1>3. CASE recvQueue = <<>> /\ recvQueue' = recvQueue /\ woken' = woken \cup {getTask'}
           /\ getTask' \in FreeTask
  <2>1. getTask' \in Tasks'
    BY <1>3 DEF Tasks
  <2>2. getTask' \notin woken
    BY <1>3 DEF FreeTask
  <2>3. Cardinality(woken') \in Nat /\ Len(recvQueue') = 0
    BY <1>3, <2>2, WokenAre
  <2>4. QED
    BY <1>1, <2>1, <2>3 DEF WakeInv
<1>4. QED
  BY <1>2, <1>3 DEF ReadPacket

\* A task runs: it finds the queue empty and waits, or takes a packet.
LEMMA GetKeepsWake ==
    ASSUME TypeOK, WakeInv, NEW t \in GetTask, GetRuns(t)
    PROVE  WakeInv'
<1>1. /\ t \in woken /\ woken' = woken \ {t}
      /\ UNCHANGED <<getTask, readPc, closed, closeEvent>> /\ getters \in Seq(GetTask)
  BY DEF GetRuns, readVars, closeVars, TypeOK
<1>2. Cardinality(woken') = Cardinality(woken) - 1 /\ Cardinality(woken') \in Nat
  <2>1. IsFiniteSet(woken')
    BY <1>1, WokenAre, FS_Subset
  <2>2. QED
    BY <1>1, <2>1, WokenAre, FS_CardinalityType
<1>3. CASE recvQueue = <<>>
  <2>1. getters' = Append(getters, t) /\ UNCHANGED <<answer, recvQueue>>
    BY <1>3 DEF GetRuns
  <2>2. Range(getters') = Range(getters) \cup {t}
    <3>1. /\ DOMAIN getters' = 1 .. Len(getters) + 1 /\ Len(getters) \in Nat
          /\ DOMAIN getters = 1 .. Len(getters)
          /\ \A i \in 1 .. Len(getters) : getters'[i] = getters[i]
          /\ getters'[Len(getters) + 1] = t
      BY <1>1, <2>1
    <3>2. \A i \in 1 .. Len(getters) + 1 : i \in 1 .. Len(getters) \/ i = Len(getters) + 1
      BY <3>1
    <3>3. \A i \in 1 .. Len(getters) : i \in 1 .. Len(getters) + 1
      BY <3>1
    <3>4. Len(getters) + 1 \in 1 .. Len(getters) + 1
      BY <3>1
    <3>5. QED
      BY <3>1, <3>2, <3>3, <3>4 DEF Range
  <2>3. Tasks' = Tasks
    BY <1>1, <2>2 DEF Tasks
  <2>4. Len(recvQueue') = 0
    BY <1>3, <2>1
  <2>5. QED
    BY <1>1, <1>2, <2>1, <2>3, <2>4 DEF WakeInv
<1>4. CASE recvQueue # <<>>
  <2>1. /\ getters' = getters /\ recvQueue' = Tail(recvQueue)
        /\ answer' = IF t = getTask THEN <<Head(recvQueue)>> ELSE answer
    BY <1>4 DEF GetRuns
  <2>2. Len(recvQueue') = Len(recvQueue) - 1
    BY <1>4, <2>1, HeadFirst, WokenAre
  <2>3. getters' # <<>> => Len(recvQueue') <= Cardinality(woken')
    BY <1>2, <2>1, <2>2, WokenAre DEF WakeInv
  <2>4. getTask # 0 /\ answer' = <<>> => getTask \in Tasks'
    <3>1. CASE t = getTask
      BY <2>1, <3>1
    <3>2. CASE t # getTask
      BY <1>1, <2>1, <3>2 DEF WakeInv, Tasks
    <3>3. QED
      BY <3>1, <3>2
  <2>5. QED
    BY <1>1, <2>3, <2>4 DEF WakeInv
<1>5. QED
  BY <1>3, <1>4

\* The close event cuts a read short: its task is about to run no more, one packet is taken,
\* and the wake-up of the task is passed on.
LEMMA CutKeepsWake ==
    ASSUME TypeOK, TasksInv, WakeInv, ReadCut
    PROVE  WakeInv'
<1> DEFINE others == Cancelled(getters, getTask)
<1>1. /\ getTask' = 0 /\ UNCHANGED <<readPc, closed, closeEvent>> /\ (ReturnQueued \/ Raise)
      /\ getters \in Seq(GetTask)
  BY DEF ReadCut, readVars, closeVars, TypeOK
<1>2. \/ /\ getTask \in woken /\ Len(recvQueue) > 1 /\ others # <<>>
         /\ woken' = (woken \ {getTask}) \cup {Head(others)} /\ getters' = Tail(others)
      \/ /\ ~(getTask \in woken /\ Len(recvQueue) > 1 /\ others # <<>>)
         /\ woken' = woken \ {getTask} /\ getters' = others
  BY DEF ReadCut
<1>3. /\ others \in Seq(GetTask) /\ NoTwice(others)
      /\ Range(others) = Range(getters) \ {getTask}
  BY <1>1, CancelledOnce, CancelledIsALine DEF TasksInv
<1>4. getters = <<>> => others = <<>>
  <2>1. SUFFICES ASSUME getters = <<>> PROVE others = <<>>
    OBVIOUS
  <2>2. Range(getters) = {}
    BY <2>1, Nothing
  <2>3. others = getters
    BY <2>2 DEF Cancelled
  <2>4. QED
    BY <2>1, <2>3
<1> HIDE DEF others
<1>5. \/ recvQueue = <<>> /\ recvQueue' = <<>>
      \/ Len(recvQueue) >= 1 /\ Len(recvQueue') = Len(recvQueue) - 1
  BY <1>1, HeadFirst, WokenAre DEF ReturnQueued, Raise
<1>6. CASE /\ getTask \in woken /\ Len(recvQueue) > 1 /\ others # <<>>
           /\ woken' = (woken \ {getTask}) \cup {Head(others)} /\ getters' = Tail(others)
  <2>1. Head(others) \in Range(getters)
    BY <1>3, <1>6, TailOnce
  <2>2. Head(others) \notin woken
    BY <2>1 DEF TasksInv
  <2>3. woken' = (woken \cup {Head(others)}) \ {getTask}
    BY <1>6, <2>2
  <2>4. Cardinality(woken') = Cardinality(woken)
    <3>1. PICK more : more = woken \cup {Head(others)}
      OBVIOUS
    <3>2. IsFiniteSet(more) /\ Cardinality(more) = Cardinality(woken) + 1
      <4>1. Cardinality(more) = Cardinality(woken) + 1
        BY <2>2, <3>1, WokenAre
      <4>2. IsFiniteSet(woken)
        BY WokenAre
      <4>3. IsFiniteSet(more)
        BY <3>1, <4>2, FS_AddElement, ZenonT(60)
      <4>4. QED
        BY <4>1, <4>3
    <3>3. getTask \in more
      BY <1>6, <3>1
    <3>4. Cardinality(more \ {getTask}) = Cardinality(more) - 1
      BY <3>2, <3>3, FS_RemoveElement, ZenonT(60)
    <3>5. QED
      BY <2>3, <3>1, <3>2, <3>4, WokenAre
  <2>5. Len(recvQueue) <= Cardinality(woken)
    BY <1>4, <1>6 DEF WakeInv
  <2>6. Len(recvQueue') <= Cardinality(woken')
    BY <1>5, <1>6, <2>4, <2>5, WokenAre
  <2>7. QED
    BY <1>1, <2>6 DEF WakeInv
<1>7. CASE /\ ~(getTask \in woken /\ Len(recvQueue) > 1 /\ others # <<>>)
           /\ woken' = woken \ {getTask} /\ getters' = others
  <2>1. IsFiniteSet(woken') /\ Cardinality(woken') \in Nat
    <3>1. IsFiniteSet(woken')
      BY <1>7, WokenAre, FS_Subset
    <3>2. QED
      BY <3>1, FS_CardinalityType
  <2>2. ASSUME getters' # <<>>
        PROVE  Len(recvQueue') <= Cardinality(woken')
    <3>1. Len(recvQueue) <= Cardinality(woken)
      BY <1>4, <1>7, <2>2 DEF WakeInv
    <3>2. CASE getTask \in woken
      <4>1. Len(recvQueue) <= 1
        BY <1>7, <2>2, <3>2, WokenAre
      <4>2. Len(recvQueue') = 0
        BY <1>5, <4>1, WokenAre
      <4>3. QED
        BY <2>1, <4>2
    <3>3. CASE getTask \notin woken
      <4>1. woken' = woken
        BY <1>7, <3>3
      <4>2. QED
        BY <1>5, <3>1, <4>1, WokenAre
    <3>4. QED
      BY <3>2, <3>3
  <2>3. QED
    BY <1>1, <2>2 DEF WakeInv
<1>8. QED
  BY <1>2, <1>6, <1>7

LEMMA WakeStep == TypeOK /\ InboundInv /\ CloseInv /\ TasksInv /\ WakeInv /\ [Next]_vars => WakeInv'
<1> SUFFICES ASSUME TypeOK, InboundInv, CloseInv, TasksInv, WakeInv, [Next]_vars
             PROVE  WakeInv'
  OBVIOUS
<1>1. CASE Arrive \/ PeerEnds \/ UNCHANGED vars
  BY <1>1, WakeRests
  DEF Arrive, PeerEnds, vars, queueVars, readVars, readerVars, closeVars
<1>2. CASE Writer
  BY <1>2, WakeRests
  DEF Writer, WritePacket, WritePacketImmediate, AppFlush, FlushLoop, FlushWakes, FlushDrained,
      queueVars, readVars, readerVars, closeVars
<1>3. CASE Close \/ CloseGoesOn
  <2>1. UNCHANGED <<getTask, answer, woken, getters, recvQueue>>
    BY <1>3
    DEF Close, CloseGoesOn, CloseDrained, StopFlushing, StopReading, queueVars, readerVars
  <2>2. closeEvent'
    BY <1>3
    DEF Close, CloseGoesOn, CloseDrained, StopFlushing, StopReading, CloseInv, WakeInv
  <2>3. QED
    BY <2>1, <2>2 DEF WakeInv, Tasks
<1>4. CASE ReadAnswered \/ CancelRead
  <2>1. /\ getTask' = 0
        /\ UNCHANGED <<woken, getters, recvQueue, readPc, closed, closeEvent>>
    BY <1>4 DEF ReadAnswered, CancelRead, queueVars, readVars, closeVars
  <2>2. QED
    BY <2>1 DEF WakeInv
<1>5. QED
  BY <1>1, <1>2, <1>3, <1>4, PutKeepsWake, LoopKeepsWake, ReadKeepsWake, GetKeepsWake, CutKeepsWake
  DEF Next, ReadLoop, Reader

LEMMA WakeInit == Init => WakeInv
BY DEF Init, WakeInv

LEMMA WakeAlways == Spec => [](EndsInv /\ WakeInv)
<1>1. Init => EndsInv /\ WakeInv
  BY EndsStart, WakeInit
<1>2. EndsInv /\ WakeInv /\ [Next]_vars => (EndsInv /\ WakeInv)'
  BY EndsGoOn, WakeStep DEF EndsInv
<1>3. QED
  BY <1>1, <1>2, PTL DEF Spec

\* A reader that waits while no task can run waits with an empty queue, and the read loop,
\* which then cannot be at a full one, for the transport.
LEMMA NothingPasses == EndsInv /\ WakeInv => WaitsForNews
<1>1. SUFFICES ASSUME EndsInv, WakeInv, getTask # 0, answer = <<>>, woken = {}, ~closeEvent,
                      LoopSuspended
               PROVE  /\ Range(got) \cup swallowed = 1 .. arrived
                      /\ ~closed /\ (ended => transport = "RakNet")
  BY DEF WaitsForNews
<1>2. readPc # "done" /\ ~closed /\ closePc # "closed"
  BY <1>1 DEF WakeInv, EndsInv, LoopInv
<1>3. recvQueue = <<>>
  <2>1. getTask \in Range(getters)
    BY <1>1 DEF WakeInv, Tasks
  <2>2. getters # <<>>
    BY <2>1, Nothing
  <2>3. Cardinality(woken) = 0
    BY <1>1, FS_EmptySet
  <2>4. Len(recvQueue) <= 0
    BY <1>1, <2>2, <2>3 DEF WakeInv
  <2>5. recvQueue \in Seq(Nat)
    BY <1>1 DEF EndsInv, TypeOK
  <2>6. QED
    BY <2>4, <2>5
<1>4. readPc = "waiting" /\ inbox = <<>> /\ ~EndWakes
  <2>1. Len(recvQueue) = 0
    BY <1>3
  <2>2. Len(recvQueue) # QueueSize
    BY <2>1, QueueSizeAssumption
  <2>3. QED
    BY <1>1, <1>2, <2>2 DEF LoopSuspended
<1>5. rest = <<>>
  BY <1>1, <1>4 DEF EndsInv, LoopInv
<1>6. Everywhere = Range(got) \cup swallowed
  <2>1. Range(recvQueue) = {} /\ Range(answer) = {} /\ Range(rest) = {} /\ InBatches(inbox) = {}
    BY <1>1, <1>3, <1>4, <1>5, Nothing DEF InBatches
  <2>2. QED
    BY <2>1 DEF Everywhere, Ahead
<1>7. Range(got) \cup swallowed = 1 .. arrived
  <2>1. 1 .. arrived \subseteq Range(got) \cup swallowed
    BY <1>1, <1>2, <1>6 DEF EndsInv, FoundInv
  <2>2. Range(got) \cup swallowed \subseteq 1 .. arrived
    BY <1>1 DEF EndsInv, FoundInv, InboundInv, Ahead
  <2>3. QED
    BY <2>1, <2>2
<1>8. QED
  BY <1>2, <1>4, <1>7 DEF EndWakes

\* A read_packet that waits while no task on its way to it can run waits for news of the peer:
\* no wake-up is lost, and the full queue and the reader do not wait for each other.
THEOREM ReaderMissesNothing == Spec => []WaitsForNews
BY WakeAlways, NothingPasses, PTL

-----------------------------------------------------------------------------
(* The stream of packets: reading.                                         *)

\* A swallowed packet is nowhere else, and a lost one not in the buffer.
OnItsWay == Ahead \cup InBatches(inbox)
ApartInv == swallowed \cap OnItsWay = {} /\ lost \cap Range(sendBuffer) = {}

\* A batch is one of the batches, and nothing but it comes when it arrives.
LEMMA BatchWasThere ==
    ASSUME NEW s \in Seq(Seq(Nat)), s # <<>>
    PROVE  Range(Head(s)) \cup InBatches(Tail(s)) \subseteq InBatches(s)
<1>1. /\ Head(s) = s[1] /\ 1 \in DOMAIN s /\ DOMAIN s = 1 .. Len(s) /\ Len(s) \in Nat
      /\ DOMAIN Tail(s) = 1 .. Len(s) - 1
      /\ \A i \in 1 .. Len(s) - 1 : Tail(s)[i] = s[i + 1] /\ i + 1 \in DOMAIN s
  OBVIOUS
<1>2. Range(Head(s)) \subseteq InBatches(s)
  BY <1>1 DEF InBatches
<1>3. ASSUME NEW i \in DOMAIN Tail(s), NEW x \in Range(Tail(s)[i])
      PROVE  x \in InBatches(s)
  BY <1>1 DEF InBatches
<1>4. InBatches(Tail(s)) \subseteq InBatches(s)
  BY <1>3 DEF InBatches
<1> QED BY <1>2, <1>4

LEMMA BatchIsNew ==
    ASSUME NEW s \in Seq(Seq(Nat)), NEW b \in Seq(Nat)
    PROVE  InBatches(Append(s, b)) \subseteq InBatches(s) \cup Range(b)
<1>1. /\ DOMAIN s = 1 .. Len(s) /\ Len(s) \in Nat /\ DOMAIN Append(s, b) = 1 .. Len(s) + 1
      /\ \A i \in 1 .. Len(s) : Append(s, b)[i] = s[i]
      /\ Append(s, b)[Len(s) + 1] = b
  OBVIOUS
<1> SUFFICES ASSUME NEW i \in 1 .. Len(s) + 1, NEW x \in Range(Append(s, b)[i])
             PROVE  x \in InBatches(s) \cup Range(b)
  BY <1>1 DEF InBatches
<1>2. CASE i = Len(s) + 1
  BY <1>1, <1>2
<1>3. CASE i # Len(s) + 1
  <2>1. i \in 1 .. Len(s)
    BY <1>1, <1>3
  <2> QED BY <1>1, <2>1 DEF InBatches
<1> QED BY <1>2, <1>3

\* A step of the reading side after which no packet is new on its way.
LEMMA ApartShrinks ==
    ASSUME ApartInv, UNCHANGED <<swallowed, lost, sendBuffer>>, OnItsWay' \subseteq OnItsWay
    PROVE  ApartInv'
BY DEF ApartInv

LEMMA ApartRests ==
    ASSUME ApartInv, UNCHANGED <<inbox, got, answer, recvQueue, rest, swallowed, lost, sendBuffer>>
    PROVE  ApartInv'
BY DEF ApartInv, OnItsWay, Ahead

LEMMA ArriveKeepsApart ==
    ASSUME EndsInv, ApartInv, Arrive
    PROVE  ApartInv'
<1>1. PICK k \in BatchSizes : inbox' = Append(inbox, [i \in 1 .. k |-> arrived + i])
  BY DEF Arrive
<1>2. k \in Nat /\ arrived \in Nat /\ inbox \in Seq(Seq(Nat)) /\ swallowed \subseteq 1 .. arrived
  BY BatchSizesAssumption DEF EndsInv, TypeOK, FoundInv
<1> DEFINE b == [i \in 1 .. k |-> arrived + i]
<1>3. b \in Seq(Nat) /\ \A x \in Range(b) : arrived < x
  BY <1>2, ArrivingBatch
<1>4. inbox' = Append(inbox, b)
  BY <1>1
<1> HIDE DEF b
<1>5. InBatches(inbox') \subseteq InBatches(inbox) \cup Range(b)
  BY <1>2, <1>3, <1>4, BatchIsNew
<1>6. UNCHANGED <<got, answer, recvQueue, rest, swallowed, lost, sendBuffer>>
  BY DEF Arrive, queueVars, readVars, readerVars, writeVars
<1>7. OnItsWay' \subseteq OnItsWay \cup Range(b)
  BY <1>5, <1>6 DEF OnItsWay, Ahead
<1>8. \A x \in swallowed : x \in Nat /\ ~(arrived < x)
  BY <1>2
<1>9. swallowed \cap Range(b) = {}
  BY <1>3, <1>8
<1> QED BY <1>6, <1>7, <1>9 DEF ApartInv

LEMMA LoopKeepsApart ==
    ASSUME EndsInv, ApartInv, ReadLoop
    PROVE  ApartInv'
<1>1. UNCHANGED <<got, answer, swallowed, lost, sendBuffer>>
  BY DEF ReadLoop, ReadNext, ReadResumes, PutPacket, PutSuspends, readerVars, writeVars
<1>2. CASE ReadNext \/ ReadResumes
  <2>1. recvQueue' = recvQueue /\ (TakeBatch \/ LoopEnds \/ Suspend)
    BY <1>2 DEF ReadNext, ReadResumes, queueVars
  <2>2. CASE TakeBatch
    <3>1. inbox \in Seq(Seq(Nat)) /\ inbox # <<>> /\ rest' = Head(inbox) /\ inbox' = Tail(inbox)
      BY <2>2 DEF EndsInv, TypeOK, TakeBatch
    <3>2. Range(rest') \cup InBatches(inbox') \subseteq InBatches(inbox)
      BY <3>1, BatchWasThere
    <3>3. OnItsWay' \subseteq OnItsWay
      BY <1>1, <2>1, <3>2 DEF OnItsWay, Ahead
    <3> QED BY <1>1, <3>3, ApartShrinks
  <2>3. CASE LoopEnds \/ Suspend
    BY <1>1, <2>1, <2>3, ApartRests DEF LoopEnds, Suspend
  <2> QED BY <2>1, <2>2, <2>3
<1>3. CASE PutPacket
  <2>1. /\ rest \in Seq(Nat) /\ rest # <<>> /\ recvQueue \in Seq(Nat)
        /\ recvQueue' = Append(recvQueue, Head(rest)) /\ rest' = Tail(rest) /\ inbox' = inbox
    BY <1>3 DEF EndsInv, TypeOK, PutPacket, transportVars
  <2>2. Head(rest) \in Nat /\ Range(rest) = {Head(rest)} \cup Range(rest')
    BY <2>1, HeadFirst
  <2>3. Range(recvQueue') = Range(recvQueue) \cup {Head(rest)}
    BY <2>1, <2>2, AppendLast
  <2>4. OnItsWay' \subseteq OnItsWay
    BY <1>1, <2>1, <2>2, <2>3 DEF OnItsWay, Ahead
  <2> QED BY <1>1, <2>4, ApartShrinks
<1>4. CASE PutSuspends
  BY <1>1, <1>4, ApartRests DEF PutSuspends, transportVars, queueVars
<1> QED BY <1>2, <1>3, <1>4 DEF ReadLoop

\* The next packet of the queue: it is ahead of the others, and has been nowhere.
LEMMA QueuedIsNext ==
    ASSUME EndsInv, ApartInv, recvQueue # <<>>
    PROVE  /\ Head(recvQueue) \in 1 .. arrived
           /\ Head(recvQueue) \notin Range(got) \cup swallowed
           /\ Range(recvQueue) = {Head(recvQueue)} \cup Range(Tail(recvQueue))
           /\ Head(recvQueue) \notin Range(answer) \cup Range(Tail(recvQueue)) \cup Range(rest)
           /\ Head(recvQueue) \notin InBatches(inbox)
<1>1. /\ StagesInOrder /\ Ahead \subseteq 1 .. arrived /\ BatchesInOrder
      /\ got \in Seq(Nat) /\ answer \in Seq(Nat) /\ recvQueue \in Seq(Nat) /\ arrived \in Nat
  BY DEF EndsInv, InboundInv, TypeOK
<1>2. /\ Head(recvQueue) \in Nat /\ Range(recvQueue) = {Head(recvQueue)} \cup Range(Tail(recvQueue))
      /\ \A y \in Range(Tail(recvQueue)) : Head(recvQueue) < y
  BY <1>1, HeadFirst DEF StagesInOrder
<1>3. Head(recvQueue) \in Range(recvQueue) /\ Head(recvQueue) \in Ahead
  BY <1>2 DEF Ahead
<1>4. Head(recvQueue) \notin Range(got) \cup Range(answer) \cup Range(rest)
  <2>1. /\ \A y \in Range(got) \cup Range(answer) : y < Head(recvQueue)
        /\ \A y \in Range(rest) : Head(recvQueue) < y
    BY <1>1, <1>3 DEF StagesInOrder, Precede
  <2> QED BY <1>2, <2>1
<1>5. Head(recvQueue) \notin InBatches(inbox)
  BY <1>1, <1>2, <1>3 DEF InBatches, BatchesInOrder, Precede
<1>6. Head(recvQueue) \notin swallowed
  BY <1>3 DEF ApartInv, OnItsWay
<1>7. Head(recvQueue) \notin Range(Tail(recvQueue))
  BY <1>2
<1> QED BY <1>1, <1>2, <1>3, <1>4, <1>5, <1>6, <1>7

LEMMA AnswerIsNext ==
    ASSUME EndsInv, ApartInv, NEW x \in Range(answer)
    PROVE  /\ x \in 1 .. arrived
           /\ x \notin Range(got) \cup swallowed
           /\ x \notin Range(recvQueue) \cup Range(rest) \cup InBatches(inbox)
<1>1. /\ StagesInOrder /\ Ahead \subseteq 1 .. arrived /\ BatchesInOrder /\ arrived \in Nat
  BY DEF EndsInv, InboundInv, TypeOK
<1>2. x \in Ahead /\ x \in Nat
  BY <1>1 DEF Ahead
<1>3. x \notin Range(got) \cup Range(recvQueue) \cup Range(rest)
  BY <1>1, <1>2 DEF StagesInOrder, Precede
<1>4. x \notin InBatches(inbox)
  BY <1>1, <1>2 DEF InBatches, BatchesInOrder, Precede
<1> QED BY <1>1, <1>2, <1>3, <1>4 DEF ApartInv, OnItsWay

LEMMA ReaderKeepsApart ==
    ASSUME EndsInv, ApartInv, Reader
    PROVE  ApartInv'
<1>1. UNCHANGED <<inbox, rest, lost, sendBuffer>>
  BY DEF Reader, ReadPacket, GetRuns, ReadAnswered, ReadCut, CancelRead, transportVars, readVars, writeVars
<1>2. /\ got \in Seq(Nat) /\ answer \in Seq(Nat) /\ recvQueue \in Seq(Nat)
      /\ Range(<<>>) = {}
  BY Nothing DEF EndsInv, TypeOK
<1>3. CASE UNCHANGED <<got, answer, recvQueue, swallowed>>
  BY <1>1, <1>3, ApartRests
<1>4. CASE ReturnQueued /\ UNCHANGED <<answer, swallowed>>
  <2>1. recvQueue # <<>> /\ got' = Append(got, Head(recvQueue)) /\ recvQueue' = Tail(recvQueue)
    BY <1>4 DEF ReturnQueued
  <2>2. Head(recvQueue) \in Nat /\ Range(recvQueue) = {Head(recvQueue)} \cup Range(recvQueue')
    BY <1>2, <2>1, HeadFirst
  <2>3. Range(got') = Range(got) \cup {Head(recvQueue)}
    BY <1>2, <2>1, <2>2, AppendLast
  <2>4. OnItsWay' \subseteq OnItsWay
    BY <1>1, <1>4, <2>2, <2>3 DEF OnItsWay, Ahead
  <2> QED BY <1>1, <1>4, <2>4, ApartShrinks
<1>5. ASSUME NEW t \in GetTask, GetRuns(t), recvQueue # <<>>
      PROVE  ApartInv'
  <2>1. recvQueue' = Tail(recvQueue) /\ got' = got
    BY <1>5 DEF GetRuns
  <2>2. Head(recvQueue) \in Nat
    BY <1>2, <1>5, HeadFirst
  <2>3. Range(<<Head(recvQueue)>>) = {Head(recvQueue)}
    BY <2>2, Singleton
  <2>4. CASE t = getTask
    <3>1. answer' = <<Head(recvQueue)>> /\ swallowed' = swallowed
      BY <1>5, <2>4 DEF GetRuns
    <3>2. Range(answer') = {Head(recvQueue)}
      BY <2>3, <3>1
    <3>3. OnItsWay' \subseteq OnItsWay
      BY <1>1, <1>5, <2>1, <3>2, QueuedIsNext DEF OnItsWay, Ahead
    <3> QED BY <1>1, <3>1, <3>3, ApartShrinks
  <2>5. CASE t # getTask
    <3>1. answer' = answer /\ swallowed' = swallowed \cup {Head(recvQueue)}
      BY <1>5, <2>5 DEF GetRuns
    <3>2. OnItsWay' \subseteq OnItsWay /\ Head(recvQueue) \notin OnItsWay'
      BY <1>1, <1>5, <2>1, <3>1, QueuedIsNext DEF OnItsWay, Ahead
    <3> QED BY <1>1, <3>1, <3>2 DEF ApartInv
  <2> QED BY <2>4, <2>5
<1>6. CASE ReadAnswered
  <2>1. got' = got \o answer /\ answer' = <<>> /\ UNCHANGED <<recvQueue, swallowed>>
    BY <1>6 DEF ReadAnswered, queueVars
  <2>2. Range(got') = Range(got) \cup Range(answer)
    BY <1>2, <2>1, JoinRange
  <2>3. OnItsWay' \subseteq OnItsWay
    BY <1>1, <1>2, <2>1, <2>2 DEF OnItsWay, Ahead
  <2> QED BY <1>1, <2>1, <2>3, ApartShrinks
<1>7. CASE CancelRead
  <2>1. swallowed' = swallowed \cup Range(answer) /\ answer' = <<>> /\ UNCHANGED <<got, recvQueue>>
    BY <1>7 DEF CancelRead, queueVars
  <2>2. OnItsWay' \subseteq OnItsWay /\ Range(answer) \cap OnItsWay' = {}
    BY <1>1, <1>2, <2>1, AnswerIsNext DEF OnItsWay, Ahead
  <2> QED BY <1>1, <2>1, <2>2 DEF ApartInv
<1>8. CASE ReadPacket
  BY <1>3, <1>4, <1>8 DEF ReadPacket, Raise
<1>9. CASE ReadCut
  BY <1>3, <1>4, <1>9 DEF ReadCut, Raise
<1>10. ASSUME NEW t \in GetTask, GetRuns(t)
       PROVE  ApartInv'
  <2>1. CASE recvQueue = <<>>
    BY <1>3, <1>10, <2>1 DEF GetRuns
  <2> QED BY <1>5, <1>10, <2>1
<1> QED BY <1>6, <1>7, <1>8, <1>9, <1>10 DEF Reader

\* Writing: what is lost has left the buffer, and what is new in it has just been accepted.
LEMMA FlushKeepsApart ==
    ASSUME ApartInv, NEW ok \in BOOLEAN, Flush(ok),
           UNCHANGED <<inbox, got, answer, recvQueue, rest, swallowed>>
    PROVE  ApartInv'
<1>1. Range(sendBuffer') = {} /\ OnItsWay' = OnItsWay
  BY Nothing DEF Flush, OnItsWay, Ahead
<1> QED BY <1>1 DEF ApartInv

LEMMA WriterKeepsApart ==
    ASSUME EndsInv, ApartInv, Writer \/ Close
    PROVE  ApartInv'
<1>1. UNCHANGED <<inbox, got, answer, recvQueue, rest, swallowed>> /\ OnItsWay' = OnItsWay
  BY DEF Writer, WritePacket, WritePacketImmediate, AppFlush, FlushLoop, FlushWakes, FlushDrained, Close,
         transportVars, queueVars, readVars, readerVars, OnItsWay, Ahead
<1>2. /\ sendBuffer \in Seq(Nat) /\ accepted \in Nat
      /\ Range(sendBuffer) \subseteq 1 .. accepted /\ lost \subseteq 1 .. accepted
  BY DEF EndsInv, TypeOK, OutboundInv, NothingVanishes
<1>3. accepted + 1 \in Nat /\ accepted + 1 \notin 1 .. accepted
  BY <1>2
<1>4. CASE UNCHANGED writeVars
  BY <1>1, <1>4, ApartRests DEF writeVars
<1>5. CASE WritePacket
  <2>1. sendBuffer' = Append(sendBuffer, accepted + 1) /\ lost' = lost /\ swallowed' = swallowed
    BY <1>1, <1>5 DEF WritePacket
  <2>2. Range(sendBuffer') = Range(sendBuffer) \cup {accepted + 1}
    BY <1>2, <1>3, <2>1, AppendLast
  <2> QED BY <1>1, <1>2, <1>3, <2>1, <2>2 DEF ApartInv
<1>6. CASE WritePacketImmediate
  <2>1. PICK ok \in BOOLEAN : Write(<<accepted + 1>>, ok)
    BY <1>6 DEF WritePacketImmediate
  <2>2. sendBuffer' = sendBuffer /\ Range(<<accepted + 1>>) = {accepted + 1}
    BY <1>3, <1>6, Singleton DEF WritePacketImmediate
  <2>3. lost' \subseteq lost \cup {accepted + 1}
    BY <2>1, <2>2, WriteEffect
  <2> QED BY <1>1, <1>2, <1>3, <2>2, <2>3 DEF ApartInv
<1>7. CASE \E ok \in BOOLEAN : Flush(ok)
  BY <1>1, <1>7, FlushKeepsApart
<1> QED BY <1>4, <1>5, <1>6, <1>7 DEF Writer, AppFlush, FlushLoop, FlushWakes, FlushDrained, Close

LEMMA ApartStep == EndsInv /\ ApartInv /\ [Next]_vars => ApartInv'
<1> SUFFICES ASSUME EndsInv, ApartInv, [Next]_vars
             PROVE  ApartInv'
  OBVIOUS
<1>1. CASE PeerEnds \/ CloseDrained \/ StopFlushing \/ UNCHANGED vars
  BY <1>1, ApartRests
  DEF PeerEnds, CloseDrained, StopFlushing, vars, transportVars, queueVars, readVars, readerVars, writeVars
<1>2. CASE StopReading
  <2>1. UNCHANGED <<inbox, got, answer, recvQueue, swallowed, lost, sendBuffer>> /\ rest' = <<>>
    BY <1>2 DEF StopReading, transportVars, queueVars, readerVars, writeVars
  <2>2. OnItsWay' \subseteq OnItsWay
    BY <2>1, Nothing DEF OnItsWay, Ahead
  <2> QED BY <2>1, <2>2, ApartShrinks
<1> QED BY <1>1, <1>2, ArriveKeepsApart, LoopKeepsApart, ReaderKeepsApart, WriterKeepsApart
        DEF Next, CloseGoesOn

LEMMA ApartInit == Init => ApartInv
<1> SUFFICES ASSUME Init
             PROVE  ApartInv
  OBVIOUS
<1>1. swallowed = {} /\ lost = {}
  BY DEF Init
<1> QED BY <1>1 DEF ApartInv

\* The packets that arrive, and the end.
LEMMA ArriveComes ==
    ASSUME EndsInv, Arrive
    PROVE  [Stream!Come]_(Stream!readVars)
<1>1. PICK k \in BatchSizes : arrived' = arrived + k
  BY DEF Arrive
<1>2. k \in Nat /\ arrived \in Nat
  BY BatchSizesAssumption DEF EndsInv, TypeOK
<1>3. ~ended /\ UNCHANGED <<ended, transport, closed, got, swallowed, cancels, told>>
  BY DEF Arrive, readerVars, closeVars
<1>4. UNCHANGED (ended /\ transport = "RakNet")
  BY <1>3
<1>5. CASE k = 0
  <2>1. arrived' = arrived
    BY <1>1, <1>2, <1>5
  <2> QED BY <1>3, <1>4, <2>1 DEF Stream!readVars
<1>6. CASE k > 0
  <2>1. arrived' \in Nat /\ arrived' > arrived
    BY <1>1, <1>2, <1>6
  <2> QED BY <1>3, <1>4, <2>1 DEF Stream!Come
<1> QED BY <1>2, <1>5, <1>6

\* What is returned is the least that is left: all before it have been returned or swallowed.
LEMMA ReturnsNext ==
    ASSUME EndsInv, OnlyCancelsSkip', NEW x \in 1 .. arrived, x \notin Range(got) \cup swallowed,
           got' = Append(got, x), told => closed,
           UNCHANGED <<arrived, ended, transport, closed, swallowed, cancels, told>>
    PROVE  Stream!Return
<1>1. got \in Seq(Nat) /\ arrived \in Nat /\ x \in Nat
  BY DEF EndsInv, TypeOK
<1>2. Range(got') = Range(got) \cup {x}
  BY <1>1, AppendLast
<1>3. Len(got) + 1 \in DOMAIN got' /\ got'[Len(got) + 1] = x
  BY <1>1
<1>4. 1 .. x \subseteq Range(got') \cup swallowed'
  BY <1>3 DEF OnlyCancelsSkip
<1>5. \A y \in 1 .. arrived : y \in 1 .. x \/ x <= y
  BY <1>1
<1>6. ASSUME NEW y \in Stream!ToRead
      PROVE  x <= y
  <2>1. y \in 1 .. arrived /\ y \notin Range(got) /\ y \notin swallowed
    BY DEF Stream!ToRead, Stream!Range, Range
  <2>2. CASE y \in 1 .. x
    <3>1. y \in {x}
      BY <1>2, <1>4, <2>1, <2>2
    <3> QED BY <1>1, <3>1
  <2> QED BY <1>5, <2>1, <2>2
<1>7. x \in Stream!ToRead
  BY DEF Stream!ToRead, Stream!Range, Range
<1>8. UNCHANGED (ended /\ transport = "RakNet")
  OBVIOUS
<1> QED BY <1>6, <1>7, <1>8 DEF Stream!Return

LEMMA QueuedReturns ==
    ASSUME EndsInv, ApartInv, OnlyCancelsSkip', ReturnQueued,
           UNCHANGED <<arrived, ended, transport, closed, swallowed, cancels>>
    PROVE  Stream!Return
<1>1. recvQueue # <<>> /\ got' = Append(got, Head(recvQueue)) /\ told' = told
  BY DEF ReturnQueued
<1>2. told => closed
  BY <1>1 DEF EndsInv, LoopInv
<1>3. Head(recvQueue) \in 1 .. arrived /\ Head(recvQueue) \notin Range(got) \cup swallowed
  BY <1>1, QueuedIsNext
<1> QED BY <1>1, <1>2, <1>3, ReturnsNext

LEMMA AnswerReturns ==
    ASSUME EndsInv, ApartInv, OnlyCancelsSkip', ReadAnswered
    PROVE  Stream!Return
<1>1. /\ answer # <<>> /\ got' = got \o answer /\ got \in Seq(Nat)
      /\ UNCHANGED <<arrived, ended, transport, closed, swallowed, cancels, told>>
  BY DEF ReadAnswered, transportVars, closeVars, EndsInv, TypeOK
<1>2. PICK x \in Nat : answer = <<x>>
  BY <1>1, OneElement DEF EndsInv, TypeOK, InboundInv, StagesInOrder
<1>3. x \in Range(answer) /\ got' = Append(got, x)
  BY <1>1, <1>2, Singleton
<1>4. x \in 1 .. arrived /\ x \notin Range(got) \cup swallowed
  BY <1>3, AnswerIsNext
<1>5. told => closed
  BY <1>1 DEF EndsInv, LoopInv
<1> QED BY <1>1, <1>3, <1>4, <1>5, ReturnsNext

\* A cancelled read, and the task of one that takes a packet.
LEMMA GivesUp ==
    ASSUME OnlyCancelsSkip', cancels' \in {cancels, cancels + 1},
           swallowed' = swallowed \/ \E x \in Stream!ToRead : swallowed' = swallowed \cup {x},
           UNCHANGED <<arrived, ended, transport, closed, got, told>>
    PROVE  Stream!GiveUp
<1>1. UNCHANGED (ended /\ transport = "RakNet")
  OBVIOUS
<1>2. Stream!Cardinality(swallowed') = Cardinality(swallowed')
  BY DEF Stream!Cardinality, Cardinality, Stream!IsFiniteSet, IsFiniteSet
<1> QED BY <1>1, <1>2 DEF Stream!GiveUp, OnlyCancelsSkip

LEMMA CancelGivesUp ==
    ASSUME EndsInv, ApartInv, OnlyCancelsSkip', CancelRead
    PROVE  Stream!GiveUp
<1>1. /\ cancels' = cancels + 1 /\ swallowed' = swallowed \cup Range(answer)
      /\ UNCHANGED <<arrived, ended, transport, closed, got, told>>
  BY DEF CancelRead, transportVars, closeVars
<1>2. CASE answer = <<>>
  <2>1. swallowed' = swallowed
    BY <1>1, <1>2, Nothing
  <2> QED BY <1>1, <2>1, GivesUp
<1>3. CASE answer # <<>>
  <2>1. PICK x \in Nat : answer = <<x>>
    BY <1>3, OneElement DEF EndsInv, TypeOK, InboundInv, StagesInOrder
  <2>2. Range(answer) = {x}
    BY <2>1, Singleton
  <2>3. x \in Stream!ToRead /\ swallowed' = swallowed \cup {x}
    BY <1>1, <2>2, AnswerIsNext DEF Stream!ToRead, Stream!Range, Range
  <2> QED BY <1>1, <2>3, GivesUp
<1> QED BY <1>2, <1>3

LEMMA GetTakes ==
    ASSUME EndsInv, ApartInv, OnlyCancelsSkip', NEW t \in GetTask, GetRuns(t)
    PROVE  Stream!GiveUp
<1>1. UNCHANGED <<arrived, ended, transport, closed, got, told, cancels>>
  BY DEF GetRuns, transportVars, closeVars
<1>2. CASE recvQueue = <<>> \/ t = getTask
  <2>1. swallowed' = swallowed
    BY <1>2 DEF GetRuns
  <2> QED BY <1>1, <2>1, GivesUp
<1>3. CASE recvQueue # <<>> /\ t # getTask
  <2>1. swallowed' = swallowed \cup {Head(recvQueue)}
    BY <1>3 DEF GetRuns
  <2>2. Head(recvQueue) \in Stream!ToRead
    BY <1>3, QueuedIsNext DEF Stream!ToRead, Stream!Range, Range
  <2> QED BY <1>1, <2>1, <2>2, GivesUp
<1> QED BY <1>2, <1>3

\* An error, when nothing is left to return, or the end came first.
LEMMA EndRaises ==
    ASSUME EndsInv, ErrorComesLast', closeEvent, Raise,
           UNCHANGED <<arrived, ended, transport, closed, swallowed, cancels>>
    PROVE  Stream!Raise
<1>1. told' = TRUE /\ got' = got
  BY DEF Raise
<1>2. ~closed => ended
  BY DEF EndsInv, LoopInv
<1>3. ASSUME ~closed, transport # "RakNet"
      PROVE  Stream!ToRead = {}
  BY <1>1, <1>3 DEF ErrorComesLast, Stream!ToRead, Stream!Range, Range
<1>4. UNCHANGED (ended /\ transport = "RakNet")
  OBVIOUS
<1> QED BY <1>1, <1>2, <1>3, <1>4 DEF Stream!Raise

\* Every step is one of the stream's reading side, or leaves it as it is.
LEMMA ReadingStep ==
    ASSUME EndsInv, ApartInv, OnlyCancelsSkip', ErrorComesLast', [Next]_vars
    PROVE  [Stream!Come \/ Stream!End \/ Stream!Close \/ Stream!Return
            \/ Stream!GiveUp \/ Stream!Raise]_(Stream!readVars)
<1>1. CASE UNCHANGED <<arrived, ended, transport, closed, got, swallowed, cancels, told>>
  <2>1. UNCHANGED (ended /\ transport = "RakNet")
    BY <1>1
  <2> QED BY <1>1, <2>1 DEF Stream!readVars
<1>2. CASE PeerEnds
  <2>1. ended' = TRUE /\ UNCHANGED <<arrived, closed, got, swallowed, cancels, told>>
    BY <1>2 DEF PeerEnds, readerVars, closeVars
  <2>2. (ended /\ transport = "RakNet")' \in BOOLEAN
    OBVIOUS
  <2>3. Stream!End
    BY <2>1, <2>2 DEF Stream!End
  <2> QED BY <2>3
<1>3. CASE Close
  <2>1. closed' = TRUE /\ UNCHANGED <<arrived, ended, transport, got, swallowed, cancels, told>>
    BY <1>3 DEF Close, transportVars, readerVars
  <2>2. UNCHANGED (ended /\ transport = "RakNet")
    BY <2>1
  <2>3. Stream!Close
    BY <2>1, <2>2 DEF Stream!Close
  <2> QED BY <2>3
<1>4. CASE ReadPacket
  <2>1. UNCHANGED <<arrived, ended, transport, closed, swallowed, cancels>>
    BY <1>4 DEF ReadPacket, transportVars, closeVars
  <2>2. ReturnQueued \/ (closeEvent /\ Raise) \/ UNCHANGED <<got, told>>
    BY <1>4 DEF ReadPacket
  <2> QED BY <1>1, <2>1, <2>2, QueuedReturns, EndRaises
<1>5. CASE ReadCut
  <2>1. /\ UNCHANGED <<arrived, ended, transport, closed, swallowed, cancels>>
        /\ closeEvent /\ (ReturnQueued \/ Raise)
    BY <1>5 DEF ReadCut, transportVars, closeVars
  <2> QED BY <2>1, QueuedReturns, EndRaises
<1>6. CASE ReadLoop
  <2>1. UNCHANGED <<arrived, ended, transport, closed, got, swallowed, cancels, told>>
    BY <1>6 DEF ReadLoop, ReadNext, ReadResumes, PutPacket, PutSuspends, transportVars, readerVars, closeVars
  <2> QED BY <1>1, <2>1
<1>7. CASE Writer \/ CloseGoesOn \/ UNCHANGED vars
  <2>1. UNCHANGED <<arrived, ended, transport, closed, got, swallowed, cancels, told>>
    BY <1>7
    DEF Writer, WritePacket, WritePacketImmediate, AppFlush, FlushLoop, FlushWakes, FlushDrained,
        CloseGoesOn, CloseDrained, StopFlushing, StopReading, vars, transportVars, readerVars, closeVars
  <2> QED BY <1>1, <2>1
<1>8. CASE Arrive
  BY <1>8, ArriveComes
<1>9. CASE ReadAnswered
  BY <1>9, AnswerReturns
<1>10. CASE CancelRead
  BY <1>10, CancelGivesUp
<1>11. CASE \E t \in GetTask : GetRuns(t)
  BY <1>11, GetTakes
<1> QED BY <1>2, <1>3, <1>4, <1>5, <1>6, <1>7, <1>8, <1>9, <1>10, <1>11 DEF Next, Reader

-----------------------------------------------------------------------------
(* The stream of packets: writing.                                         *)

\* What waits to be sent is in the buffer.
LEMMA BufferWaits ==
    ASSUME EndsInv, ApartInv
    PROVE  Stream!ToSend = Range(sendBuffer)
<1>1. /\ 1 .. accepted = Range(sent) \cup Range(sendBuffer) \cup lost
      /\ \A x \in Range(sent), y \in Range(sendBuffer) : x # y
      /\ lost \cap Range(sendBuffer) = {}
  BY DEF EndsInv, OutboundInv, NothingVanishes, ApartInv
<1> QED BY <1>1 DEF Stream!ToSend, Stream!Range, Range

LEMMA FlushSendsAll ==
    ASSUME EndsInv, ApartInv, NEW ok \in BOOLEAN, Flush(ok)
    PROVE  Stream!SendAll \/ Stream!FailAll
<1>1. /\ sent \in Seq(Nat) /\ sendBuffer \in Seq(Nat) /\ Increasing(sendBuffer)
      /\ accepted' = accepted /\ immediates' = immediates
  BY DEF EndsInv, TypeOK, OutboundInv, Flush
<1>2. CASE sent' = sent \o sendBuffer /\ lost' = lost
  <2> DEFINE joined == sent \o sendBuffer
  <2>1. /\ Len(joined) = Len(sent) + Len(sendBuffer) /\ Len(sent) \in Nat /\ Len(sendBuffer) \in Nat
        /\ \A i \in 1 .. Len(sent) : joined[i] = sent[i]
        /\ \A i \in Len(sent) + 1 .. Len(sent) + Len(sendBuffer) : joined[i] = sendBuffer[i - Len(sent)]
        /\ DOMAIN sendBuffer = 1 .. Len(sendBuffer)
    BY <1>1
  <2>2. sent' = joined
    BY <1>2
  <2> HIDE DEF joined
  <2>3. Len(sent) <= Len(sent') /\ \A i \in 1 .. Len(sent) : sent'[i] = sent[i]
    BY <2>1, <2>2
  <2>4. ASSUME NEW i \in Len(sent) + 1 .. Len(sent')
        PROVE  i - Len(sent) \in DOMAIN sendBuffer /\ sent'[i] = sendBuffer[i - Len(sent)]
    BY <2>1, <2>2
  <2>5. \A i \in Len(sent) + 1 .. Len(sent') : sent'[i] \in Range(sendBuffer)
    BY <2>4 DEF Range
  <2>6. ASSUME NEW x \in Range(sendBuffer)
        PROVE  \E i \in Len(sent) + 1 .. Len(sent') : sent'[i] = x
    <3>1. PICK k \in 1 .. Len(sendBuffer) : sendBuffer[k] = x
      BY <2>1 DEF Range
    <3>2. Len(sent) + k \in Len(sent) + 1 .. Len(sent') /\ (Len(sent) + k) - Len(sent) = k
      BY <2>1, <2>2
    <3>3. sent'[Len(sent) + k] = x
      BY <2>4, <3>1, <3>2
    <3> QED BY <3>2, <3>3
  <2>7. ASSUME NEW i \in Len(sent) + 1 .. Len(sent'), NEW j \in Len(sent) + 1 .. Len(sent'), i < j
        PROVE  sent'[i] < sent'[j]
    <3>1. i - Len(sent) < j - Len(sent)
      BY <2>1, <2>7
    <3> QED BY <1>1, <2>4, <3>1 DEF Increasing
  <2>8. Stream!SendAll
    BY <1>1, <1>2, <2>3, <2>5, <2>6, <2>7, BufferWaits DEF Stream!SendAll
  <2> QED BY <2>8
<1>3. CASE sent' = sent /\ lost' = lost \cup Range(sendBuffer)
  BY <1>1, <1>3, BufferWaits DEF Stream!FailAll
<1>4. Write(sendBuffer, ok)
  BY DEF Flush
<1> QED BY <1>2, <1>3, <1>4, WriteEffect

LEMMA WritingStep ==
    ASSUME EndsInv, ApartInv, [Next]_vars
    PROVE  [Stream!Accept \/ Stream!SendAtOnce \/ Stream!SendAll \/ Stream!FailAll]_(Stream!writeVars)
<1>1. CASE UNCHANGED writeVars
  BY <1>1 DEF writeVars, Stream!writeVars
<1>2. CASE WritePacket
  BY <1>2 DEF WritePacket, Stream!Accept
<1>3. CASE WritePacketImmediate
  <2>1. PICK ok \in BOOLEAN : Write(<<accepted + 1>>, ok)
    BY <1>3 DEF WritePacketImmediate
  <2>2. /\ accepted' = accepted + 1 /\ accepted + 1 \in Nat /\ sent \in Seq(Nat)
        /\ Range(<<accepted + 1>>) = {accepted + 1}
        /\ immediates' = immediates \cup {accepted + 1}
    BY <1>3, Singleton DEF WritePacketImmediate, EndsInv, TypeOK
  <2>3. sent \o <<accepted + 1>> = Append(sent, accepted + 1)
    BY <2>2
  <2>4. Stream!SendAtOnce
    BY <2>1, <2>2, <2>3, WriteEffect DEF Stream!SendAtOnce
  <2> QED BY <2>4
<1>4. CASE \E ok \in BOOLEAN : Flush(ok)
  BY <1>4, FlushSendsAll
<1>5. CASE Arrive \/ PeerEnds \/ ReadLoop \/ Reader \/ CloseGoesOn \/ UNCHANGED vars
  <2>1. UNCHANGED writeVars
    BY <1>5
    DEF Arrive, PeerEnds, ReadLoop, ReadNext, ReadResumes, PutPacket, PutSuspends, Reader, ReadPacket, GetRuns,
        ReadAnswered, ReadCut, CancelRead, CloseGoesOn, CloseDrained, StopFlushing, StopReading, vars
  <2> QED BY <1>1, <2>1
<1> QED BY <1>1, <1>2, <1>3, <1>4, <1>5
        DEF Next, Writer, AppFlush, FlushLoop, FlushWakes, FlushDrained, Close

\* Connection implements PacketStream: whatever its four tasks do, what the application sees are
\* the steps of a stream of packets.
THEOREM StreamKept == Spec => ImplementsStream
<1>1. Init => Stream!ReadInit /\ Stream!WriteInit
  BY DEF Init, Stream!ReadInit, Stream!WriteInit
<1>2. Spec => [](EndsInv /\ ApartInv)
  BY EndsAlways, ApartInit, ApartStep, PTL DEF Spec
<1>3. EndsInv => OnlyCancelsSkip /\ ErrorComesLast
  BY SkipsForCancels, NothingLeft
<1>4. (EndsInv /\ ApartInv) /\ OnlyCancelsSkip' /\ ErrorComesLast' /\ [Next]_vars
        => [Stream!Come \/ Stream!End \/ Stream!Close \/ Stream!Return
            \/ Stream!GiveUp \/ Stream!Raise]_(Stream!readVars)
  BY ReadingStep
<1>5. (EndsInv /\ ApartInv) /\ [Next]_vars
        => [Stream!Accept \/ Stream!SendAtOnce \/ Stream!SendAll \/ Stream!FailAll]_(Stream!writeVars)
  BY WritingStep
<1> QED BY <1>1, <1>2, <1>3, <1>4, <1>5, PTL
        DEF Spec, ImplementsStream, Stream!Spec, Stream!Reading, Stream!Writing
=============================================================================
