----------------------------- MODULE Connection -----------------------------
(***************************************************************************)
(* mcbe.conn.Connection: the packet layer between an application and a     *)
(* transport.  Four tasks share its state on one event loop: the           *)
(* application, the flush loop, the read loop, and the queue.get() that a  *)
(* waiting read_packet starts.  A step is what one of them does between    *)
(* two suspensions.                                                        *)
(*                                                                         *)
(* Packets are numbered: those that arrive in the order of arrival, those  *)
(* that the application writes in the order of the calls.  Of the          *)
(* transport only its ends are here: a queue of arrived batches, whether   *)
(* the peer has ended the connection, and what a write may do.             *)
(***************************************************************************)
EXTENDS Integers, Sequences, FiniteSets, Functions

CONSTANTS
    Transports,    \* the kinds of transport considered
    QueueSize,     \* the capacity of _recv_queue, 128 in the code
    BatchSizes,    \* packets in a batch that arrives; 0: it cannot be decoded
    BatchBound,    \* bound on the batches that arrive
    WriteBound,    \* bound on the packets that the application writes
    CancelBound,   \* bound on the reads that the application cancels
    FailBound      \* bound on the batches that are too large for the transport

ASSUME TransportsAssumption == Transports \subseteq {"RakNet", "NetherNet", "TCP"}
ASSUME QueueSizeAssumption == QueueSize \in Nat \ {0}
ASSUME BatchSizesAssumption == BatchSizes \subseteq Nat
ASSUME BoundsAssumption ==
    /\ BatchBound \in Nat /\ WriteBound \in Nat
    /\ CancelBound \in Nat /\ FailBound \in Nat

VARIABLES
    transport,     \* the kind of transport; it never changes
    inbox,         \* batches that the transport has received and not handed over
    ended,         \* the peer has ended the connection
    batches,       \* number of batches arrived
    arrived,       \* number of packets in them
    recvQueue,     \* _recv_queue
    getters,       \* get() tasks that wait for a packet, in order
    woken,         \* get() tasks that are about to run
    readPc,        \* where the read loop is
    rest,          \* packets of its batch that it has still to put
    getTask,       \* the get() task of the read_packet under way, 0 if none
    answer,        \* what that task has taken from the queue
    got,           \* packets that read_packet has returned
    swallowed,     \* packets taken by tasks of cancelled reads
    told,          \* a read_packet has raised ConnectionError
    cancels,       \* number of reads cancelled
    sendBuffer,    \* _send_buffer
    flushPc,       \* where the flush loop is
    accepted,      \* number of packets written by the application
    immediates,    \* those of them written by write_packet_immediate
    sent,          \* packets handed to the transport, in order
    lost,          \* packets of batches whose write failed
    fails,         \* number of batches that were too large
    closed,        \* _closed
    closeEvent,    \* _close_event
    closePc,       \* where close() is
    owed           \* packets accepted when close() was called

transportVars == <<transport, inbox, ended, batches, arrived>>
queueVars == <<recvQueue, getters, woken>>
readVars == <<readPc, rest>>
readerVars == <<getTask, answer, got, swallowed, told, cancels>>
writeVars == <<sendBuffer, accepted, immediates, sent, lost, fails>>
closeVars == <<closed, closeEvent, closePc, owed>>
vars == <<transportVars, queueVars, readVars, readerVars, writeVars, flushPc, closeVars>>

GetTask == 1 .. CancelBound + 1

TypeOK ==
    /\ transport \in Transports
    /\ inbox \in Seq(Seq(Nat))
    /\ ended \in BOOLEAN
    /\ batches \in Nat /\ arrived \in Nat
    /\ recvQueue \in Seq(Nat) /\ Len(recvQueue) <= QueueSize
    /\ getters \in Seq(GetTask) /\ woken \subseteq GetTask
    /\ readPc \in {"ready", "running", "waiting", "putting", "done"}
    /\ rest \in Seq(Nat)
    /\ getTask \in GetTask \cup {0}
    /\ answer \in Seq(Nat) /\ got \in Seq(Nat)
    /\ swallowed \subseteq Nat /\ told \in BOOLEAN /\ cancels \in Nat
    /\ sendBuffer \in Seq(Nat)
    /\ flushPc \in {"sleeping", "draining", "done"}
    /\ accepted \in Nat /\ immediates \subseteq Nat
    /\ sent \in Seq(Nat) /\ lost \subseteq Nat /\ fails \in Nat
    /\ closed \in BOOLEAN /\ closeEvent \in BOOLEAN
    /\ closePc \in {"open", "flushing", "stopFlush", "stopRead", "closed"}
    /\ owed \in Nat

Init ==
    /\ transport \in Transports
    /\ inbox = <<>> /\ ended = FALSE
    /\ batches = 0 /\ arrived = 0
    /\ recvQueue = <<>> /\ getters = <<>> /\ woken = {}
    /\ readPc = "ready" /\ rest = <<>>
    /\ getTask = 0 /\ answer = <<>> /\ got = <<>> /\ swallowed = {}
    /\ told = FALSE /\ cancels = 0
    /\ sendBuffer = <<>> /\ accepted = 0 /\ immediates = {}
    /\ sent = <<>> /\ lost = {} /\ fails = 0
    /\ flushPc = "sleeping"
    /\ closed = FALSE /\ closeEvent = FALSE /\ closePc = "open" /\ owed = 0

-----------------------------------------------------------------------------
(* The transport.                                                          *)

\* A batch arrives; one that cannot be decoded counts as one without packets.
Arrive ==
    /\ ~ended /\ closePc # "closed" /\ batches < BatchBound
    /\ \E k \in BatchSizes :
         /\ inbox' = Append(inbox, [i \in 1 .. k |-> arrived + i])
         /\ arrived' = arrived + k
    /\ batches' = batches + 1
    /\ UNCHANGED <<transport, ended, queueVars, readVars, readerVars,
                   writeVars, flushPc, closeVars>>

\* RakNet: a DisconnectionNotification; NetherNet: the data channel closes, and
\* its callback queues a sentinel behind the batches; TCP: the end of the stream.
PeerEnds ==
    /\ ~ended /\ closePc # "closed"
    /\ ended' = TRUE
    /\ UNCHANGED <<transport, inbox, batches, arrived, queueVars, readVars,
                   readerVars, writeVars, flushPc, closeVars>>

\* A call of the transport's read_packet would raise.  RakNet looks at the end
\* before the queue, the others come to the end after the last batch.
EndIsNext == ended /\ (transport = "RakNet" \/ inbox = <<>>)

\* A read_packet of the transport that waits would raise.  The get() in which
\* RakNet waits does not notice the end.
EndWakes == ended /\ transport # "RakNet" /\ inbox = <<>>

MustFail == closePc = "closed" \/ (ended /\ transport # "TCP")
MayFail ==
    \/ MustFail
    \/ ended                                             \* TCP: drain() raises
    \/ transport = "NetherNet" /\ fails < FailBound      \* "data too large"

\* The transport's write_packet, before it suspends.
Write(batch, ok) ==
    /\ IF ok THEN ~MustFail ELSE MayFail
    /\ sent' = IF ok THEN sent \o batch ELSE sent
    /\ lost' = IF ok THEN lost ELSE lost \cup Range(batch)
    /\ fails' = IF ok \/ MustFail \/ ended THEN fails ELSE fails + 1

-----------------------------------------------------------------------------
(* The read loop.  It never suspends while a batch is ready and the queue  *)
(* has room: "running" keeps every other task out.                         *)

\* asyncio.Queue: an item wakes the first get() that waits.
WakeNext ==
    IF getters = <<>> THEN UNCHANGED <<getters, woken>>
    ELSE getters' = Tail(getters) /\ woken' = woken \cup {Head(getters)}

\* Mutant: the end of the loop is not signalled.
LoopEndsSilently ==
    /\ readPc' = "done"
    /\ UNCHANGED <<inbox, rest, closeEvent>>

LoopEnds ==
    /\ readPc' = "done" /\ closeEvent' = TRUE
    /\ UNCHANGED <<inbox, rest>>

TakeBatch ==
    /\ inbox # <<>>
    /\ rest' = Head(inbox) /\ inbox' = Tail(inbox)
    /\ readPc' = "running"
    /\ UNCHANGED closeEvent

Suspend ==
    /\ inbox = <<>>
    /\ readPc' = "waiting"
    /\ UNCHANGED <<inbox, rest, closeEvent>>

ReadNext ==
    /\ readPc \in {"ready", "running"} /\ rest = <<>>
    /\ IF closed \/ EndIsNext THEN LoopEnds ELSE TakeBatch \/ Suspend
    /\ UNCHANGED <<transport, ended, batches, arrived, queueVars, readerVars,
                   writeVars, flushPc, closed, closePc, owed>>

ReadResumes ==
    /\ readPc = "waiting"
    /\ TakeBatch \/ (EndWakes /\ LoopEnds)
    /\ UNCHANGED <<transport, ended, batches, arrived, queueVars, readerVars,
                   writeVars, flushPc, closed, closePc, owed>>

PutPacket ==
    /\ readPc \in {"running", "putting"} /\ rest # <<>>
    /\ Len(recvQueue) < QueueSize
    /\ recvQueue' = Append(recvQueue, Head(rest))
    /\ rest' = Tail(rest)
    /\ readPc' = "running"
    /\ WakeNext
    /\ UNCHANGED <<transportVars, readerVars, writeVars, flushPc, closeVars>>

PutSuspends ==
    /\ readPc = "running" /\ rest # <<>>
    /\ Len(recvQueue) = QueueSize
    /\ readPc' = "putting"
    /\ UNCHANGED <<transportVars, queueVars, rest, readerVars, writeVars, flushPc, closeVars>>

ReadLoop ==
    /\ closePc # "stopRead"       \* there it has been cancelled
    /\ ReadNext \/ ReadResumes \/ PutPacket \/ PutSuspends

-----------------------------------------------------------------------------
(* read_packet.                                                            *)

ReturnQueued ==
    /\ recvQueue # <<>>
    /\ got' = Append(got, Head(recvQueue)) /\ recvQueue' = Tail(recvQueue)
    /\ UNCHANGED told

Raise ==
    /\ recvQueue = <<>>
    /\ told' = TRUE
    /\ UNCHANGED <<got, recvQueue>>

\* Names of get() tasks; there is one for each cancelled read and one more.
FreeTask == GetTask \ (woken \cup Range(getters))

\* The call: a queued packet, the error, or a get() that races with the close event.
ReadPacket ==
    /\ getTask = 0
    /\ \/ /\ ReturnQueued \/ (closeEvent /\ Raise)
          /\ UNCHANGED <<getTask, woken>>
       \/ /\ recvQueue = <<>> /\ ~closeEvent
          /\ FreeTask # {} /\ getTask' = CHOOSE t \in FreeTask : TRUE
          /\ woken' = woken \cup {getTask'}
          /\ UNCHANGED <<recvQueue, got, told>>
    /\ UNCHANGED <<transportVars, getters, readVars, answer, swallowed, cancels,
                   writeVars, flushPc, closeVars>>

\* A get() runs.  The packet it takes is the reader's, unless the read that
\* started it has been cancelled: then nobody looks at it.
GetRuns(t) ==
    /\ t \in woken
    /\ woken' = woken \ {t}
    /\ IF recvQueue = <<>>
       THEN getters' = Append(getters, t) /\ UNCHANGED <<recvQueue, answer, swallowed>>
       ELSE /\ recvQueue' = Tail(recvQueue)
            /\ answer' = IF t = getTask THEN <<Head(recvQueue)>> ELSE answer
            /\ swallowed' = IF t = getTask THEN swallowed ELSE swallowed \cup {Head(recvQueue)}
            /\ UNCHANGED getters
    /\ UNCHANGED <<transportVars, readVars, getTask, got, told, cancels, writeVars, flushPc,
                   closeVars>>

ReadAnswered ==
    /\ getTask # 0 /\ answer # <<>>
    /\ got' = got \o answer
    /\ answer' = <<>> /\ getTask' = 0
    /\ UNCHANGED <<transportVars, queueVars, readVars, swallowed, told, cancels, writeVars,
                   flushPc, closeVars>>

\* asyncio.Queue: a get() that is cancelled leaves the line.
Cancelled(s, t) ==
    IF t \notin Range(s) THEN s
    ELSE LET i == CHOOSE i \in DOMAIN s : s[i] = t
         IN  SubSeq(s, 1, i - 1) \o SubSeq(s, i + 1, Len(s))

\* The close event wins: the get() is cancelled, and what is queued goes first.
\* A get() that had been woken passes the wake-up on.
ReadCut ==
    /\ getTask # 0 /\ answer = <<>> /\ closeEvent
    /\ ReturnQueued \/ Raise
    /\ getTask' = 0
    /\ LET others == Cancelled(getters, getTask)
       IN  IF getTask \in woken /\ Len(recvQueue) > 1 /\ others # <<>>
           THEN /\ woken' = (woken \ {getTask}) \cup {Head(others)}
                /\ getters' = Tail(others)
           ELSE woken' = woken \ {getTask} /\ getters' = others
    /\ UNCHANGED <<transportVars, readVars, answer, swallowed, cancels, writeVars, flushPc,
                   closeVars>>

\* Mutant: a cancelled read puts its packet back.
CancelReadPutsBack ==
    /\ getTask # 0 /\ cancels < CancelBound
    /\ cancels' = cancels + 1
    /\ recvQueue' = recvQueue \o answer
    /\ answer' = <<>> /\ getTask' = 0
    /\ UNCHANGED <<transportVars, getters, woken, readVars, got, swallowed, told, writeVars,
                   flushPc, closeVars>>

\* asyncio.wait_for gives up: read_packet is cancelled, its get() is not.
CancelRead ==
    /\ getTask # 0 /\ cancels < CancelBound
    /\ cancels' = cancels + 1
    /\ swallowed' = swallowed \cup Range(answer)
    /\ answer' = <<>> /\ getTask' = 0
    /\ UNCHANGED <<transportVars, queueVars, readVars, got, told, writeVars, flushPc, closeVars>>

-----------------------------------------------------------------------------
(* Writing.  The lock is never held across a suspension, and nothing       *)
(* suspends between the swap of the buffer and the write.                  *)

Flush(ok) ==
    /\ sendBuffer # <<>>
    /\ Write(sendBuffer, ok)
    /\ sendBuffer' = <<>>
    /\ UNCHANGED <<accepted, immediates>>

\* write_packet never looks at _closed.
WritePacket ==
    /\ accepted < WriteBound
    /\ accepted' = accepted + 1
    /\ sendBuffer' = Append(sendBuffer, accepted + 1)
    /\ UNCHANGED <<transportVars, queueVars, readVars, readerVars, immediates, sent, lost, fails,
                   flushPc, closeVars>>

WritePacketImmediate ==
    /\ accepted < WriteBound
    /\ accepted' = accepted + 1
    /\ immediates' = immediates \cup {accepted + 1}
    /\ \E ok \in BOOLEAN : Write(<<accepted + 1>>, ok)
    /\ UNCHANGED <<transportVars, queueVars, readVars, readerVars, sendBuffer, flushPc, closeVars>>

AppFlush ==
    /\ \E ok \in BOOLEAN : Flush(ok)
    /\ UNCHANGED <<transportVars, queueVars, readVars, readerVars, flushPc, closeVars>>

\* Mutant: the flush loop goes round once.
NoNextRound == "done"

NextRound == IF closed THEN "done" ELSE "sleeping"

\* The sleep is over.  A failed flush ends the loop; TCP goes on to drain().
FlushWakes ==
    /\ flushPc = "sleeping"
    /\ \/ /\ sendBuffer = <<>>
          /\ flushPc' = NextRound
          /\ UNCHANGED writeVars
       \/ \E ok \in BOOLEAN :
            /\ Flush(ok)
            /\ flushPc' = IF ~ok THEN "done"
                          ELSE IF transport = "TCP" THEN "draining" ELSE NextRound
    /\ UNCHANGED <<transportVars, queueVars, readVars, readerVars, closeVars>>

\* Mutant: the buffer is emptied after the drain.
FlushDrainedClears ==
    /\ flushPc = "draining"
    /\ flushPc' = NextRound
    /\ sendBuffer' = <<>>
    /\ UNCHANGED <<transportVars, queueVars, readVars, readerVars, accepted, immediates, sent, lost,
                   fails, closeVars>>

FlushDrained ==
    /\ flushPc = "draining"
    /\ \/ flushPc' = NextRound
       \/ ended /\ flushPc' = "done"          \* drain() raises
    /\ UNCHANGED <<transportVars, queueVars, readVars, readerVars, writeVars, closeVars>>

FlushLoop ==
    /\ closePc \in {"open", "flushing"}      \* later it has been cancelled
    /\ FlushWakes \/ FlushDrained

-----------------------------------------------------------------------------
(* close().                                                                *)

\* Mutant: close() does not flush.
CloseUnflushed ==
    /\ ~closed
    /\ closed' = TRUE /\ closeEvent' = TRUE /\ owed' = accepted
    /\ closePc' = "stopFlush"
    /\ UNCHANGED <<transportVars, queueVars, readVars, readerVars, writeVars, flushPc>>

Close ==
    /\ ~closed
    /\ closed' = TRUE /\ closeEvent' = TRUE /\ owed' = accepted
    /\ \/ sendBuffer = <<>> /\ closePc' = "stopFlush" /\ UNCHANGED writeVars
       \/ \E ok \in BOOLEAN :
            /\ Flush(ok)
            /\ closePc' = IF ok /\ transport = "TCP" THEN "flushing" ELSE "stopFlush"
    /\ UNCHANGED <<transportVars, queueVars, readVars, readerVars, flushPc>>

CloseDrained ==
    /\ closePc = "flushing"
    /\ closePc' = "stopFlush"
    /\ UNCHANGED <<transportVars, queueVars, readVars, readerVars, writeVars, flushPc, closed,
                   closeEvent, owed>>

\* The cancelled flush loop ends.
StopFlushing ==
    /\ closePc = "stopFlush"
    /\ flushPc' = "done" /\ closePc' = "stopRead"
    /\ UNCHANGED <<transportVars, queueVars, readVars, readerVars, writeVars, closed, closeEvent,
                   owed>>

\* Mutant: close() awaits the read loop without cancelling it.
StopReadingAwaits ==
    /\ closePc = "stopRead" /\ readPc = "done"
    /\ closePc' = "closed"
    /\ UNCHANGED <<transportVars, queueVars, readVars, readerVars, writeVars, flushPc, closed,
                   closeEvent, owed>>

\* The cancelled read loop ends, with what it had still to put, and the
\* transport is closed.
StopReading ==
    /\ closePc = "stopRead"
    /\ readPc' = "done" /\ rest' = <<>>
    /\ closePc' = "closed"
    /\ UNCHANGED <<transportVars, queueVars, readerVars, writeVars, flushPc, closed, closeEvent,
                   owed>>

CloseGoesOn == CloseDrained \/ StopFlushing \/ StopReading

-----------------------------------------------------------------------------

Reader == ReadPacket \/ ReadAnswered \/ ReadCut \/ CancelRead \/ \E t \in GetTask : GetRuns(t)
Writer == WritePacket \/ WritePacketImmediate \/ AppFlush \/ FlushLoop

Next ==
    \/ ReadLoop
    \/ /\ readPc # "running"
       /\ Arrive \/ PeerEnds \/ Reader \/ Writer \/ Close \/ CloseGoesOn

Spec == Init /\ [][Next]_vars

\* The event loop runs every task that can run.  The application need not do
\* anything, and nothing need happen at the peer.
Fairness ==
    /\ WF_vars(ReadLoop)
    /\ WF_vars(readPc # "running" /\ FlushLoop)
    /\ WF_vars(readPc # "running" /\ CloseGoesOn)
    /\ WF_vars(readPc # "running" /\ (ReadAnswered \/ ReadCut))
    /\ \A t \in GetTask : WF_vars(readPc # "running" /\ GetRuns(t))

FairSpec == Spec /\ Fairness

-----------------------------------------------------------------------------
(* Properties.                                                             *)

Increasing(s) == \A i, j \in DOMAIN s : i < j => s[i] < s[j]

\* Whatever is cancelled, cut short or woken in whatever order, read_packet
\* returns packets in the order in which they arrived, none of them twice.
ReadInOrder == Increasing(got)

\* What the application is promised: reading and writing, whatever the four tasks do and whatever
\* fails, are those of a stream of packets.  Over RakNet the end may come with packets still held.
Stream == INSTANCE PacketStream WITH
    over <- ended, short <- (ended /\ transport = "RakNet"), gone <- swallowed, givenUp <- cancels,
    raised <- told, atOnce <- immediates, failed <- lost
ImplementsStream == Stream!Spec

\* The read loop has nothing that it could do.
LoopSuspended ==
    \/ readPc = "waiting" /\ inbox = <<>> /\ ~EndWakes
    \/ readPc = "putting" /\ Len(recvQueue) = QueueSize
    \/ readPc = "done"

\* When a read_packet waits and no task on its way to it can run any more, it waits for
\* news: every packet that arrived has been handed to a reader, nobody has closed, and the
\* peer has not ended, over RakNet apart.  No wake-up is lost, whatever reads are cancelled,
\* and the full queue and the reader never wait for each other.
WaitsForNews ==
    getTask # 0 /\ answer = <<>> /\ woken = {} /\ ~closeEvent /\ LoopSuspended =>
        /\ Range(got) \cup swallowed = 1 .. arrived
        /\ ~closed /\ (ended => transport = "RakNet")

\* read_packet: "Read the next packet."  No packet is passed over.
ReadsNext == \A i \in DOMAIN got : got[i] = i

\* A packet is passed over only when the task of a cancelled read has taken it, and each takes
\* one at most: the close event, which cuts a read short while its task may have a packet,
\* loses none.
OnlyCancelsSkip ==
    /\ \A i \in DOMAIN got : 1 .. got[i] \subseteq Range(got) \cup swallowed
    /\ Cardinality(swallowed) <= cancels

\* When read_packet has raised although the application did not close, every
\* packet that arrived has been taken from the queue before: the end overtakes
\* nothing on the way through the transport, the read loop and the queue.
\* RakNet alone raises before it has handed over what it holds.
ErrorComesLast ==
    told /\ ~closed /\ transport # "RakNet" =>
        Range(got) \cup swallowed = 1 .. arrived

\* On the wire the packets of write_packet follow each other in the order of the
\* calls, once each, whoever flushes them: the application, the flush loop or
\* close().  Only write_packet_immediate overtakes.
OnlyImmediateOvertakes ==
    \A i, j \in DOMAIN sent : i < j => \/ sent[i] < sent[j]
                                       \/ sent[i] \in immediates /\ sent[i] # sent[j]

\* close() "Flush remaining packets": what was accepted before it is on the wire
\* when it returns, if no write has failed, although it cancels a flush loop that
\* may be in the middle of a flush.
CloseFlushes ==
    closePc = "closed" /\ ~ended /\ fails = 0 => (1 .. owed) \subseteq Range(sent)

\* Between the call that accepts a packet and the wire it is always in the buffer,
\* unless it was in a batch whose write failed: what is written while another task
\* flushes, closes or waits for a drain does not vanish.
NothingVanishes == 1 .. accepted = Range(sent) \cup Range(sendBuffer) \cup lost

\* close() returns, whatever its two tasks are waiting for.
CloseReturns == closed ~> closePc = "closed"

\* A read_packet that waits ends when a packet is queued, when the application
\* closes, and, with a transport that wakes the read loop, when the peer does.  The
\* task of a cancelled read may take the packet instead.
ReaderWoken ==
    (getTask # 0 /\ (recvQueue # <<>> \/ closed \/ (ended /\ transport # "RakNet")))
        ~> (getTask = 0 \/ cancels > 0)

\* _read_loop: "Signal EOF to readers so they don't hang forever."  Whatever the
\* transport, a read_packet that waits does not outlive the connection.
EndWakesReader == (getTask # 0 /\ ended) ~> (getTask = 0)

\* write_packet: "It will be flushed automatically", as long as neither end closes and no
\* batch is too large: the flush loop ends with a write that fails.
FlushedAutomatically == sendBuffer # <<>> ~> (sendBuffer = <<>> \/ closed \/ ended \/ fails > 0)

-----------------------------------------------------------------------------
(* The inductive invariants of the proofs.                                 *)

Precede(S, T) == \A x \in S, y \in T : x < y

\* The packets on their way to the application, stage by stage, keep the order of
\* arrival: what read_packet has returned, what its task holds, the queue, the
\* rest of the batch, and the batches.
StagesInOrder ==
    /\ Increasing(got) /\ Increasing(recvQueue) /\ Increasing(rest)
    /\ Len(answer) < 2 /\ (getTask = 0 => answer = <<>>)
    /\ Precede(Range(got), Range(answer) \cup Range(recvQueue) \cup Range(rest))
    /\ Precede(Range(answer), Range(recvQueue) \cup Range(rest))
    /\ Precede(Range(recvQueue), Range(rest))

Ahead == Range(got) \cup Range(answer) \cup Range(recvQueue) \cup Range(rest)

BatchesInOrder ==
    \A i \in DOMAIN inbox :
       /\ Increasing(inbox[i])
       /\ Range(inbox[i]) \subseteq 1 .. arrived
       /\ Precede(Ahead, Range(inbox[i]))
       /\ \A j \in DOMAIN inbox : i < j => Precede(Range(inbox[i]), Range(inbox[j]))

InboundInv == StagesInOrder /\ Ahead \subseteq 1 .. arrived /\ BatchesInOrder

\* The packets on their way to the wire: only an immediate one is ahead of a
\* buffered one that was accepted before it, and each is in one place.
OutboundInv ==
    /\ immediates \subseteq 1 .. accepted
    /\ Range(sent) \subseteq 1 .. accepted /\ Range(sendBuffer) \subseteq 1 .. accepted
    /\ Increasing(sendBuffer)
    /\ \A x \in Range(sent), y \in Range(sendBuffer) : x # y /\ (x < y \/ x \in immediates)
    /\ OnlyImmediateOvertakes
    /\ NothingVanishes
=============================================================================
