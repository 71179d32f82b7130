---------------------------- MODULE NetherNetConn ----------------------------
(***************************************************************************)
(* A connection over the reliable data channel of NetherNet                *)
(* (nethernet/conn.py, and LdcNetherNetConn in nethernet/ldc_network.py):  *)
(* packets are cut into segments that carry the number of those to come,   *)
(* and joined again.  One direction: this end writes, the far end reads.   *)
(*                                                                         *)
(* With aiortc the handlers of the channel run in the event loop.  With    *)
(* libdatachannel they run in a thread of the library: they set _closed at *)
(* once and hand packets and the end to the loop with                      *)
(* call_soon_threadsafe; and the channel may close between two segments.   *)
(***************************************************************************)
EXTENDS Integers, Sequences, SequencesExt

CONSTANTS
    MAX_MESSAGE_SIZE,  \* bytes of a segment
    MAX_SEGMENTS,      \* segments of a packet
    PacketBound        \* packets written

ASSUME SizesAssumption == MAX_MESSAGE_SIZE \in Nat \ {0} /\ MAX_SEGMENTS \in Nat \ {0}
ASSUME PacketBoundAssumption == PacketBound \in Nat

VARIABLES
    threads,    \* libdatachannel calls back from a thread
    channel,    \* the data channel
    written,    \* the sizes of the packets write_packet has taken
    wire,       \* segments in the channel
    recvBuf,    \* _recv_buf: the segments of a packet that is not complete
    expected,   \* _expected_remaining, -1 for None
    calls,      \* what call_soon_threadsafe has been given
    packets,    \* _packets
    closed,     \* _closed of each end
    got,        \* what read_packet has returned at the far end
    reader      \* the far end reads until read_packet raises

buffers == <<recvBuf, expected, calls, packets>>
connVars == <<threads, channel, written, wire, buffers, closed, got, reader>>

End == {"near", "far"}
EOF == <<>>

\* A segment: the packet it belongs to, its place there, and the byte before it.
Segment == [of : Nat, place : Nat, size : Nat, remaining : Nat]

ConnInit ==
    /\ threads \in BOOLEAN /\ channel = "open"
    /\ written = <<>> /\ wire = <<>> /\ got = <<>>
    /\ recvBuf = <<>> /\ expected = -1 /\ calls = <<>> /\ packets = <<>>
    /\ closed = [e \in End |-> FALSE] /\ reader = "reading"

-----------------------------------------------------------------------------

\* Mutant: a last segment that is not full is not counted.
SegmentsRoundedDown(size) ==
    IF size < MAX_MESSAGE_SIZE THEN 1 ELSE size \div MAX_MESSAGE_SIZE
Segments(size) == IF size = 0 THEN 1 ELSE (size + MAX_MESSAGE_SIZE - 1) \div MAX_MESSAGE_SIZE
SegmentSize(size, place) ==
    IF place * MAX_MESSAGE_SIZE <= size THEN MAX_MESSAGE_SIZE ELSE size % MAX_MESSAGE_SIZE

\* The segments of write_packet; an empty packet is a segment with nothing in it.
Cut(of, size) ==
    [i \in 1..Segments(size) |->
        [of |-> of, place |-> i, size |-> SegmentSize(size, i), remaining |-> Segments(size) - i]]

Sizes == 0..(MAX_MESSAGE_SIZE * MAX_SEGMENTS + 1)

\* write_packet: a packet of too many segments, and any packet on a closed
\* connection or channel, is refused whole.
Write ==
    /\ Len(written) < PacketBound
    /\ ~closed["near"] /\ channel = "open"
    /\ \E size \in Sizes :
          /\ Segments(size) <= MAX_SEGMENTS
          /\ written' = Append(written, size)
          /\ wire' = wire \o Cut(Len(written) + 1, size)
    /\ UNCHANGED <<threads, channel, buffers, closed, got, reader>>

\* The channel closes under write_packet: send raises for the rest of the segments.
WriteCutShort ==
    /\ threads /\ Len(written) < PacketBound
    /\ ~closed["near"] /\ channel = "open"
    /\ \E size \in Sizes, sent \in 1..MAX_SEGMENTS :
          /\ sent < Segments(size) /\ Segments(size) <= MAX_SEGMENTS
          /\ wire' = wire \o SubSeq(Cut(Len(written) + 1, size), 1, sent)
          /\ written' = Append(written, size)
    /\ channel' = "closing"
    /\ UNCHANGED <<threads, buffers, closed, got, reader>>

\* Puts a packet, or the end, where the reader waits.
Put(item) ==
    IF threads THEN calls' = Append(calls, item) /\ UNCHANGED packets
    ELSE packets' = Append(packets, item) /\ UNCHANGED calls

Forget == recvBuf' = <<>> /\ expected' = -1

\* _on_message: a segment out of order costs the packet it was to complete and itself.
OnMessage ==
    /\ wire # <<>> /\ channel # "closed"
    /\ wire' = Tail(wire)
    /\ LET s == Head(wire) IN
       IF s.size = 0 THEN UNCHANGED buffers
       ELSE IF expected # -1 /\ s.remaining # expected - 1
       THEN Forget /\ UNCHANGED <<calls, packets>>
       ELSE IF s.remaining = 0 THEN Forget /\ Put(Append(recvBuf, s))
       ELSE /\ recvBuf' = Append(recvBuf, s) /\ expected' = s.remaining
            /\ UNCHANGED <<calls, packets>>
    /\ UNCHANGED <<threads, channel, written, closed, got, reader>>

RunCall ==
    /\ calls # <<>>
    /\ packets' = Append(packets, Head(calls)) /\ calls' = Tail(calls)
    /\ UNCHANGED <<threads, channel, written, wire, recvBuf, expected, closed, got, reader>>

\* close(): the channel is closed in order, after what is in it.
Close(e) ==
    /\ closed' = [closed EXCEPT ![e] = TRUE]
    /\ channel' = IF ~closed[e] /\ channel = "open" THEN "closing" ELSE channel
    /\ UNCHANGED <<threads, written, wire, buffers, got, reader>>

\* The network goes away, with what is in the channel.
Lost ==
    /\ channel # "closed" /\ channel' = "lost"
    /\ wire' = <<>>
    /\ UNCHANGED <<threads, written, buffers, closed, got, reader>>

\* Mutant: the end goes to the queue at once, past what the loop was given.
OnCloseAtOnce ==
    /\ channel = "lost" \/ (channel = "closing" /\ wire = <<>>)
    /\ channel' = "closed"
    /\ closed' = [e \in End |-> TRUE]
    /\ packets' = Append(packets, EOF)
    /\ UNCHANGED <<threads, written, wire, recvBuf, expected, calls, got, reader>>

\* Mutant: nothing is put where the reader waits.
OnCloseSilently ==
    /\ channel = "lost" \/ (channel = "closing" /\ wire = <<>>)
    /\ channel' = "closed"
    /\ closed' = [e \in End |-> TRUE]
    /\ UNCHANGED <<threads, written, wire, buffers, got, reader>>

\* _on_dc_close: both ends are told.
OnClose ==
    /\ channel = "lost" \/ (channel = "closing" /\ wire = <<>>)
    /\ channel' = "closed"
    /\ closed' = [e \in End |-> TRUE]
    /\ Put(EOF)
    /\ UNCHANGED <<threads, written, wire, recvBuf, expected, got, reader>>

\* read_packet: the end raises.
ReadPacket ==
    /\ reader = "reading" /\ packets # <<>>
    /\ packets' = Tail(packets)
    /\ IF Head(packets) = EOF /\ closed["far"]
       THEN reader' = "raised" /\ UNCHANGED got
       ELSE got' = Append(got, Head(packets)) /\ UNCHANGED reader
    /\ UNCHANGED <<threads, channel, written, wire, recvBuf, expected, calls, closed>>

ConnNext ==
    \/ Write \/ WriteCutShort \/ OnMessage \/ RunCall \/ Lost \/ OnClose \/ ReadPacket
    \/ \E e \in End : Close(e)

-----------------------------------------------------------------------------
(* Properties.                                                             *)

\* Types of the variables.
ConnTypeOK ==
    /\ threads \in BOOLEAN /\ channel \in {"open", "closing", "lost", "closed"}
    /\ written \in Seq(Sizes) /\ wire \in Seq(Segment)
    /\ recvBuf \in Seq(Segment) /\ expected \in (-1)..(MAX_SEGMENTS - 1)
    /\ calls \in Seq(Seq(Segment)) /\ packets \in Seq(Seq(Segment)) /\ got \in Seq(Seq(Segment))
    /\ closed \in [End -> BOOLEAN] /\ reader \in {"reading", "raised"}

\* The numbers of the packets up to the n-th that can be read: an empty one is a segment of
\* one byte, which _on_message drops.
Readable(n) == {k \in 1..n : written[k] > 0}

Number(p) == p[1].of

\* All the segments of the n-th packet, in their places, with all of its bytes.
IsWhole(p, n) ==
    /\ \A i \in DOMAIN p : p[i].of = n /\ p[i].place = i
    /\ written[n] = MAX_MESSAGE_SIZE * (Len(p) - 1) + Last(p).size

\* While the channel is open and nothing is in it, on its way to the loop or in _packets, all
\* that was written has been read, and nothing of it is left in _recv_buf.
QuietIsRead ==
    channel = "open" /\ wire = <<>> /\ calls = <<>> /\ packets = <<>> =>
        recvBuf = <<>> /\ {Number(got[i]) : i \in DOMAIN got} = Readable(Len(written))

\* What is read is what was written, packet by packet and byte by byte, up to where the
\* channel ended: no packet is joined from parts of two and none is left out or read twice,
\* whoever closes when; and nothing stays behind.
ReadAsWritten ==
    /\ \A i \in DOMAIN got :
          LET n == Number(got[i]) IN
          /\ IsWhole(got[i], n)
          /\ {Number(got[j]) : j \in 1..i} = Readable(n)
          /\ \A j \in 1..(i - 1) : Number(got[j]) < n
    /\ QuietIsRead

\* A reader that gets the error has had every packet that arrived whole before it: also
\* when a thread has set _closed before the loop runs what the thread gave it.
ErrorAfterPackets == reader = "raised" => calls = <<>> /\ packets = <<>>
=============================================================================
