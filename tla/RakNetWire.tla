----------------------------- MODULE RakNetWire -----------------------------
(***************************************************************************)
(* Datagrams of RakNet (raknet/protocol.py): frames and frame sets, the    *)
(* ranges of an ACK or NACK, IPv4 addresses.  The flags of a frame are one *)
(* byte of the code, a record here.                                        *)
(***************************************************************************)
EXTENDS PacketIO

RELIABLE_TYPES == {2, 3, 4, 6, 7}
ORDERED_TYPES == {1, 3, 4, 7}
SEQUENCED_TYPES == {1, 4}

\* write_uint24le, read_uint24le
U24(v) == LittleEndian(3, v)
ReadU24(s) == ReadUnsigned(3, s)
ReadBE(n, s) == ReadFixed(n, s, LAMBDA b : Unsigned(Reverse(b)))

\* A field that is there, or is not and counts as 0.
Only(cond, bytes) == IF cond THEN bytes ELSE <<>>
ReadIf(cond, s, Field(_)) == IF cond THEN Field(s) ELSE Read(0, s)

\* Frame.encode: the length is in bits.
EncodeFrame(f) ==
    <<[reliability |-> f.reliability, fragmented |-> f.fragmented]>>
    \o BigEndian(2, Len(f.body) * ByteBits)
    \o Only(f.reliability \in RELIABLE_TYPES, U24(f.reliable_index))
    \o Only(f.reliability \in SEQUENCED_TYPES, U24(f.sequenced_index))
    \o Only(f.reliability \in ORDERED_TYPES, U24(f.ordered_index) \o <<f.order_channel>>)
    \o Only(f.fragmented, BigEndian(4, f.compound_size) \o BigEndian(2, f.compound_id)
                          \o BigEndian(4, f.fragment_index))
    \o f.body

\* Frame.decode: one field after the other.
DecodeFrame(s) ==
    LET flags == Head(s)
        r == flags.reliability
        bits == ReadBE(2, Tail(s))
        reliable == ReadIf(r \in RELIABLE_TYPES, bits.rest, ReadU24)
        sequenced == ReadIf(r \in SEQUENCED_TYPES, reliable.rest, ReadU24)
        ordered == ReadIf(r \in ORDERED_TYPES, sequenced.rest, ReadU24)
        channel == ReadIf(r \in ORDERED_TYPES, ordered.rest, LAMBDA t : ReadUnsigned(1, t))
        size == ReadIf(flags.fragmented, channel.rest, LAMBDA t : ReadBE(4, t))
        id == ReadIf(flags.fragmented, size.rest, LAMBDA t : ReadBE(2, t))
        index == ReadIf(flags.fragmented, id.rest, LAMBDA t : ReadBE(4, t))
        n == (bits.v + ByteBits - 1) \div ByteBits
    IN Read([reliability |-> r, fragmented |-> flags.fragmented, reliable_index |-> reliable.v,
             sequenced_index |-> sequenced.v, ordered_index |-> ordered.v,
             order_channel |-> channel.v, compound_size |-> size.v, compound_id |-> id.v,
             fragment_index |-> index.v, body |-> SubSeq(index.rest, 1, n)],
            Drop(index.rest, n))

\* encode_frame_set, decode_frame_set: frames up to the end of the datagram.
EncodeFrameSet(number, frames) ==
    U24(number) \o FlattenSeq([i \in DOMAIN frames |-> EncodeFrame(frames[i])])
DecodeFrameSet(s) ==
    LET number == ReadU24(s)
        After[i \in 0..Len(s)] ==
            IF i = 0 THEN Read(<<>>, number.rest)
            ELSE LET sofar == After[i - 1] IN
                 IF sofar.rest = <<>> THEN sofar
                 ELSE LET f == DecodeFrame(sofar.rest) IN Read(Append(sofar.v, f.v), f.rest)
    IN [number |-> number.v, frames |-> After[Len(s)].v]

-----------------------------------------------------------------------------
(* ACK and NACK.                                                           *)

\* Mutant: the last range is not added.
RangesUnfinished(numbers) ==
    FoldLeft(LAMBDA a, n : IF n = a.end + 1 THEN [a EXCEPT !.end = n]
                           ELSE [done |-> Append(a.done, <<a.start, a.end>>), start |-> n, end |-> n],
             [done |-> <<>>, start |-> Head(numbers), end |-> Head(numbers)], Tail(numbers)).done

\* sorted
Ascending(S) ==
    FoldSet(LAMBDA n, s : SelectSeq(s, LAMBDA k : k < n) \o <<n>> \o SelectSeq(s, LAMBDA k : k > n), <<>>, S)

\* Runs of numbers, in order, as pairs of the first and the last.
Ranges(numbers) ==
    LET a == FoldLeft(LAMBDA b, n :
                 IF n = b.end + 1 THEN [b EXCEPT !.end = n]
                 ELSE [done |-> Append(b.done, <<b.start, b.end>>), start |-> n, end |-> n],
                 [done |-> <<>>, start |-> Head(numbers), end |-> Head(numbers)], Tail(numbers))
    IN Append(a.done, <<a.start, a.end>>)

\* _encode_ack_nack
EncodeAck(S) ==
    IF S = {} THEN BigEndian(2, 0)
    ELSE LET ranges == Ranges(Ascending(S)) IN
         BigEndian(2, Len(ranges))
         \o FlattenSeq([i \in DOMAIN ranges |->
                IF ranges[i][1] = ranges[i][2] THEN <<1>> \o U24(ranges[i][1])
                ELSE <<0>> \o U24(ranges[i][1]) \o U24(ranges[i][2])])

\* decode_ack_nack
DecodeAck(s) ==
    LET Item(t) ==
            IF Head(t) = 1
            THEN Then(ReadU24(Tail(t)), LAMBDA n, rest : Read(<<n>>, rest))
            ELSE Then(ReadU24(Tail(t)), LAMBDA a, rest :
                      Then(ReadU24(rest), LAMBDA b, more : Read([i \in 1..(b - a + 1) |-> a + i - 1], more)))
    IN Then(ReadBE(2, s), LAMBDA n, rest :
            Then(ReadTimes(n, rest, Item), LAMBDA parts, more : Read(FlattenSeq(parts), more)))

-----------------------------------------------------------------------------
(* Addresses: the bytes of an IPv4 address inverted, then the port; an    *)
(* IPv6 address, which is only read, is a sockaddr_in6.                    *)

WriteAddress(host, port) == <<4>> \o [i \in 1..4 |-> Byte - 1 - host[i]] \o BigEndian(2, port)

\* The IPv4 address, then the port.
ReadIPv4(s) ==
    Then(ReadFixed(4, s, LAMBDA b : [i \in 1..4 |-> Byte - 1 - b[i]]), LAMBDA host, rest :
         Then(ReadBE(2, rest), LAMBDA port, more : Read([host |-> host, port |-> port], more)))

\* The family, the port, the flow, the IPv6 address, the scope: which may be cut off.
ReadIPv6(s) ==
    Then(ReadBE(2, Drop(s, 2)), LAMBDA port, rest :
         Then(ReadFixed(16, Drop(rest, 4), LAMBDA b : b), LAMBDA host, more :
              Read([host |-> host, port |-> port], Drop(more, 4))))

\* read_address
ReadAddress(s) ==
    CASE Head(s) = 4 -> ReadIPv4(Tail(s)) [] Head(s) = 6 -> ReadIPv6(Tail(s)) [] OTHER -> Error
=============================================================================
