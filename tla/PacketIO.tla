------------------------------ MODULE PacketIO ------------------------------
(***************************************************************************)
(* The reader and writer of packet fields (proto/io.py, proto/types.py),   *)
(* and the copies of its varints in proto/pool.py, nbt/encoding.py and     *)
(* chunk.py.  A byte is a number below Byte, a stream a sequence of them.  *)
(* The widths are parameters: bytes of 8 bits, of which a varint uses 7,   *)
(* ints of 4 and longs of 8 bytes in the code.                             *)
(*                                                                         *)
(* A read is [v |-> the value, rest |-> what follows], or Error.           *)
(***************************************************************************)
EXTENDS Integers, Sequences, SequencesExt, FiniteSetsExt

CONSTANTS
    ByteBits,   \* bits of a byte
    IntBytes,   \* bytes of an int
    LongBytes   \* bytes of a long

ASSUME WidthsAssumption ==
    /\ ByteBits \in Nat /\ ByteBits > 1
    /\ IntBytes \in Nat /\ IntBytes > 2 /\ LongBytes \in Nat /\ LongBytes >= IntBytes

Byte == 2 ^ ByteBits
Group == 2 ^ (ByteBits - 1)
IntLimit == Byte ^ IntBytes
LongLimit == Byte ^ LongBytes

\* Groups in the longest varint of so many bytes: 5 for an int, 10 for a long.
Groups(bytes) == (bytes * ByteBits + ByteBits - 2) \div (ByteBits - 1)

Error == [error |-> TRUE]
Failed(r) == "error" \in DOMAIN r
Read(v, rest) == [v |-> v, rest |-> rest]
Drop(s, n) == SubSeq(s, n + 1, Len(s))

\* Reads one value and then, from the rest, the next.
Then(r, Next(_, _)) == IF Failed(r) THEN Error ELSE Next(r.v, r.rest)

-----------------------------------------------------------------------------
(* Numbers.                                                                *)

\* struct "<": the low byte first; of a negative number its two's complement.
LittleEndian(n, v) == [i \in 1..n |-> ((v % (Byte ^ n)) \div (Byte ^ (i - 1))) % Byte]
BigEndian(n, v) == Reverse(LittleEndian(n, v))

Unsigned(bytes) == FoldLeftDomain(LAMBDA sum, i : sum + (bytes[i] * Byte ^ (i - 1)), 0, bytes)
Signed(bytes) ==
    LET u == Unsigned(bytes) limit == Byte ^ Len(bytes) IN IF 2 * u < limit THEN u ELSE u - limit

ReadFixed(n, s, Value(_)) == IF Len(s) < n THEN Error ELSE Read(Value(SubSeq(s, 1, n)), Drop(s, n))
ReadUnsigned(n, s) == ReadFixed(n, s, Unsigned)
ReadSigned(n, s) == ReadFixed(n, s, Signed)
ReadSignedBE(n, s) == ReadFixed(n, s, LAMBDA b : Signed(Reverse(b)))

\* varuint32, varuint64: groups of low bits first, all but the last with the high bit set.
VarUint[v \in Nat] ==
    IF v < Group THEN <<v>> ELSE <<Group + (v % Group)>> \o VarUint[v \div Group]

\* The readers of proto/io.py and chunk._read_varint32 take the value modulo 2^32, those of
\* proto/pool.py, nbt/encoding.py, chunk._nle_read_varuint32 and every long reader do not.
ReadVarUint(bytes, s) ==
    LET ends == {i \in DOMAIN s : i <= Groups(bytes) /\ s[i] < Group} IN
    IF ends = {} THEN Error
    ELSE Read(FoldLeftDomain(LAMBDA sum, i : sum + ((s[i] % Group) * Group ^ (i - 1)), 0,
                             SubSeq(s, 1, Min(ends))),
              Drop(s, Min(ends)))
ReadVarUint32(s) == Then(ReadVarUint(IntBytes, s), LAMBDA u, rest : Read(u % IntLimit, rest))

\* Mutant: a negative number is its absolute value.
ZigzagAbsolute(v) == IF v >= 0 THEN 2 * v ELSE -(2 * v)

\* Zigzag: (v << 1) ^ (v >> 31), and back; a number beyond the range of an int is brought
\* back by 2^32, once.
Zigzag(v) == IF v >= 0 THEN 2 * v ELSE -(2 * v) - 1
Unzigzag(u) == IF u % 2 = 0 THEN u \div 2 ELSE -(u \div 2) - 1
ToInt32(x) == IF 2 * x >= IntLimit THEN x - IntLimit ELSE x

VarInt(limit, v) == VarUint[Zigzag(v) % limit]
ReadVarInt32(s) == Then(ReadVarUint32(s), LAMBDA u, rest : Read(ToInt32(Unzigzag(u)), rest))
\* _NetworkLittleEndian.read_int32, chunk._nle_read_zigzag32.
ReadNbtVarInt32(s) ==
    Then(ReadVarUint(IntBytes, s), LAMBDA u, rest : Read(ToInt32(Unzigzag(u)), rest))
ReadVarInt64(s) == Then(ReadVarUint(LongBytes, s), LAMBDA u, rest : Read(Unzigzag(u), rest))

-----------------------------------------------------------------------------
(* Strings, slices and optional values.                                    *)

\* So many bytes, or EOFError.
ReadBytes(r) == Then(r, LAMBDA n, s : IF Len(s) < n THEN Error ELSE Read(SubSeq(s, 1, n), Drop(s, n)))

\* string, byte_slice: a varint and the bytes; string_utf: an int16.
Prefixed(b) == VarUint[Len(b)] \o b
ReadString(s) ==
    LET n == ReadVarUint32(s) IN
    IF ~Failed(n) /\ 2 * n.v >= IntLimit THEN Error ELSE ReadBytes(n)
ReadByteSlice(s) == ReadBytes(ReadVarUint32(s))
ReadStringUtf(s) ==
    LET n == ReadSigned(2, s) IN IF ~Failed(n) /\ n.v < 0 THEN Error ELSE ReadBytes(n)

\* One of the four counts of slices.
CountKind == {"varuint32", "uint8", "uint16", "uint32"}
WriteCount(kind, n) ==
    CASE kind = "varuint32" -> VarUint[n] [] kind = "uint8" -> LittleEndian(1, n)
      [] kind = "uint16" -> LittleEndian(2, n) [] kind = "uint32" -> LittleEndian(IntBytes, n)
ReadCount(kind, s) ==
    CASE kind = "varuint32" -> ReadVarUint32(s) [] kind = "uint8" -> ReadUnsigned(1, s)
      [] kind = "uint16" -> ReadUnsigned(2, s) [] kind = "uint32" -> ReadUnsigned(IntBytes, s)

\* n values, one after the other.
ReadTimes(n, s, Item(_)) ==
    LET After[i \in 0..n] ==
            IF i = 0 THEN Read(<<>>, s)
            ELSE Then(After[i - 1], LAMBDA v, rest :
                 Then(Item(rest), LAMBDA x, more : Read(Append(v, x), more)))
    IN After[n]

WriteSlice(kind, items, Item(_)) ==
    WriteCount(kind, Len(items)) \o FlattenSeq([i \in DOMAIN items |-> Item(items[i])])
ReadSlice(kind, s, Item(_)) == Then(ReadCount(kind, s), LAMBDA n, rest : ReadTimes(n, rest, Item))

\* None is the empty sequence, a value a sequence of one.
WriteOptional(o, Item(_)) == IF o = <<>> THEN <<0>> ELSE <<1>> \o Item(o[1])
ReadOptional(s, Item(_)) ==
    Then(ReadUnsigned(1, s), LAMBDA b, rest :
         IF b = 0 THEN Read(<<>>, rest)
         ELSE Then(Item(rest), LAMBDA x, more : Read(<<x>>, more)))

\* TCPConnection of network.py: the length in front of a packet.
TcpPacket(b) == BigEndian(IntBytes, Len(b)) \o b
ReadTcpPacket(s) == ReadBytes(ReadFixed(IntBytes, s, LAMBDA b : Unsigned(Reverse(b))))

-----------------------------------------------------------------------------
(* Types of the game.                                                      *)

\* block_pos, sub_chunk_pos, chunk_pos: varints.
WritePos(p) == FlattenSeq([i \in DOMAIN p |-> VarInt(IntLimit, p[i])])
ReadPos(n, s) == ReadTimes(n, s, ReadVarInt32)

\* uuid: the bytes of each half in reverse.
HalvesReversed(b) ==
    LET h == Len(b) \div 2 IN Reverse(SubSeq(b, 1, h)) \o Reverse(Drop(b, h))

\* Colours, as <<r, g, b, a>>: rgba, var_rgba, argb and be_argb put the channels into an int.
ToUint32(c) == Unsigned(c)
FromUint32(v) == LittleEndian(4, v)
AlphaFirst(c) == LET v == Unsigned(<<c[4], c[1], c[2], c[3]>>) IN
    IF 2 * v < IntLimit THEN v ELSE v - IntLimit
FromAlphaFirst(v) == LET b == LittleEndian(4, v) IN <<b[2], b[3], b[4], b[1]>>
=============================================================================
