------------------------------- MODULE Codecs -------------------------------
(***************************************************************************)
(* What the readers and writers of mcbe promise, over bounded inputs: each *)
(* step hands one of them an input that it can meet.                       *)
(***************************************************************************)
EXTENDS PacketBatch, RakNetWire, Chunk, PacketLayouts, ServerQuery, Formatting, ResourcePack

CONSTANT Blocks \* Blocks[b]: the [name, states] of block b, 0 is air

ASSUME BlocksAssumption == 0 \in DOMAIN Blocks /\ Blocks[0].name = AIR

VARIABLE job    \* what is read or written

Idle == [codec |-> "idle"]
Init == job = Idle

\* What follows in the stream.
Rests == {<<>>, <<Byte - 1, 0>>}

-----------------------------------------------------------------------------
(* Fields of packets.                                                      *)

Edge(limit) == {-(limit \div 2), -(limit \div 2) + 1, -Group, -1, 0, 1, Group - 1, Group, (limit \div 2) - 1}
UnsignedEdge(limit) == {0, 1, Group - 1, Group, limit \div 2, limit - 1}
Bytes == {<<>>, <<0>>, <<1, Byte - 1>>, [i \in 1..Group |-> i]}
Colours == [1..4 -> {0, Group, Byte - 1}]

Kinds == {"uint8", "uint16", "int16", "uint32", "int32", "be_int32", "uint64", "int64", "varuint32",
          "varint32", "varuint64", "varint64", "string", "string_utf", "byte_slice", "uuid", "block_pos",
          "rgba", "argb", "be_argb", "slice", "optional", "tcp"}
Values(kind) ==
    CASE kind = "uint8" -> UnsignedEdge(Byte)
      [] kind = "uint16" -> UnsignedEdge(Byte ^ 2) [] kind = "int16" -> Edge(Byte ^ 2)
      [] kind \in {"uint32", "varuint32"} -> UnsignedEdge(IntLimit)
      [] kind \in {"int32", "be_int32", "varint32"} -> Edge(IntLimit)
      [] kind \in {"uint64", "varuint64"} -> UnsignedEdge(LongLimit)
      [] kind \in {"int64", "varint64"} -> Edge(LongLimit)
      [] kind \in {"string", "string_utf", "byte_slice", "tcp"} -> Bytes
      [] kind = "uuid" -> {[i \in 1..16 |-> i % Byte]}
      [] kind = "block_pos" -> [1..3 -> {-1, 0, Group}]
      [] kind \in {"rgba", "argb", "be_argb"} -> Colours
      [] kind = "slice" -> {[kind |-> k, items |-> s] : k \in CountKind, s \in {<<>>, <<5>>, <<-1, 0, 7>>}}
      [] kind = "optional" -> {<<>>, <<-3>>}

WriteValue(kind, v) ==
    CASE kind = "uint8" -> LittleEndian(1, v)
      [] kind \in {"uint16", "int16"} -> LittleEndian(2, v)
      [] kind \in {"uint32", "int32"} -> LittleEndian(IntBytes, v)
      [] kind = "be_int32" -> BigEndian(IntBytes, v)
      [] kind \in {"uint64", "int64"} -> LittleEndian(LongBytes, v)
      [] kind \in {"varuint32", "varuint64"} -> VarUint[v]
      [] kind = "varint32" -> VarInt(IntLimit, v) [] kind = "varint64" -> VarInt(LongLimit, v)
      [] kind \in {"string", "byte_slice"} -> Prefixed(v)
      [] kind = "string_utf" -> LittleEndian(2, Len(v)) \o v
      [] kind = "uuid" -> HalvesReversed(v)
      [] kind = "block_pos" -> WritePos(v)
      [] kind = "rgba" -> LittleEndian(IntBytes, ToUint32(v))
      [] kind = "argb" -> LittleEndian(IntBytes, AlphaFirst(v))
      [] kind = "be_argb" -> BigEndian(IntBytes, AlphaFirst(v))
      [] kind = "slice" -> WriteSlice(v.kind, v.items, LAMBDA x : VarInt(IntLimit, x))
      [] kind = "optional" -> WriteOptional(v, LAMBDA x : VarInt(IntLimit, x))
      [] kind = "tcp" -> TcpPacket(v)

As(r, Value(_)) == Then(r, LAMBDA v, rest : Read(Value(v), rest))
ReadValue(kind, of, s) ==
    CASE kind = "uint8" -> ReadUnsigned(1, s)
      [] kind = "uint16" -> ReadUnsigned(2, s) [] kind = "int16" -> ReadSigned(2, s)
      [] kind = "uint32" -> ReadUnsigned(IntBytes, s) [] kind = "int32" -> ReadSigned(IntBytes, s)
      [] kind = "be_int32" -> ReadSignedBE(IntBytes, s)
      [] kind = "uint64" -> ReadUnsigned(LongBytes, s) [] kind = "int64" -> ReadSigned(LongBytes, s)
      [] kind = "varuint32" -> ReadVarUint32(s) [] kind = "varint32" -> ReadVarInt32(s)
      [] kind = "varuint64" -> ReadVarUint(LongBytes, s) [] kind = "varint64" -> ReadVarInt64(s)
      [] kind = "string" -> ReadString(s) [] kind = "string_utf" -> ReadStringUtf(s)
      [] kind = "byte_slice" -> ReadByteSlice(s)
      [] kind = "uuid" -> ReadFixed(16, s, HalvesReversed)
      [] kind = "block_pos" -> ReadPos(3, s)
      [] kind = "rgba" -> As(ReadUnsigned(IntBytes, s), FromUint32)
      [] kind = "argb" -> As(ReadSigned(IntBytes, s), FromAlphaFirst)
      [] kind = "be_argb" -> As(ReadSignedBE(IntBytes, s), FromAlphaFirst)
      [] kind = "slice" ->
            As(ReadSlice(of.kind, s, ReadVarInt32), LAMBDA items : [kind |-> of.kind, items |-> items])
      [] kind = "optional" -> ReadOptional(s, ReadVarInt32)
      [] kind = "tcp" -> ReadTcpPacket(s)

Field ==
    \E kind \in Kinds : \E v \in Values(kind), rest \in Rests :
        job' = [codec |-> "field", kind |-> kind, v |-> v, rest |-> rest]

\* A varint that another program wrote: with empty groups at its end, or too long, or cut off.
VarInts ==
    \E s \in UNION {[1..n -> {0, 1, Group - 1, Group, Byte - 1}] : n \in 0..4}, fill \in 0..3 :
        job' = [codec |-> "varint", s |-> [i \in 1..fill |-> Group] \o s]

\* Every field of a packet reads back as it was written, and the next one begins after it.
FieldsReadBack ==
    job.codec = "field" =>
        ReadValue(job.kind, job.v, WriteValue(job.kind, job.v) \o job.rest) = Read(job.v, job.rest)

\* The five readers of varints of 32 bits (two of proto/io.py, and those of proto/pool.py, of
\* nbt/encoding.py and of chunk.py) end at the same byte, and agree on a number of 32 bits.
VarIntReadersAgree ==
    job.codec = "varint" =>
        LET masked == ReadVarUint32(job.s)
            plain == ReadVarUint(IntBytes, job.s)
            packet == ReadVarInt32(job.s)
            nbt == ReadNbtVarInt32(job.s)
        IN /\ Failed(plain) = Failed(masked) /\ Failed(packet) = Failed(masked) /\ Failed(nbt) = Failed(masked)
           /\ ~Failed(masked) =>
                /\ plain.rest = masked.rest /\ packet.rest = masked.rest /\ nbt.rest = masked.rest
                /\ plain.v < IntLimit => plain.v = masked.v /\ nbt.v = packet.v

-----------------------------------------------------------------------------
(* Batches and datagrams.                                                  *)

Packet == {<<1>>, <<2, 3>>, [i \in 1..Group |-> i]}
Batch ==
    \E n \in 0..(MAX_BATCH_SIZE + 1) : \E packets \in [1..n -> Packet], compression \in {"no", "flate", "snappy"},
        header \in BOOLEAN :
            job' = [codec |-> "batch", packets |-> packets, compression |-> compression, header |-> header]

PacketOf ==
    \E id \in {0, 1, IdLimit - 1}, pool \in SUBSET {0, 1, IdLimit - 1}, payload \in Bytes :
        job' = [codec |-> "packet", id |-> id, pool |-> pool, payload |-> payload]

FrameOf(r, fragmented, body) ==
    [reliability |-> r, fragmented |-> fragmented, body |-> body,
     reliable_index |-> IF r \in RELIABLE_TYPES THEN Byte ^ 3 - 1 ELSE 0,
     sequenced_index |-> IF r \in SEQUENCED_TYPES THEN Byte ELSE 0,
     ordered_index |-> IF r \in ORDERED_TYPES THEN 1 ELSE 0,
     order_channel |-> IF r \in ORDERED_TYPES THEN 2 ELSE 0,
     compound_size |-> IF fragmented THEN Byte + 1 ELSE 0, compound_id |-> IF fragmented THEN Byte ELSE 0,
     fragment_index |-> IF fragmented THEN 3 ELSE 0]
Frames == {FrameOf(r, fragmented, body) : r \in 0..7, fragmented \in BOOLEAN, body \in {<<>>, <<1>>, <<2, 3>>}}

FrameSet ==
    \E n \in 0..2 : \E frames \in [1..n -> Frames], number \in {0, Byte ^ 3 - 1} :
        job' = [codec |-> "frame_set", number |-> number, frames |-> frames]

Ack == \E numbers \in SUBSET ((0..6) \cup {Byte ^ 3 - 2, Byte ^ 3 - 1}) :
            job' = [codec |-> "ack", numbers |-> numbers]

\* An IPv4 address, or one of IPv6, which only another program writes.
Address ==
    \E host \in [1..4 -> {0, 1, Byte - 1}] \cup {[i \in 1..16 |-> i % Byte]}, port \in UnsignedEdge(Byte ^ 2),
       rest \in Rests :
        job' = [codec |-> "address", host |-> host, port |-> port, rest |-> rest]
SockAddrIn6(host, port) ==
    LittleEndian(2, 10) \o BigEndian(2, port) \o LittleEndian(4, 1) \o host \o LittleEndian(4, 2)

\* Ends that have agreed on a compression read the batches of one another, up to the limit of
\* packets and none beyond it, whether a batch was too short to be compressed or not; a packet
\* of the pool is read by its class and any other kept as it is.
BatchesReadBack ==
    /\ job.codec = "batch" =>
        DecodeBatch(EncodeBatch(job.packets, job.compression, job.header), job.compression, job.header)
            = IF Len(job.packets) > MAX_BATCH_SIZE THEN Error ELSE Read(job.packets, <<>>)
    /\ job.codec = "packet" =>
        DecodePacket(EncodePacket([id |-> job.id, payload |-> job.payload]), job.pool)
            = [id |-> job.id, known |-> job.id \in job.pool, payload |-> job.payload]

\* A datagram reads back frame by frame: the fields that a reliability and a fragment have
\* are where the reader looks for them.  So do addresses of both families.
DatagramsReadBack ==
    /\ job.codec = "frame_set" =>
        DecodeFrameSet(EncodeFrameSet(job.number, job.frames)) = [number |-> job.number, frames |-> job.frames]
    /\ job.codec = "address" =>
        ReadAddress((IF Len(job.host) = 4 THEN WriteAddress(job.host, job.port)
                     ELSE <<6>> \o SockAddrIn6(job.host, job.port)) \o job.rest)
            = Read([host |-> job.host, port |-> job.port], job.rest)

\* An ACK or NACK names the numbers that it was made of, in order and each of them once.
AcksReadBack ==
    job.codec = "ack" => DecodeAck(EncodeAck(job.numbers)) = Read(Ascending(job.numbers), <<>>)

-----------------------------------------------------------------------------
(* NBT.                                                                    *)

Leaf == {[n |-> n] : n \in {0, Group - 1, Group, -1, Byte ^ 2 \div 2 - 1, -(Byte ^ 2 \div 2), Byte ^ 2 \div 2,
                           IntLimit \div 2 - 1, IntLimit \div 2}}
        \cup {[f |-> 0], [f |-> -3], [s |-> <<>>], [s |-> <<3, 1>>], [b |-> <<>>], [b |-> <<0>>]}
List == {<<>>} \cup {<<x>> : x \in Leaf} \cup {<<x, y>> : x, y \in Leaf}
\* Lists that encode can write as they are: of one tag.
Lists == {[items |-> l] : l \in {m \in List : \A i, j \in DOMAIN m : InferTag(m[i]) = InferTag(m[j])}}
Dict(x) == [fields |-> <<[name |-> <<1>>, value |-> x]>>]
DictOf(x, y) == [fields |-> <<[name |-> <<1>>, value |-> x], [name |-> <<>>, value |-> y]>>]
Values1 == Leaf \cup Lists \cup {Dict([n |-> 5]), [items |-> <<Dict([n |-> 5]), Dict([s |-> <<>>])>>]}

NbtValue ==
    \E enc \in Encoding, v \in {[fields |-> <<>>]} \cup {Dict(x) : x \in Values1}
                              \cup {DictOf(x, y) : x \in Leaf, y \in Leaf \cup {[items |-> <<>>]}},
       rest \in Rests :
        job' = [codec |-> "nbt", enc |-> enc, v |-> v, rest |-> rest]

\* Values of the game, each with its tag, as the server writes them.
T(tag, v) == [tag |-> tag, value |-> v]
TypedLeaf ==
    {T(TAG_BYTE, [n |-> 5]), T(TAG_BYTE, [n |-> Byte - 1]), T(TAG_SHORT, [n |-> 5]), T(TAG_INT, [n |-> -5]),
     T(TAG_LONG, [n |-> IntLimit]), T(TAG_FLOAT, [f |-> 1]), T(TAG_DOUBLE, [f |-> -1]), T(TAG_STRING, [s |-> <<2>>]),
     T(TAG_BYTE_ARRAY, [b |-> <<1, 2>>]), T(TAG_INT_ARRAY, [array |-> <<[n |-> 1], [n |-> -1]>>]),
     T(TAG_LONG_ARRAY, [array |-> <<[n |-> IntLimit]>>]), T(TAG_LIST, [elem |-> TAG_INT, items |-> <<[n |-> 1]>>]),
     T(TAG_LIST, [elem |-> TAG_END, items |-> <<>>])}
TypedField(name, t) == [name |-> name, tag |-> t.tag, value |-> t.value]
Nested(a, b) == T(TAG_COMPOUND, [fields |-> <<TypedField(<<2>>, a), TypedField(<<1, Bit>>, b)>>])

\* What a server writes: to the network; little endian, where a block is hashed.
WireInt(enc, bytes, v) == IF enc = "network" THEN VarInt(Byte ^ bytes, v) ELSE LittleEndian(bytes, v)
RECURSIVE WirePayload(_, _, _)
WireFields(enc, fields) ==
    FlattenSeq([i \in DOMAIN fields |->
        <<fields[i].tag>> \o EncStr(enc, fields[i].name) \o WirePayload(enc, fields[i].tag, fields[i].value)])
    \o <<TAG_END>>
WirePayload(enc, tag, v) ==
    CASE tag = TAG_BYTE -> <<v.n>>
      [] tag = TAG_SHORT -> LittleEndian(2, v.n)
      [] tag = TAG_INT -> WireInt(enc, IntBytes, v.n)
      [] tag = TAG_LONG -> WireInt(enc, LongBytes, v.n)
      [] tag = TAG_FLOAT -> LittleEndian(IntBytes, v.f)
      [] tag = TAG_DOUBLE -> LittleEndian(LongBytes, v.f)
      [] tag = TAG_BYTE_ARRAY -> WireInt(enc, IntBytes, Len(v.b)) \o v.b
      [] tag = TAG_STRING -> EncStr(enc, v.s)
      [] tag = TAG_LIST -> <<v.elem>> \o WireInt(enc, IntBytes, Len(v.items))
                           \o FlattenSeq([i \in DOMAIN v.items |-> WirePayload(enc, v.elem, v.items[i])])
      [] tag = TAG_COMPOUND -> WireFields(enc, v.fields)
      [] tag \in {TAG_INT_ARRAY, TAG_LONG_ARRAY} ->
            WireInt(enc, IntBytes, Len(v.array))
            \o FlattenSeq([i \in DOMAIN v.array |->
                   WireInt(enc, IF tag = TAG_INT_ARRAY THEN IntBytes ELSE LongBytes, v.array[i].n)])
WireRoot(enc, fields) == <<TAG_COMPOUND>> \o EncStr(enc, <<>>) \o WireFields(enc, fields)
Wire(fields) == WireRoot("network", fields)

\* The value without its tags.
RECURSIVE Untyped(_)
Untyped(v) ==
    IF Is(v, "fields") THEN [fields |-> [i \in DOMAIN v.fields |->
                                [name |-> v.fields[i].name, value |-> Untyped(v.fields[i].value)]]]
    ELSE IF Is(v, "items") THEN [items |-> [i \in DOMAIN v.items |-> Untyped(v.items[i])]]
    ELSE IF Is(v, "array") THEN [items |-> v.array]
    ELSE v

NbtOfServer ==
    \E a, b \in TypedLeaf, inner \in BOOLEAN, rest \in Rests :
        job' = [codec |-> "typed", rest |-> rest,
                fields |-> <<TypedField(<<1>>, a), TypedField(<<3>>, IF inner THEN Nested(b, a) ELSE b)>>]

\* What a server does not write: a stream that is cut, or has another byte, or any bytes; an
\* array of longs with one that is too long.
Streams == {Wire(<<TypedField(<<1>>, t)>>) : t \in TypedLeaf \cup {Nested(T(TAG_INT, [n |-> -5]), T(TAG_STRING, [s |-> <<2>>]))}}
TooLong == <<TAG_COMPOUND, 0, TAG_LONG_ARRAY, 1, 1>> \o VarInt(IntLimit, 2)
           \o [i \in 1..Groups(LongBytes) |-> Byte - 1] \o <<1, TAG_END>>
OddBytes == {0, 1, 3, TAG_LIST, TAG_COMPOUND, TAG_LONG_ARRAY, Byte - 1}
DamagedNbt ==
    \/ \E s \in Streams \cup {TooLong} : \E n \in 1..Len(s) : job' = [codec |-> "damaged", s |-> SubSeq(s, 1, n)]
    \/ \E s \in Streams \cup {TooLong} : \E i \in 2..Len(s), b \in OddBytes :
            job' = [codec |-> "damaged", s |-> [s EXCEPT ![i] = b]]
    \/ \E n \in 0..3 : \E t \in [1..n -> OddBytes] :
            job' = [codec |-> "damaged", s |-> <<TAG_COMPOUND, 0>> \o t]

\* The fields of a block, in the order of their names; what a server writes of it, in this or
\* another order, with its version or without.
KEY_VERSION == <<3>>
BlockFields(name, states) == <<TypedField(KEY_NAME, T(TAG_STRING, [s |-> name])),
                               TypedField(KEY_STATES, T(TAG_COMPOUND, [fields |-> states]))>>
Versioned(fields, versioned) ==
    IF versioned THEN Append(fields, TypedField(KEY_VERSION, T(TAG_INT, [n |-> 7]))) ELSE fields
WireBlock(name, states, versioned, swapped) ==
    Wire(IF swapped THEN Reverse(Versioned(BlockFields(name, Reverse(states)), versioned))
         ELSE Versioned(BlockFields(name, states), versioned))

\* The hash that a server gives a block: of its little endian bytes.
ServerHash(name, states) == Fnv1a(WireRoot("little", BlockFields(name, states)))

BlockOf ==
    \E a \in {T(TAG_BYTE, [n |-> 1]), T(TAG_BYTE, [n |-> Byte - 1]), T(TAG_INT, [n |-> 1]),
              T(TAG_INT, [n |-> Byte + 1]), T(TAG_SHORT, [n |-> 1]), T(TAG_STRING, [s |-> <<2>>]), T(TAG_FLOAT, [f |-> 1])},
       bit \in {T(TAG_BYTE, [n |-> 1]), T(TAG_INT, [n |-> 1])},
       b \in {T(TAG_INT, [n |-> 0]), T(TAG_BYTE, [n |-> 0]), T(TAG_STRING, [s |-> <<>>])},
       n \in 0..3, versioned, swapped \in BOOLEAN :
        job' = [codec |-> "block", versioned |-> versioned, swapped |-> swapped,
                states |-> SubSeq(<<TypedField(<<1>>, a), TypedField(<<1, Bit>>, bit), TypedField(<<2>>, b)>>, 1, n)]

\* What encode writes decode reads, in each of the encodings, when the items of a list have one
\* tag; nbt() goes on after it.
NbtReadsBack ==
    job.codec = "nbt" =>
        LET s == Encode(job.enc, job.v) \o job.rest IN
        /\ Decode(job.enc, s) = Read(job.v, job.rest)
        /\ job.enc = "network" => ReadNbt(s) = Read(job.v, job.rest)

\* Of what a server writes, the readers of codec.py and of chunk.py read the same values, up to
\* the same byte.  So they do of anything that both can read; what chunk.py's cannot read, the
\* other cannot either, to which _read_nbt_block turns then.
NbtReadersAgree ==
    /\ job.codec = "typed" =>
        LET s == Wire(job.fields) \o job.rest IN
        /\ ReadNbtTyped(s) = Read([fields |-> job.fields], job.rest)
        /\ Decode("network", s) = Read(Untyped([fields |-> job.fields]), job.rest)
    /\ job.codec = "damaged" =>
        LET typed == ReadNbtTyped(job.s) plain == Decode("network", job.s) IN
        ~Failed(plain) => ~Failed(typed) /\ plain = Read(Untyped(typed.v), typed.rest)

\* nbt() goes on in the packet where the value ended ("We need to figure out how many bytes
\* were consumed", proto/io.py 248), also when a server wrote it.
NbtLeavesTheRest ==
    job.codec = "typed" =>
        LET r == ReadNbt(Wire(job.fields) \o job.rest) IN ~Failed(r) /\ r.rest = job.rest

\* The tags that compute_block_hash gives the states are those that they have.
IsInferred(states) ==
    \A i \in DOMAIN states :
        IF IsSuffix(<<Bit>>, states[i].name) THEN states[i].tag \notin {TAG_SHORT, TAG_INT}
        ELSE states[i].tag \notin {TAG_SHORT, TAG_BYTE}

\* A block is named by the hash that the server gives it: the table of the file has it, whatever
\* the order of the fields, with a version or without, and whatever else is in the file; it can
\* be computed from states with their tags, from states without only when the tags are those
\* that are inferred.  A palette of NBT teaches it only when the server leaves out the version,
\* which is hashed there.
BlocksAreNamed ==
    job.codec = "block" =>
        LET name == <<4>>
            hash == ServerHash(name, job.states)
            wire == WireBlock(name, job.states, job.versioned, job.swapped)
            nameless == Wire(<<TypedField(KEY_STATES, T(TAG_COMPOUND, [fields |-> job.states]))>>)
            file == nameless \o wire \o WireBlock(UNKNOWN, <<>>, job.versioned, FALSE) \o <<TAG_END>>
            states == ReadNbtTyped(Wire(IF job.swapped THEN Reverse(job.states) ELSE job.states)).v.fields
            block == ReadNbtBlock(wire \o file, [known |-> TRUE, names |-> <<>>])
        IN /\ load_canonical_block_hashes(file) = Read((hash :> name) @@ ((IntLimit - 2) :> UNKNOWN), <<TAG_END>>)
           /\ compute_block_hash_typed(name, states) = hash
           /\ (compute_block_hash(name, Untyped([fields |-> states]).fields) = hash) = IsInferred(job.states)
           /\ block.name = name /\ block.rest = file
           /\ (block.table.names = (hash :> name)) = ~job.versioned
           /\ ReadNbtBlock(wire \o file, NoTable) = [name |-> name, rest |-> file, table |-> NoTable]

-----------------------------------------------------------------------------
(* Chunks.  The server: sub-chunks of two kinds of block and air.          *)

\* A palette of the numbers of StartGame, of hashes, of NBT without and with the version.
Forms == {"runtime", "hashed", "nbt", "versioned"}
NameOf(b) == Blocks[b].name
HashOf == [b \in DOMAIN Blocks |-> ServerHash(Blocks[b].name, Blocks[b].states)]
PaletteOf(cells) == Ascending({cells[i] : i \in DOMAIN cells})
IndexIn(palette, b) == (CHOOSE i \in DOMAIN palette : palette[i] = b) - 1
Encoded == [form \in Forms |-> [b \in DOMAIN Blocks |->
    CASE form = "runtime" -> VarUint[b]
      [] form = "hashed" -> VarUint[Zigzag(IF 2 * HashOf[b] >= IntLimit THEN HashOf[b] - IntLimit ELSE HashOf[b])]
      [] form \in {"nbt", "versioned"} -> WireBlock(Blocks[b].name, Blocks[b].states, form = "versioned", b = 1)]]
Pack(cells, palette, bits) ==
    LET perWord == WordBits \div bits
        count == (Volume + perWord - 1) \div perWord
    IN FlattenSeq([w \in 1..count |-> LittleEndian(WordBytes,
           FoldLeftDomain(LAMBDA sum, j :
               LET i == (w - 1) * perWord + j - 1 IN
               IF i < Volume THEN sum + (IndexIn(palette, cells[i]) * 2 ^ ((j - 1) * bits)) ELSE sum,
               0, [k \in 1..perWord |-> k]))])
Storage(cells, form, bits) ==
    LET palette == PaletteOf(cells) IN
    <<2 * bits + (IF form \in {"runtime", "hashed"} THEN 1 ELSE 0)>>
    \o (IF bits = 0 THEN <<>> ELSE Pack(cells, palette, bits))
    \o VarUint[Len(palette)] \o FlattenSeq([i \in DOMAIN palette |-> Encoded[form][palette[i]]])
Water == [i \in 0..(Volume - 1) |-> 0]
SubChunkOf(version, cells, form, bits) ==
    (CASE version = 9 -> <<9, 2, 0>> [] OTHER -> <<version>>) \o Storage(cells, form, bits)
    \o (IF version = 9 THEN Storage(Water, form, 0) ELSE <<>>)

\* All but two cells are air.
Terrain(p, a, q, b) == [i \in 0..(Volume - 1) |-> IF i = p THEN a ELSE IF i = q THEN b ELSE 0]
BitsFor(cells) == {bits \in 0..4 : 2 ^ bits >= Len(PaletteOf(cells)) /\ 2 * bits <= WordBits}

\* The two sub-chunks of a chunk, from the bottom, and the table of the caller: the one of the
\* file, an empty one, none.
CanonicalTable == [known |-> TRUE, names |-> [h \in {HashOf[b] : b \in DOMAIN Blocks} |->
                                              NameOf(CHOOSE b \in DOMAIN Blocks : HashOf[b] = h)]]
EmptyTable == [known |-> TRUE, names |-> <<>>]
Layers == {[low |-> "runtime", high |-> "runtime", table |-> NoTable],
           [low |-> "hashed", high |-> "hashed", table |-> CanonicalTable],
           [low |-> "nbt", high |-> "nbt", table |-> EmptyTable],
           [low |-> "versioned", high |-> "nbt", table |-> NoTable],
           [low |-> "nbt", high |-> "hashed", table |-> EmptyTable],
           [low |-> "versioned", high |-> "hashed", table |-> EmptyTable]}

LevelChunkOf ==
    \E low \in {Terrain(0, 1, Volume - 1, 2), Terrain(1, 2, 2, 2)}, p \in {0, 3, Volume - 1}, q \in {1, 2},
       a, b \in DOMAIN Blocks, layers \in Layers,
       versions \in {<<1, 1>>, <<8, 8>>, <<9, 9>>, <<8, 7>>, <<7, 8>>} :
        \E bits \in BitsFor(Terrain(p, a, q, b)), lowBits \in BitsFor(low) :
            job' = [codec |-> "chunk", layers |-> layers, versions |-> versions, low |-> low, lowBits |-> lowBits,
                    high |-> Terrain(p, a, q, b), bits |-> bits]

\* Results, height maps and payloads of the entries of a SubChunk packet; 7 is no version.
Good == Terrain(0, 1, 3, 2)
Payload(kind) == CASE kind = "good" -> SubChunkOf(8, Good, "nbt", 2)
                   [] kind = "bad" -> <<7, 1>> [] kind = "none" -> <<>>
EntryOf(e, cached) ==
    <<0, Byte - 1, 1, e.code>>
    \o (IF cached /\ e.code = SC_RESULT_SUCCESS_ALL_AIR THEN <<>> ELSE Prefixed(Payload(e.payload)))
    \o FlattenSeq([i \in 1..2 |-> <<e.maps[i]>> \o (IF e.maps[i] = HEIGHTMAP_HAS_DATA
                                                    THEN [k \in 1..(Side ^ 2) |-> 1] ELSE <<>>)])
    \o (IF cached THEN [i \in 1..LongBytes |-> 1] ELSE <<>>)
Entries == [code : {SC_RESULT_SUCCESS, SC_RESULT_SUCCESS_ALL_AIR, 2}, payload : {"good", "bad", "none"},
            maps : (0..2) \X (0..1)]
SubChunkPacket ==
    \E first, second \in Entries, cached \in BOOLEAN :
        job' = [codec |-> "entries", cached |-> cached, entries |-> <<first, second>>]

\* What a reader can know of a block of the high sub-chunk: nothing when that is of a version
\* that it does not know; by an empty table only what the low one has taught, without versions.
NameAbove(b) ==
    IF job.versions[2] = 7 THEN AIR
    ELSE IF job.layers.high = "hashed" /\ job.layers.low # "hashed"
    THEN IF job.layers.low = "nbt" /\ b \in ToSet(PaletteOf(job.low)) THEN NameOf(b) ELSE AIR
    ELSE NameOf(b)

\* The name at a height of a column.
InColumn(x, z, y) ==
    IF y < Side THEN NameOf(job.low[Cell(x, z, y)]) ELSE NameAbove(job.high[Cell(x, z, y - Side)])
Heights == 0..(2 * Side - 1)

IsTopmost(name, x, z) ==
    \/ name = AIR /\ \A y \in Heights : InColumn(x, z, y) = AIR
    \/ \E y \in Heights :
          /\ name = InColumn(x, z, y) /\ name # AIR
          /\ \A above \in Heights : above > y => InColumn(x, z, above) = AIR

AreTopmost(r) == ~Failed(r) /\ \A x, z \in 0..(Side - 1) : IsTopmost(r.v[x, z], x, z)

\* The top blocks of a chunk are the topmost blocks that are not air, column by column, from
\* every form of palette, version, and number of bits: up to a sub-chunk that cannot be read,
\* and of the blocks that have a name for the reader.
TopBlocksAreTopmost ==
    job.codec = "chunk" =>
        LET r == ParseLevelChunk(SubChunkOf(job.versions[1], job.low, job.layers.low, job.lowBits)
                                 \o SubChunkOf(job.versions[2], job.high, job.layers.high, job.bits), 2,
                                 [i \in 1..Cardinality(DOMAIN Blocks) |-> NameOf(i - 1)], job.layers.table)
        IN IF job.versions[1] = 7 THEN Failed(r) ELSE AreTopmost(r)

HasBlocks(e) == e.code = SC_RESULT_SUCCESS /\ e.payload = "good"
IsEntry(v, e) ==
    /\ v.code = e.code /\ v.offset = <<0, -1, 1>>
    /\ (v.sub # <<>>) = HasBlocks(e)
    /\ HasBlocks(e) => \A c \in 0..(Volume - 1) : Entry(v.sub[1].palette, v.sub[1].ids[c]) = NameOf(Good[c])

AreEntries(r) == ~Failed(r) /\ Len(r.v) = 2 /\ \A i \in 1..2 : IsEntry(r.v[i], job.entries[i])

\* A sub-chunk of a packet that cannot be read does not take the others with it, and neither
\* do results without blocks, height maps and the hashes of a cache: all entries are read,
\* those with blocks as the server wrote them.
EntriesStandAlone ==
    job.codec = "entries" =>
        AreEntries(ParseEntries(LittleEndian(IntBytes, 2) \o EntryOf(job.entries[1], job.cached)
                                    \o EntryOf(job.entries[2], job.cached), job.cached, NoTable))

-----------------------------------------------------------------------------
(* Packets whose layout depends on their values.                           *)

\* A value for the i-th attribute of a class, which no other attribute has.
Sample(type, i) ==
    CASE type = "int" -> i [] type = "string" -> ToString(i) [] type = "bool" -> TRUE
      [] type = "vec3" -> <<2 * i + 1, -(2 * i + 1), 2 * Turn + i>>
      [] type = "raw" -> W("byte", i) [] type = "slice" -> <<i, 0>>
      [] type = "int or None" -> <<i>> [] type = "string or None" -> <<ToString(i)>>
      [] type = "bool or None" -> <<FALSE>> [] type = "raw or None" -> <<W("byte", i)>>
Samples(packet, names) ==
    LET all == FoldSet(LAMBDA n, s : Append(s, n), <<>>, DOMAIN Class[packet]) IN
    [n \in names |-> Sample(Class[packet][n], CHOOSE i \in DOMAIN all : all[i] = n)]

\* The cases of a class: the values that its layout depends on, and some that it does not know.
Cases ==
    LET In(packet, name, set) == {[packet |-> packet] @@ (name :> c) : c \in set} IN
    In("BossEvent", "event_type", 0..9) \cup In("Text", "text_type", 0..12) \cup
    In("CommandBlockUpdate", "block", BOOLEAN) \cup In("BookEdit", "action_type", 0..5) \cup
    In("MoveActorDelta", "flags", 0..63) \cup In("MovePlayer", "mode", 0..3) \cup
    In("SyncWorldClocks", "payload_type", 0..4) \cup In("AttributeLayerSync", "payload_type", 0..4) \cup
    In("PlayerUpdateEntityOverrides", "type", 0..3) \cup
    [packet : {"LevelChunk"}, sub_chunk_count : {SUB_CHUNK_REQUEST_MODE_LIMITED, SUB_CHUNK_REQUEST_MODE_LIMITED + 1, 3},
     cache_enabled : BOOLEAN] \cup
    In("Disconnect", "hide_disconnection_screen", BOOLEAN) \cup In("PlayerLocation", "type", 0..1) \cup
    In("PlayerVideoCapture", "action", 0..1) \cup
    In("PackSettingChange", "setting_value", {<<"float32", 1>>, <<"bool", TRUE>>, <<"string", "a">>, <<"int", 1>>}) \cup
    In("CommandOutput", "output_type", {"dataset", "other"}) \cup In("DebugRenderer", "type", 0..2) \cup
    In("Animate", "swing_source", 0..10) \cup In("InventoryTransaction", "legacy_request_id", {0, -2}) \cup
    In("MapItemData", "update_flags", {0, 2, 4, 6, 8, 10, 12, 14}) \cup
    [packet : {"CameraInstruction", "ModalFormResponse"}]

\* The attributes that have a value: all, all but one, one, none; of the optional ones any.
Filled(packet, names) ==
    IF packet \in {"CameraInstruction", "ModalFormResponse"} THEN SUBSET names
    ELSE {names, {}} \cup {{n} : n \in names} \cup {names \ {n} : n \in names}

PacketObjects ==
    \E c \in Cases : \E names \in Filled(c.packet, DOMAIN Class[c.packet] \ DOMAIN c) :
        job' = [codec |-> "layout", p |-> c @@ Samples(c.packet, names) @@ Fresh(c.packet)]

\* A raw field that an optional field follows: the reader takes that one too, and finds none.
IsCut(p) ==
    p.packet = "CameraInstruction" /\ \E n \in {"set", "fade", "target", "field_of_view", "spline"} : p[n] # <<>>

\* A map with its decorations and its texture: the reader takes both for the first raw field.
IsMerged(p) == p.packet = "MapItemData" /\ HasBit(p.update_flags, 2) /\ HasBit(p.update_flags, 1)
NoTexture == W("varint32", 0) \o W("varint32", 0) \o W("varint32", 0) \o W("varint32", 0)

\* The object that the layout can express: what has no name or no type becomes a default, and
\* two raw fields one.
Expressed(p) ==
    CASE p.packet = "Animate" /\ p.swing_source \notin 1..9 -> [p EXCEPT !.swing_source = 0]
      [] p.packet = "DebugRenderer" /\ p.type \notin 0..1 -> [p EXCEPT !.type = 0]
      [] p.packet = "PackSettingChange" /\ p.setting_value[1] \notin {"float32", "bool", "string"} ->
            [p EXCEPT !.setting_value = <<"float32", 0>>]
      [] p.packet = "InventoryTransaction" -> [p EXCEPT !.actions = <<>>, !.transaction_data = p.actions \o @]
      [] p.packet = "MapItemData" -> [p EXCEPT !.decorations = <<>>, !.tracked_objects = @ \o p.decorations]
      [] OTHER -> p

\* A rotation as near as a byte is: the same but for whole turns, and less than a step.
IsNear(read, v) == (read - v) % (2 * Turn) \in {0, 1, 2 * Turn - 1}
\* An attribute is read as it was, or is not in the layout of this packet.
IsFrom(o, p, n) ==
    IF p.packet = "MoveActorDelta" /\ n \in {"position", "rotation"}
    THEN \A i \in 1..3 : o[n][i] = 0 \/ o[n][i] = p[n][i] \/ (n = "rotation" /\ IsNear(o[n][i], p[n][i]))
    ELSE o[n] = p[n] \/ o[n] = Default(Class[p.packet][n])

\* What another program may write for the same object.
Synonyms(p) ==
    CASE p.packet = "Text" -> {[Write(p) EXCEPT ![2] = <<"uint8", c>>] : c \in 0..2}
      [] p.packet = "CommandOutput" /\ p.output_type = "dataset" ->
            {[Write(p) EXCEPT ![5] = <<"varuint32", 2>>] \o W("string", "more")}
      [] OTHER -> {}
\* What another program may write that this one does not know, and the object it is read as.
Unknowns(o) ==
    CASE o.packet = "Animate" /\ o.swing_source = 0 ->
            {[stream |-> SubSeq(Write(o), 1, 3) \o WOptional("string", <<"other">>), object |-> o]}
      [] o.packet = "DebugRenderer" /\ o.type = 0 -> {[stream |-> W("string", "other"), object |-> o]}
      [] o.packet = "PackSettingChange" ->
            {[stream |-> SubSeq(Write(o), 1, 2) \o W("varuint32", 3) \o W("byte", 1),
              object |-> [o EXCEPT !.setting_value = <<"none", 0>>]]}
      [] OTHER -> {}

\* A packet that is read is the packet that was written, as far as its layout expresses it,
\* whoever wrote it, and is so again after each relay.  Two do not: a camera's instruction
\* with raw bytes cannot be read, and a map with a texture and decorations grows by a texture.
PacketsRelay ==
    job.codec = "layout" =>
        LET p == job.p
            ReadObject(s) == ReadPacket(p.packet, s)
            r == ReadObject(Write(p))
        IN /\ r.failed = IsCut(p)
           /\ ~r.failed /\ IsMerged(p) => Write(r.v) = Write(p) \o NoTexture
           /\ ~r.failed /\ ~IsMerged(p) =>
                /\ \A n \in DOMAIN Class[p.packet] : IsFrom(r.v, Expressed(p), n)
                /\ Write(r.v) = Write(Expressed(p))
                /\ \A s \in {Write(r.v)} \cup Synonyms(p) : ~ReadObject(s).failed /\ ReadObject(s).v = r.v
                /\ \A u \in Unknowns(r.v) : ~ReadObject(u.stream).failed /\ ReadObject(u.stream).v = u.object

-----------------------------------------------------------------------------
(* Queries, texts and resource packs.                                      *)

Info == {<<k, v>> : k \in {"a", "b"}, v \in {"", "x"}}
Datagrams == {Handshake("7")} \cup {Information(FlattenSeq(i)) : i \in UNION {[1..n -> Info] : n \in 0..2}}
QueryOf == \E n \in 0..3 : \E d \in [1..n -> Datagrams] : job' = [codec |-> "query", datagrams |-> d]

\* Texts put together of tags, known or not, and of the symbols of tags.
Pieces == {<<"<", "red", ">">>, <<"<", "bold", ">">>, <<"<", "/", "red", ">">>, <<"<", "/", "bold", ">">>,
           <<"<", "x", ">">>, <<"x">>, <<"<">>, <<">">>}
TextOf ==
    \E n \in 0..5 : \E pieces \in [1..n -> Pieces] : job' = [codec |-> "text", text |-> FlattenSeq(pieces)]

PackOf == \E n \in 0..7, size \in 1..4 : job' = [codec |-> "pack", content |-> [i \in 1..n |-> i], size |-> size]

\* When the server answers each request once, a query has all of its information, a key whose
\* value is empty too; it says so when an answer is lost.
QueryAnswers ==
    job.codec = "query" =>
        LET d == job.datagrams IN
        /\ Len(d) < 2 /\ (\A i \in DOMAIN d : d[i].type = "handshake") => Query(d) = Timeout
        /\ Len(d) = 2 /\ d[1].type = "handshake" /\ d[2].type = "information" =>
            LET s == d[2].strings pairs == 1..(Len(s) \div 2) info == Query(d).info IN
            /\ DOMAIN info = {s[2 * i - 1] : i \in pairs}
            /\ \A i \in pairs : (\A j \in pairs : j > i => s[2 * j - 1] # s[2 * i - 1]) => info[s[2 * i - 1]] = s[2 * i]

\* Where tags begin in a text: at a "<" with a ">" behind it, if no tag that began before is
\* still to be ended.
Ends(s, i) == {j \in DOMAIN s : j > i /\ s[j] = ">"}
Begins(s) == {i \in DOMAIN s : /\ s[i] = "<" /\ Ends(s, i) # {}
                               /\ \A j \in 1..(i - 1) : s[j] = "<" => \E k \in j..i : s[k] = ">"}
TagAt(s, i) == SubSeq(s, i, Min(Ends(s, i)))
Opening(c) == <<"<", c, ">">>
Closing(c) == <<"<", "/", c, ">">>
Known(s) == {i \in Begins(s) : \E c \in TagNames : TagAt(s, i) \in {Opening(c), Closing(c)}}
Symbols(s, tags) == UNION {i..Min(Ends(s, i)) : i \in tags}

\* How often a code is open at a place, by the tags before it: one that has nothing to close
\* closes nothing later.
Open(s, tags, place, c) ==
    FoldLeft(LAMBDA n, i : IF TagAt(s, i) = Opening(c) THEN n + 1
                           ELSE IF TagAt(s, i) = Closing(c) /\ n > 0 THEN n - 1 ELSE n,
             0, Ascending({i \in tags : i < place}))

\* How often a code is in effect at a place of a result: since the last reset.
InEffect(result, place, c) ==
    Cardinality({i \in 1..place : result[i] = Code(c) /\ \A j \in i..place : result[j] # Code(RESET)})

\* A text of colourf has the codes of the tags that are open there and no others; what is no
\* tag of a colour, and has none, stays in the text, where clean gives it back.
TextsAreFormatted ==
    job.codec = "text" =>
        LET s == job.text
            result == Colourf(s)
            tags == Known(s)
            plain == Symbols(s, Begins(s) \ tags) \cup {i \in DOMAIN s : s[i] = "<" /\ Ends(s, i) = {}}
            kept == Ascending(DOMAIN s \ Symbols(s, tags))
            places == Ascending({j \in DOMAIN result : ~IsCode(result[j])})
        IN /\ Clean(result) = Literal([k \in DOMAIN kept |-> s[kept[k]]])
           /\ \A k \in DOMAIN kept, c \in TagNames :
                InEffect(result, places[k], c) = IF kept[k] \in plain THEN 0 ELSE Open(s, tags, kept[k], c)

\* The chunks of a resource pack are all of it, none is empty.
PacksAreSentWhole ==
    job.codec = "pack" =>
        LET n == data_chunk_count(job.content, job.size)
            chunk(i) == read_at(job.content, (i - 1) * job.size, job.size)
        IN FlattenSeq([i \in 1..n |-> chunk(i)]) = job.content /\ \A i \in 1..n : chunk(i) # <<>>

-----------------------------------------------------------------------------
(* What is checked of each layer: together, since an input is a job of one of them.        *)

\* Of proto/io.py: fields read back, and all readers of varints agree.
ProtocolReadsBack == FieldsReadBack /\ VarIntReadersAgree

\* Of proto/pool.py and raknet/protocol.py: batches, datagrams and ACKs read back.
WireReadsBack == BatchesReadBack /\ DatagramsReadBack /\ AcksReadBack

\* Of nbt/ and the NBT of chunk.py: values read back, the two readers agree, and blocks have
\* the name that goes with the hash of the server.
NbtIsOneFormat == NbtReadsBack /\ NbtReadersAgree /\ BlocksAreNamed

\* Of chunk.py: top blocks are the topmost, and the entries of a packet stand alone.
ChunksAreRead == TopBlocksAreTopmost /\ EntriesStandAlone

\* Of query/, text/ and resource/: answers are complete, texts formatted, packs sent whole.
TextsAndAnswers == QueryAnswers /\ TextsAreFormatted /\ PacksAreSentWhole

-----------------------------------------------------------------------------
Next ==
    /\ job = Idle
    /\ \/ Field \/ VarInts \/ Batch \/ PacketOf \/ FrameSet \/ Ack \/ Address \/ NbtValue \/ NbtOfServer
       \/ DamagedNbt \/ BlockOf \/ LevelChunkOf \/ SubChunkPacket \/ PacketObjects \/ QueryOf \/ TextOf \/ PackOf

Spec == Init /\ [][Next]_job
=============================================================================
