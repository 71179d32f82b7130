-------------------------------- MODULE Nbt --------------------------------
(***************************************************************************)
(* NBT: nbt/codec.py, which infers the tag of a value and reads a value    *)
(* without its tag; chunk.py, which keeps the tags; PacketReader.nbt and   *)
(* nbt_typed, which read NBT in the middle of a packet.                    *)
(*                                                                         *)
(* A value of Python is [n |-> int], [f |-> float], [b |-> bytes],         *)
(* [s |-> string], [items |-> list] or [fields |-> dict], a dict the       *)
(* sequence of its [name, value] in order.  A value with its tags is the   *)
(* same, but a list has its "elem", a field its "tag", an array of ints or *)
(* longs its "array".  A float is the number whose bytes it has.           *)
(***************************************************************************)
EXTENDS PacketIO

TAG_END == 0
TAG_BYTE == 1
TAG_SHORT == 2
TAG_INT == 3
TAG_LONG == 4
TAG_FLOAT == 5
TAG_DOUBLE == 6
TAG_BYTE_ARRAY == 7
TAG_STRING == 8
TAG_LIST == 9
TAG_COMPOUND == 10
TAG_INT_ARRAY == 11
TAG_LONG_ARRAY == 12

Encoding == {"network", "little", "big"}

Is(v, kind) == kind \in DOMAIN v

\* An assignment result[name] = ...: a name that is there keeps its place.
Assign(fields, field) ==
    IF \E i \in DOMAIN fields : fields[i].name = field.name
    THEN [i \in DOMAIN fields |-> IF fields[i].name = field.name THEN field ELSE fields[i]]
    ELSE Append(fields, field)

-----------------------------------------------------------------------------
(* Encoding: the integers and strings of the three variants.               *)

EncInt(enc, bytes, v) == IF enc = "big" THEN BigEndian(bytes, v) ELSE LittleEndian(bytes, v)
DecInt(enc, bytes, s) == IF enc = "big" THEN ReadSignedBE(bytes, s) ELSE ReadSigned(bytes, s)

EncInt32(enc, v) == IF enc = "network" THEN VarInt(IntLimit, v) ELSE EncInt(enc, IntBytes, v)
DecInt32(enc, s) == IF enc = "network" THEN ReadNbtVarInt32(s) ELSE DecInt(enc, IntBytes, s)
EncInt64(enc, v) == IF enc = "network" THEN VarInt(LongLimit, v) ELSE EncInt(enc, LongBytes, v)
DecInt64(enc, s) == IF enc = "network" THEN ReadVarInt64(s) ELSE DecInt(enc, LongBytes, s)

EncStr(enc, b) == (IF enc = "network" THEN VarUint[Len(b)] ELSE EncInt(enc, 2, Len(b))) \o b

\* buf.read(n): what there is, and all of it when n is negative.
ReadUpTo(n, s) ==
    LET k == IF n < 0 \/ n > Len(s) THEN Len(s) ELSE n IN Read(SubSeq(s, 1, k), Drop(s, k))
StrLength(enc, s) ==
    CASE enc = "network" -> ReadVarUint(IntBytes, s)
      [] enc = "little" -> ReadUnsigned(2, s)
      [] enc = "big" -> ReadFixed(2, s, LAMBDA b : Unsigned(Reverse(b)))
DecStr(enc, s) ==
    Then(StrLength(enc, s), LAMBDA n, rest :
         IF enc = "network" /\ 2 * n >= Byte ^ 2 THEN Error ELSE ReadUpTo(n, rest))

-----------------------------------------------------------------------------
(* codec.py: values without tags.                                          *)

Fits(bytes, n) == LET half == (Byte ^ bytes) \div 2 IN -half <= n /\ n < half

\* _infer_tag_type: the narrowest tag of an int, but an unsigned byte.
InferTag(v) ==
    CASE Is(v, "n") -> IF 0 <= v.n /\ 2 * v.n < Byte THEN TAG_BYTE
                       ELSE IF Fits(2, v.n) THEN TAG_SHORT
                       ELSE IF Fits(IntBytes, v.n) THEN TAG_INT ELSE TAG_LONG
      [] Is(v, "f") -> TAG_FLOAT
      [] Is(v, "s") -> TAG_STRING
      [] Is(v, "b") -> TAG_BYTE_ARRAY
      [] Is(v, "fields") -> TAG_COMPOUND
      [] Is(v, "items") -> TAG_LIST

RECURSIVE EncPayload(_, _, _)

EncList(enc, items) ==
    IF items = <<>> THEN <<TAG_END>> \o EncInt32(enc, 0)
    ELSE LET tag == InferTag(Head(items)) IN
         <<tag>> \o EncInt32(enc, Len(items))
         \o FlattenSeq([i \in DOMAIN items |-> EncPayload(enc, tag, items[i])])

EncCompound(enc, fields) ==
    FlattenSeq([i \in DOMAIN fields |->
        LET tag == InferTag(fields[i].value) IN
        <<tag>> \o EncStr(enc, fields[i].name) \o EncPayload(enc, tag, fields[i].value)])
    \o <<TAG_END>>

\* _write_payload, for the tags that are inferred.  struct raises an error for a number that
\* the tag of its list does not hold: such values are left out.
EncPayload(enc, tag, v) ==
    CASE tag = TAG_BYTE -> <<v.n % Byte>>
      [] tag = TAG_SHORT -> EncInt(enc, 2, v.n)
      [] tag = TAG_INT -> EncInt32(enc, v.n)
      [] tag = TAG_LONG -> EncInt64(enc, v.n)
      [] tag = TAG_FLOAT -> EncInt(enc, IntBytes, v.f)
      [] tag = TAG_BYTE_ARRAY -> EncInt32(enc, Len(v.b)) \o v.b
      [] tag = TAG_STRING -> EncStr(enc, v.s)
      [] tag = TAG_LIST -> EncList(enc, v.items)
      [] tag = TAG_COMPOUND -> EncCompound(enc, v.fields)

\* encode, with the root name "".
Encode(enc, v) == <<InferTag(v)>> \o EncStr(enc, <<>>) \o EncPayload(enc, InferTag(v), v)

RECURSIVE DecPayload(_, _, _)

RECURSIVE DecCompound(_, _, _)
DecCompound(enc, s, sofar) ==
    IF s = <<>> THEN Error
    ELSE IF Head(s) = TAG_END THEN Read([fields |-> sofar], Tail(s))
    ELSE Then(DecStr(enc, Tail(s)), LAMBDA name, rest :
              Then(DecPayload(enc, Head(s), rest), LAMBDA v, more :
                   DecCompound(enc, more, Assign(sofar, [name |-> name, value |-> v]))))

\* So many items; none for a negative count.  Each takes a byte at least.
DecItems(n, s, Item(_)) ==
    IF n > Len(s) THEN Error
    ELSE Then(ReadTimes(IF n < 0 THEN 0 ELSE n, s, Item), LAMBDA items, rest : Read([items |-> items], rest))

Number(r) == Then(r, LAMBDA n, rest : Read([n |-> n], rest))
Float(r) == Then(r, LAMBDA n, rest : Read([f |-> n], rest))

\* _read_payload: an unsigned byte; the elements of an array are a list.
DecPayload(enc, tag, s) ==
    CASE tag = TAG_BYTE -> Number(ReadUnsigned(1, s))
      [] tag = TAG_SHORT -> Number(DecInt(enc, 2, s))
      [] tag = TAG_INT -> Number(DecInt32(enc, s))
      [] tag = TAG_LONG -> Number(DecInt64(enc, s))
      [] tag = TAG_FLOAT -> Float(DecInt(enc, IntBytes, s))
      [] tag = TAG_DOUBLE -> Float(DecInt(enc, LongBytes, s))
      [] tag = TAG_BYTE_ARRAY ->
            Then(Then(DecInt32(enc, s), ReadUpTo), LAMBDA b, rest : Read([b |-> b], rest))
      [] tag = TAG_STRING -> Then(DecStr(enc, s), LAMBDA b, rest : Read([s |-> b], rest))
      [] tag = TAG_LIST ->
            IF s = <<>> THEN Error
            ELSE Then(DecInt32(enc, Tail(s)), LAMBDA n, rest :
                      DecItems(n, rest, LAMBDA t : DecPayload(enc, Head(s), t)))
      [] tag = TAG_COMPOUND -> DecCompound(enc, s, <<>>)
      [] tag = TAG_INT_ARRAY ->
            Then(DecInt32(enc, s), LAMBDA n, rest : DecItems(n, rest, LAMBDA t : Number(DecInt32(enc, t))))
      [] tag = TAG_LONG_ARRAY ->
            Then(DecInt32(enc, s), LAMBDA n, rest : DecItems(n, rest, LAMBDA t : Number(DecInt64(enc, t))))
      [] OTHER -> Error

\* decode, with what it leaves: {} for no data and for an end tag.
Decode(enc, s) ==
    IF s = <<>> THEN Read([fields |-> <<>>], <<>>)
    ELSE IF Head(s) = TAG_END THEN Read([fields |-> <<>>], Tail(s))
    ELSE Then(DecStr(enc, Tail(s)), LAMBDA name, rest : DecPayload(enc, Head(s), rest))

\* PacketReader.nbt: it goes on where the value that it read would end, were it this program
\* that wrote it.
ReadNbt(s) ==
    IF s = <<>> THEN Read([fields |-> <<>>], <<>>)
    ELSE Then(Decode("network", s), LAMBDA v, rest : Read(v, Drop(s, Len(Encode("network", v)))))

-----------------------------------------------------------------------------
(* chunk.py: values with their tags.                                       *)

TypedStr(s) == Then(ReadVarUint(IntBytes, s), ReadUpTo)

\* An element of an array of longs: one that is too long is left out, its groups are consumed.
LongOrNone(s) ==
    LET r == ReadVarInt64(s) IN
    IF ~Failed(r) THEN Read(<<[n |-> r.v]>>, r.rest)
    ELSE IF Len(s) < Groups(LongBytes) THEN Error ELSE Read(<<>>, Drop(s, Groups(LongBytes)))

RECURSIVE DecodeTyped(_, _)

RECURSIVE DecodeFields(_, _)
DecodeFields(s, sofar) ==
    IF s = <<>> THEN Error
    ELSE IF Head(s) = TAG_END THEN Read([fields |-> sofar], Tail(s))
    ELSE Then(TypedStr(Tail(s)), LAMBDA name, rest :
              Then(DecodeTyped(Head(s), rest), LAMBDA v, more :
                   DecodeFields(more, Assign(sofar, [name |-> name, tag |-> Head(s), value |-> v]))))

\* _decode_typed
DecodeTyped(tag, s) ==
    CASE tag = TAG_BYTE -> Number(ReadUnsigned(1, s))
      [] tag = TAG_SHORT -> Number(ReadSigned(2, s))
      [] tag = TAG_INT -> Number(ReadNbtVarInt32(s))
      [] tag = TAG_LONG -> Number(ReadVarInt64(s))
      [] tag = TAG_FLOAT -> Float(ReadSigned(IntBytes, s))
      [] tag = TAG_DOUBLE -> Float(ReadSigned(LongBytes, s))
      [] tag = TAG_STRING -> Then(TypedStr(s), LAMBDA b, rest : Read([s |-> b], rest))
      [] tag = TAG_COMPOUND -> DecodeFields(s, <<>>)
      [] tag = TAG_LIST ->
            IF s = <<>> THEN Error
            ELSE Then(ReadNbtVarInt32(Tail(s)), LAMBDA n, rest :
                 Then(DecItems(n, rest, LAMBDA t : DecodeTyped(Head(s), t)), LAMBDA v, more :
                      Read([elem |-> Head(s), items |-> v.items], more)))
      [] tag = TAG_BYTE_ARRAY ->
            Then(Then(ReadNbtVarInt32(s), ReadUpTo), LAMBDA b, rest : Read([b |-> b], rest))
      [] tag = TAG_INT_ARRAY ->
            Then(ReadNbtVarInt32(s), LAMBDA n, rest :
            Then(DecItems(n, rest, LAMBDA t : Number(ReadNbtVarInt32(t))), LAMBDA v, more :
                 Read([array |-> v.items], more)))
      [] tag = TAG_LONG_ARRAY ->
            Then(ReadNbtVarInt32(s), LAMBDA n, rest :
            Then(DecItems(n, rest, LongOrNone), LAMBDA v, more : Read([array |-> FlattenSeq(v.items)], more)))
      [] OTHER -> Error

\* PacketReader.nbt_typed; _read_nbt_block reads a block state this way.
ReadNbtTyped(s) ==
    IF s = <<>> THEN Read([fields |-> <<>>], <<>>)
    ELSE IF Head(s) = TAG_END THEN Read([fields |-> <<>>], Tail(s))
    ELSE Then(TypedStr(Tail(s)), LAMBDA name, rest : DecodeFields(rest, <<>>))
=============================================================================
