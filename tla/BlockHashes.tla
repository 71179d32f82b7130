----------------------------- MODULE BlockHashes -----------------------------
(***************************************************************************)
(* The hashes that stand for block states in a palette (chunk.py): FNV-1a  *)
(* of the state in the little endian encoding, its fields in order; the    *)
(* table of the states that the package ships; the name of a block of NBT. *)
(*                                                                         *)
(* Keys are in the order of their names: "name" is <<1>>, "states" <<2>>,  *)
(* "version" <<3>>.  A name that ends in "_bit" ends in the byte Bit.      *)
(***************************************************************************)
EXTENDS Nbt, TLC
LOCAL INSTANCE Bitwise

CONSTANTS
    FnvOffset,  \* _FNV1A_OFFSET, of as many bits as an int has
    FnvPrime    \* _FNV1A_PRIME

ASSUME FnvAssumption == FnvOffset \in 0..(IntLimit - 1) /\ FnvPrime \in Nat \ {0}

KEY_NAME == <<1>>
KEY_STATES == <<2>>
Bit == 9
AIR == <<0>>
UNKNOWN == <<Byte - 1>>

\* _fnv1a_32: a byte changes the low bits, the product all above.
Fnv1a(bytes) ==
    FoldLeft(LAMBDA h, b : ((h - (h % Byte) + ((h % Byte) ^^ b)) * FnvPrime) % IntLimit, FnvOffset, bytes)

\* Mutant: in the order of the dict.
Unsorted(fields) == fields

\* sorted(): strings in the order of their bytes.
Precedes(a, b) ==
    \/ IsStrictPrefix(a, b)
    \/ \E i \in DOMAIN a \cap DOMAIN b : a[i] < b[i] /\ SubSeq(a, 1, i - 1) = SubSeq(b, 1, i - 1)
Sorted(fields) == SortSeq(fields, LAMBDA f, g : Precedes(f.name, g.name))

RECURSIVE LeEncodeTyped(_, _)
LeFields(fields) ==
    FlattenSeq([i \in DOMAIN fields |->
        LET f == fields[i] IN <<f.tag>> \o EncStr("little", f.name) \o LeEncodeTyped(f.tag, f.value)])
    \o <<TAG_END>>

\* _le_encode_typed: the keys of a compound in order, at every depth.  struct raises an error
\* for a number beyond its width: such values are left out.
LeEncodeTyped(tag, v) ==
    CASE tag = TAG_BYTE -> <<v.n % Byte>>
      [] tag = TAG_SHORT -> LittleEndian(2, v.n)
      [] tag = TAG_INT -> LittleEndian(IntBytes, v.n)
      [] tag = TAG_LONG -> LittleEndian(LongBytes, v.n)
      [] tag = TAG_FLOAT -> LittleEndian(IntBytes, v.f)
      [] tag = TAG_DOUBLE -> LittleEndian(LongBytes, v.f)
      [] tag = TAG_STRING -> EncStr("little", v.s)
      [] tag = TAG_COMPOUND -> LeFields(Sorted(v.fields))
      [] tag = TAG_LIST ->
            <<v.elem>> \o LittleEndian(IntBytes, Len(v.items))
            \o FlattenSeq([i \in DOMAIN v.items |-> LeEncodeTyped(v.elem, v.items[i])])
      [] tag = TAG_BYTE_ARRAY -> LittleEndian(IntBytes, Len(v.b)) \o v.b
      [] tag \in {TAG_INT_ARRAY, TAG_LONG_ARRAY} ->
            LittleEndian(IntBytes, Len(v.array))
            \o FlattenSeq([i \in DOMAIN v.array |->
                   LittleEndian(IF tag = TAG_INT_ARRAY THEN IntBytes ELSE LongBytes, v.array[i].n)])

\* _block_state_to_le_bytes
BlockBytes(fields) == <<TAG_COMPOUND, 0, 0>> \o LeEncodeTyped(TAG_COMPOUND, [fields |-> fields])

-----------------------------------------------------------------------------
(* What is hashed: of a block that is given by name and states only these, *)
(* of a palette whatever the server wrote.                                 *)

\* The field of a name if it has the tag: one or none.
Tagged(fields, name, tag) == SelectSeq(fields, LAMBDA f : f.name = name /\ f.tag = tag)

StateHash(fields) == Fnv1a(BlockBytes(fields))

\* compute_block_hash_typed: the tags as they were read.
compute_block_hash_typed(name, states) ==
    StateHash(<<[name |-> KEY_NAME, tag |-> TAG_STRING, value |-> [s |-> name]],
                [name |-> KEY_STATES, tag |-> TAG_COMPOUND, value |-> [fields |-> states]]>>)

\* compute_block_hash, which has the states without tags: an int is a byte when its name ends
\* in "_bit".  Other values than these it makes bytes: they are left out.
StateTag(state) ==
    CASE Is(state.value, "s") -> TAG_STRING
      [] Is(state.value, "n") -> IF IsSuffix(<<Bit>>, state.name) THEN TAG_BYTE ELSE TAG_INT
      [] Is(state.value, "f") -> TAG_FLOAT
compute_block_hash(name, states) ==
    compute_block_hash_typed(name, [i \in DOMAIN states |->
        [name |-> states[i].name, tag |-> StateTag(states[i]), value |-> states[i].value]])

\* A block of the file in the table; an entry without a name is not.
WithCanonical(table, fields) ==
    LET name == Tagged(fields, KEY_NAME, TAG_STRING)
        states == Tagged(fields, KEY_STATES, TAG_COMPOUND)
    IN CASE name = <<>> -> table
         [] name # <<>> /\ name[1].value.s = UNKNOWN -> ((IntLimit - 2) :> UNKNOWN) @@ table
         [] OTHER -> (compute_block_hash_typed(name[1].value.s,
                          IF states = <<>> THEN <<>> ELSE states[1].value.fields) :> name[1].value.s) @@ table

\* load_canonical_block_hashes: the compounds of the file, up to what is none.
RECURSIVE LoadBlocks(_, _)
LoadBlocks(s, table) ==
    IF s = <<>> \/ Head(s) # TAG_COMPOUND THEN Read(table, s)
    ELSE Then(ReadNbtTyped(s), LAMBDA v, rest : LoadBlocks(rest, WithCanonical(table, v.fields)))
load_canonical_block_hashes(data) == LoadBlocks(data, <<>>)

\* A hash table is [known, names], a function from hashes to names; NoTable is None.
NoTable == [known |-> FALSE, names |-> <<>>]

\* With a table, the hash of all fields of a block is learned, its version too.
Learned(table, name, fields) ==
    IF ~table.known \/ name = AIR THEN table
    ELSE [table EXCEPT !.names = (StateHash(fields) :> name) @@ @]

\* The name in a field, of which there is one or none.
NameOrAir(named) == IF named = <<>> THEN AIR ELSE named[1].value.s

\* A block that the typed reader read, with its name; and one that the reader of codec.py did.
TypedBlock(name, r, table) == [name |-> name, rest |-> r.rest, table |-> Learned(table, name, r.v.fields)]
OtherBlock(r, table) ==
    [name |-> NameOrAir(SelectSeq(r.v.fields, LAMBDA f : f.name = KEY_NAME)), rest |-> r.rest, table |-> table]

\* What is no block is air, and one byte.
NoBlock(s, table) == [name |-> AIR, rest |-> Drop(s, 1), table |-> table]

\* What the typed reader fails on the reader of codec.py is given.
TypedOr(typed, other, s, table) ==
    IF ~Failed(typed) THEN TypedBlock(NameOrAir(Tagged(typed.v.fields, KEY_NAME, TAG_STRING)), typed, table)
    ELSE IF ~Failed(other) THEN OtherBlock(other, table)
    ELSE NoBlock(s, table)

\* _read_nbt_block: a name, and the table.
ReadNbtBlock(s, table) ==
    IF s = <<>> \/ Head(s) # TAG_COMPOUND THEN NoBlock(s, table)
    ELSE TypedOr(ReadNbtTyped(s), Decode("network", s), s, table)
=============================================================================
