------------------------------- MODULE Chunk -------------------------------
(***************************************************************************)
(* The parser of chunks (chunk.py): the palettes and packed words of a     *)
(* block storage, versions 1, 8 and 9 of a sub-chunk, the top blocks of a  *)
(* chunk, the entries of a SubChunk packet.                                *)
(***************************************************************************)
EXTENDS BlockHashes

CONSTANTS
    Side,       \* blocks along a side of a sub-chunk
    WordBytes   \* bytes of a word of packed indices

ASSUME ChunkAssumption == Side \in Nat \ {0} /\ WordBytes \in Nat \ {0}

Volume == Side ^ 3
WordBits == WordBytes * ByteBits

\* dict.get(key, AIR)
Lookup(table, key) == IF key \in DOMAIN table.names THEN table.names[key] ELSE AIR
Entry(list, i) == IF i < Len(list) THEN list[i + 1] ELSE AIR

-----------------------------------------------------------------------------
(* Block storage.                                                          *)

\* _zigzag_decode: as an unsigned int.
ZigzagDecode(v) == Unzigzag(v) % IntLimit

\* A palette of NBT, one block after the other, behind those that a has.
RECURSIVE ReadNbtPalette(_, _)
WithBlock(names, r) == [names |-> Append(names, r.name), rest |-> r.rest, table |-> r.table]
ReadNbtPalette(n, a) ==
    IF n = 0 THEN a ELSE ReadNbtPalette(n - 1, WithBlock(a.names, ReadNbtBlock(a.rest, a.table)))

\* A palette of runtime ids or hashes: those that are missing at the end of the data are 0.
NextId(ids, s) ==
    IF \E j \in DOMAIN s : j <= Groups(IntBytes) /\ s[j] < Group
    THEN Then(ReadVarUint32(s), LAMBDA id, rest : Read(Append(ids, id), rest))
    ELSE IF Len(s) >= Groups(IntBytes) THEN Error ELSE Read(Append(ids, 0), s)
ReadIds(n, s) ==
    LET After[i \in 0..n] == IF i = 0 THEN Read(<<>>, s) ELSE Then(After[i - 1], NextId)
    IN After[n]

PerWord(bits) == WordBits \div bits

\* The indices in the words: as many in each as it has room for, low bits first.
Unpack(words, bits) ==
    [i \in 0..(Volume - 1) |->
        (words[(i \div PerWord(bits)) + 1] \div (2 ^ ((i % PerWord(bits)) * bits))) % (2 ^ bits)]

\* The palette as names; with one block for all, its first entry is that block.
Names(single, names) == IF single THEN <<Entry(names, 0)>> ELSE names

\* A storage with a palette of NBT.
WithBlocks(indices, single, p) ==
    [ids |-> indices, rest |-> p.rest, table |-> p.table, local |-> TRUE, palette |-> Names(single, p.names)]

\* A storage with a palette of hashes, which the table names, or of runtime ids.
WithNumbers(indices, single, table, p) ==
    IF Failed(p) THEN Error
    ELSE IF table.known
    THEN [ids |-> indices, rest |-> p.rest, table |-> table, local |-> TRUE,
          palette |-> Names(single, [i \in DOMAIN p.v |-> Lookup(table, ZigzagDecode(p.v[i]))])]
    ELSE [ids |-> [i \in DOMAIN indices |-> IF indices[i] < Len(p.v) THEN p.v[indices[i] + 1] ELSE 0],
          rest |-> p.rest, table |-> table, palette |-> <<>>, local |-> FALSE]

\* A single block that is not there has the id 0.
Single(p) == IF ~Failed(p) /\ p.v = <<>> THEN Read(<<0>>, p.rest) ELSE p

\* What follows the indices: the palette, of as many entries as size says.
ReadPalette(indices, single, runtime, size, table) ==
    IF Failed(size) THEN Error
    ELSE IF ~runtime THEN WithBlocks(indices, single, ReadNbtPalette(size.v, [names |-> <<>>, rest |-> size.rest, table |-> table]))
    ELSE IF single
    THEN WithNumbers(indices, TRUE, table, Single(ReadTimes(size.v, size.rest, ReadVarUint32)))
    ELSE WithNumbers(indices, FALSE, table, ReadIds(size.v, size.rest))

ReadWords(bits, s) ==
    ReadTimes((Volume + PerWord(bits) - 1) \div PerWord(bits), s, LAMBDA t : ReadUnsigned(WordBytes, t))

AfterWords(words, bits, runtime, table) ==
    IF Failed(words) THEN Error
    ELSE ReadPalette(IF bits = 0 THEN [i \in 0..(Volume - 1) |-> 0] ELSE Unpack(words.v, bits),
                     bits = 0, runtime, ReadVarUint32(words.rest), table)

\* _parse_block_storage: the header has the number of bits and the form of the palette.
ParseBlockStorage(s, table) ==
    LET bits == Head(s) \div 2 IN
    IF s = <<>> \/ 2 * bits > WordBits THEN Error
    ELSE AfterWords(IF bits = 0 THEN Read(<<>>, Tail(s)) ELSE ReadWords(bits, Tail(s)),
                    bits, Head(s) % 2 = 1, table)

\* Mutant: the other layers are left in the data.
FirstLayer(layer, more) == layer

\* The other layers are skipped, up to one that cannot be read.
RECURSIVE SkipLayers(_, _)
Skip(layer, next, more) == IF Failed(next) THEN layer ELSE SkipLayers([layer EXCEPT !.rest = next.rest], more - 1)
SkipLayers(layer, more) ==
    IF Failed(layer) \/ more = 0 THEN layer ELSE Skip(layer, ParseBlockStorage(layer.rest, NoTable), more)

\* The versions that have a header.  Version 9 has the number of layers and the index of the
\* sub-chunk, and no layer is an error.
HasHeader(s) ==
    /\ s # <<>>
    /\ \/ Head(s) \in {1, 8}
       \/ Head(s) = 9 /\ Len(s) >= 3 /\ s[2] # 0

\* parse_sub_chunk: layer 0.
ParseSubChunk(s, table) ==
    IF ~HasHeader(s) THEN Error
    ELSE SkipLayers(ParseBlockStorage(Drop(s, IF Head(s) = 9 THEN 3 ELSE 1), table),
                    IF Head(s) = 9 THEN s[2] - 1 ELSE 0)

-----------------------------------------------------------------------------
(* The top blocks of a chunk.                                              *)

\* The name at cell i: by the palette of the sub-chunk, by hash, or by the palette of StartGame.
NameAt(sub, i, palette, table) ==
    IF sub.local THEN Entry(sub.palette, sub.ids[i])
    ELSE IF table.known /\ palette = <<>> THEN Lookup(table, sub.ids[i])
    ELSE Entry(palette, sub.ids[i])

Cell(x, z, y) == (x * Side + z) * Side + y

\* _extract_top_blocks: of each column the topmost block that is not air.
ExtractTopBlocks(subs, palette, table) ==
    [x \in 0..(Side - 1), z \in 0..(Side - 1) |->
        LET solid == {<<k, y>> \in (DOMAIN subs) \X (0..(Side - 1)) :
                          NameAt(subs[k], Cell(x, z, y), palette, table) # AIR}
            k == Max({p[1] : p \in solid})
            y == Max({p[2] : p \in {q \in solid : q[1] = k}})
        IN IF solid = {} THEN AIR ELSE NameAt(subs[k], Cell(x, z, y), palette, table)]

\* The sub-chunks from the bottom, on top of those that a has, up to one that cannot be read.
RECURSIVE SubChunks(_, _)
WithSubChunk(n, a, r) ==
    IF Failed(r) THEN a
    ELSE SubChunks(n - 1, [subs |-> Append(a.subs, r), rest |-> r.rest, table |-> r.table])
SubChunks(n, a) == IF n = 0 THEN a ELSE WithSubChunk(n, a, ParseSubChunk(a.rest, a.table))

TopBlocks(a, palette) ==
    IF a.subs = <<>> THEN Error ELSE Read(ExtractTopBlocks(a.subs, palette, a.table), <<>>)

\* parse_level_chunk_top_blocks
ParseLevelChunk(s, count, palette, table) ==
    IF s = <<>> THEN Error ELSE TopBlocks(SubChunks(count, [subs |-> <<>>, rest |-> s, table |-> table]), palette)

-----------------------------------------------------------------------------
(* The entries of a SubChunk packet.                                       *)

SC_RESULT_SUCCESS == 1
SC_RESULT_SUCCESS_ALL_AIR == 6
HEIGHTMAP_HAS_DATA == 1

\* A height map that is there, its data if it has them.
SkipHeightMap(s) ==
    IF s = <<>> THEN s ELSE Drop(s, IF Head(s) = HEIGHTMAP_HAS_DATA THEN 1 + Side ^ 2 ELSE 1)

\* The hash of a cached entry, which the reader leaves out when it is cut short.
SkipHash(cache_enabled, s) == IF cache_enabled /\ Len(s) >= LongBytes THEN Drop(s, LongBytes) ELSE s

\* What an entry gives: its cells if it has them.
EntryRead(s, sub, table, rest) ==
    Read([offset |-> <<Signed(<<s[1]>>), Signed(<<s[2]>>), Signed(<<s[3]>>)>>, code |-> s[4],
          sub |-> IF Failed(sub) THEN <<>> ELSE <<[ids |-> sub.ids, palette |-> sub.palette, local |-> sub.local]>>,
          table |-> IF Failed(sub) THEN table ELSE sub.table], rest)

\* The payload is read out of the bytes that its length gives: what is wrong with it does not
\* move the next entry.
ReadPayload(s, length, cache_enabled, table) ==
    IF Failed(length) THEN Error
    ELSE EntryRead(s, IF s[4] = SC_RESULT_SUCCESS
                      THEN ParseSubChunk(SubSeq(length.rest, 1, length.v), table) ELSE Error, table,
                   SkipHash(cache_enabled, SkipHeightMap(SkipHeightMap(Drop(length.rest, length.v)))))

\* One entry; all air has no payload in a cached one.
ParseEntry(s, cache_enabled, table) ==
    ReadPayload(s, IF cache_enabled /\ s[4] = SC_RESULT_SUCCESS_ALL_AIR THEN Read(0, Drop(s, 4))
                   ELSE ReadVarUint32(Drop(s, 4)), cache_enabled, table)

\* The entries behind those read so far, as long as there are any.
RECURSIVE ReadEntries(_, _, _, _, _)
WithEntry(n, entries, e, cache_enabled) ==
    IF Failed(e) THEN Error
    ELSE ReadEntries(n - 1, Append(entries, e.v), e.rest, cache_enabled, e.v.table)
ReadEntries(n, entries, s, cache_enabled, table) ==
    IF n = 0 \/ Len(s) < 4 THEN Read(entries, s)
    ELSE WithEntry(n, entries, ParseEntry(s, cache_enabled, table), cache_enabled)

\* parse_sub_chunk_entries
ParseEntries(s, cache_enabled, table) ==
    IF Len(s) < IntBytes THEN Read(<<>>, s)
    ELSE Then(ReadUnsigned(IntBytes, s), LAMBDA n, rest : ReadEntries(n, <<>>, rest, cache_enabled, table))
=============================================================================
