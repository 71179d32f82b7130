---------------------------- MODULE ResourcePack ----------------------------
(***************************************************************************)
(* The chunks in which a resource pack is sent (resource/pack.py).         *)
(***************************************************************************)
EXTENDS Integers, Sequences, FiniteSets

data_chunk_count(content, chunk_size) ==
    IF chunk_size <= 0 THEN 1 ELSE (Len(content) + chunk_size - 1) \div chunk_size

\* A slice: shorter at the end of the pack, empty beyond it.
read_at(content, offset, length) ==
    [i \in 1..Cardinality({k \in DOMAIN content : k > offset /\ k <= offset + length}) |-> content[offset + i]]
=============================================================================
