---------------------------- MODULE PacketBatch ----------------------------
(***************************************************************************)
(* Packets and batches of packets (proto/pool.py): the header of a packet, *)
(* the pool that gives its class, the lengths in a batch, the marker of    *)
(* its compression.                                                        *)
(***************************************************************************)
EXTENDS PacketIO

CONSTANTS
    IdLimit,               \* packet ids are below it: 2^10, the rest of a header is subclients
    MAX_BATCH_SIZE,        \* packets in a batch that is accepted
    compression_threshold  \* bytes of a batch that is not compressed

ASSUME BatchAssumption ==
    IdLimit \in Nat \ {0} /\ MAX_BATCH_SIZE \in Nat /\ compression_threshold \in Nat

\* encode_packet, decode_packet.  A pool is the set of the ids that it has; the class of the
\* packet, or UnknownPacket, reads the payload.
EncodePacket(pk) == VarUint[pk.id] \o pk.payload
DecodePacket(data, pool) ==
    Then(ReadVarUint32(data), LAMBDA header, payload :
         [id |-> header % IdLimit, known |-> header % IdLimit \in pool, payload |-> payload])

\* encode_batch: with a compression the batch carries the marker of the one that was used,
\* "none" below the threshold.  An algorithm that it does not know it names, and does not use.
EncodeBatch(packets, compression, header) ==
    LET data == FlattenSeq([i \in DOMAIN packets |-> Prefixed(packets[i])])
        used == IF compression = "no" THEN "no"
                ELSE IF Len(data) < compression_threshold THEN "none" ELSE compression
    IN [header |-> header, data |-> data, marker |-> used,
        compressed |-> IF used \in {"flate", "snappy"} THEN used ELSE "no"]

\* The packets of a batch, to the last byte.
Packets(data) ==
    LET Step(s) == ReadBytes(ReadVarUint(IntBytes, s))
        After[i \in 0..Len(data)] ==
            IF i = 0 THEN Read(<<>>, data)
            ELSE Then(After[i - 1], LAMBDA sofar, rest :
                      IF rest = <<>> THEN Read(sofar, rest)
                      ELSE Then(Step(rest), LAMBDA x, more : Read(Append(sofar, x), more)))
    IN After[Len(data)]

\* decode_batch.
DecodeBatch(batch, compression, header) ==
    LET uncompressed ==
            IF compression = "no" THEN batch.marker = "no" /\ batch.compressed = "no"
            ELSE batch.marker \in {"none", "flate", "snappy"}
    IN IF batch.header # header \/ ~uncompressed THEN Error
       ELSE LET r == Packets(batch.data) IN
            IF Failed(r) \/ Len(r.v) > MAX_BATCH_SIZE THEN Error ELSE Read(r.v, <<>>)
=============================================================================
