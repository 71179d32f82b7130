--------------------------- MODULE LoginHandshake ---------------------------
(***************************************************************************)
(* The login between a Dialer and a Listener (dial.py, listener.py), with  *)
(* the compression and the encryption of the two Connections below it      *)
(* (conn.py, proto/encryption.py).  The transport keeps the order.         *)
(*                                                                         *)
(* Each side is three things that run interleaved: the handshake, which    *)
(* waits for packets and answers them; the read loop, which decodes        *)
(* batches with whatever is turned on when it gets to them; and timeouts.  *)
(* A batch records what was turned on when it was encoded.                 *)
(***************************************************************************)
EXTENDS Integers, Sequences, Functions

CONSTANTS
    Client, Server,
    Formats,        \* how a client may log in: legacy, token, authenticated
    AppBound,       \* packets the server's application sends after accept()
    DamageBound     \* encrypted batches that arrive damaged

ASSUME PeersAssumption == Client # Server
ASSUME FormatsAssumption == Formats \subseteq {"legacy", "token", "authenticated"}
ASSUME BoundsAssumption == AppBound \in Nat /\ DamageBound \in Nat

Peer == {Client, Server}
Other(p) == IF p = Client THEN Server ELSE Client

VARIABLES
    format,      \* of the connection_request in Login
    dtls,        \* NetherNet: neither end encrypts; the server is then another program
    pc,          \* what each side's handshake is waiting for
    compress,    \* _compression is set
    cipher,      \* PacketEncrypt and PacketDecrypt of each side
    wire,        \* batches on their way to each side
    inbox,       \* _recv_queue of each side
    closed,      \* the Connection of each side is closed
    radiusSent,  \* _wait_for_spawn: chunk_radius_sent
    appSent,     \* packets the server's application has sent
    encoded,     \* how many batches each side has encoded
    decoded,     \* the batches each side has decoded, by number
    refused,     \* the batches it could not decode, by number
    skipped,     \* the packets each handshake has read without waiting for them
    damaged      \* the damaged batches on their way to each side, by number

handshake == <<format, dtls, pc, radiusSent, appSent, skipped>>
vars == <<handshake, compress, cipher, wire, inbox, closed, encoded, decoded, refused, damaged>>

PlayStatus == {"LoginSuccess", "PlayerSpawn"}
GamePacket == {"StartGame", "ChunkRadiusUpdated", "PacketViolationWarning", "PlayerSpawn"}
Packet == PlayStatus \cup GamePacket \cup
    {"RequestNetworkSettings", "NetworkSettings", "Login", "ServerToClientHandshake",
     "ClientToServerHandshake", "ClientCacheStatus", "ResourcePacksInfo", "ResourcePackStack",
     "ResourcePackClientResponse", "ResourcePacksReadyForValidation", "RequestChunkRadius",
     "Disconnect"}

\* n counts a side's batches; key is the place in the sender's key stream, 0 without encryption.
Batch == [n : Nat \ {0}, packets : Seq(Packet), compressed : BOOLEAN, key : Nat]

\* The packet types each step of the handshake waits for: _expect, _expect_any.
Expected(step) ==
    CASE step = "settings"   -> {"NetworkSettings"}
      [] step = "answer"     -> {"ServerToClientHandshake"} \cup PlayStatus
      [] step = "status"     -> PlayStatus
      [] step = "packsInfo"  -> {"ResourcePacksInfo"}
      [] step = "packStack"  -> {"ResourcePackStack"}
      [] step = "spawn"      -> Packet
      [] step = "request"    -> {"RequestNetworkSettings"}
      [] step = "login"      -> {"Login"}
      [] step = "ack"        -> {"ClientToServerHandshake"}
      [] step \in {"response", "completed"} -> {"ResourcePackClientResponse"}
      [] step = "ready"      -> {"ResourcePacksReadyForValidation"}
      [] OTHER               -> {}

Waiting(p) == Expected(pc[p]) # {}
Reads(p, kind) == inbox[p] # <<>> /\ Head(inbox[p]) = kind /\ ~closed[p]

\* The keys of the JSON object in the connection_request.
EncodeOffline(legacy) == IF legacy THEN {"chain"} ELSE {"Certificate", "AuthenticationType", "Token"}
EncodeAuthenticated == {"AuthenticationType", "Certificate", "Token"}
ConnectionRequest ==
    IF format = "authenticated" THEN EncodeAuthenticated ELSE EncodeOffline(format = "legacy")

\* parse_request looks for the chain, and the key in it, in the object itself: where it is
\* inside the Certificate string no public key is found.
HasPublicKey == "chain" \in ConnectionRequest

-----------------------------------------------------------------------------

Plain == [on |-> FALSE, sent |-> 0, read |-> 0, aligned |-> TRUE]
Fresh == [Plain EXCEPT !.on = TRUE]

\* Connection.enable_encryption, which the Dialer disables over NetherNet, and so does the
\* server there: a Listener has no NetherNet to listen on.
Enabled(c) == IF dtls THEN c ELSE Fresh

\* The cipher after encrypting n batches.
Used(c, n) == IF c.on THEN [c EXCEPT !.sent = @ + n] ELSE c

\* flush, encode_batch and encrypt: each list of packets becomes a batch, in order,
\* compressed if compression is on already, encrypted with the cipher c.
Send(p, lists, c) ==
    /\ wire' = [wire EXCEPT ![Other(p)] = @ \o
          [i \in 1..Len(lists) |->
              [n |-> encoded[p] + i, packets |-> lists[i], compressed |-> compress[p],
               key |-> IF c.on THEN c.sent + i ELSE 0]]]
    /\ encoded' = [encoded EXCEPT ![p] = @ + Len(lists)]

Init ==
    /\ format \in Formats /\ dtls \in BOOLEAN
    /\ pc = [p \in Peer |-> IF p = Client THEN "settings" ELSE "request"]
    /\ compress = [p \in Peer |-> FALSE]
    /\ cipher = [p \in Peer |-> Plain]
    /\ wire = [p \in Peer |-> IF p = Client THEN <<>> ELSE
          <<[n |-> 1, packets |-> <<"RequestNetworkSettings">>, compressed |-> FALSE, key |-> 0]>>]
    /\ inbox = [p \in Peer |-> <<>>]
    /\ closed = [p \in Peer |-> FALSE]
    /\ radiusSent = FALSE /\ appSent = 0
    /\ encoded = [p \in Peer |-> IF p = Client THEN 1 ELSE 0]
    /\ decoded = [p \in Peer |-> <<>>]
    /\ refused = [p \in Peer |-> {}]
    /\ skipped = [p \in Peer |-> {}]
    /\ damaged = [p \in Peer |-> {}]

-----------------------------------------------------------------------------
(* The read loop.                                                          *)

\* decrypt_and_verify: the checksum fits if the sender and the receiver agree on
\* the counter and on the place in the key stream.
Decrypts(p, b) ==
    IF cipher[p].on
    THEN cipher[p].aligned /\ b.key = cipher[p].read + 1
    ELSE b.key = 0

Decodes(p, b) ==
    /\ b.n \notin damaged[p]
    /\ Decrypts(p, b)
    /\ compress[p] = b.compressed

\* The key stream moves on by what arrives, the counter by one.  An unencrypted or
\* a cut batch leaves the stream out of step for good.
AfterDecrypt(p, b, cut) ==
    IF cipher[p].on
    THEN [cipher[p] EXCEPT !.read = @ + 1, !.aligned = @ /\ b.key # 0 /\ ~cut]
    ELSE cipher[p]

\* A batch that cannot be decoded is logged and dropped; the loop goes on.
ReadBatch(p) ==
    /\ wire[p] # <<>> /\ ~closed[p]
    /\ LET b == Head(wire[p]) IN
       /\ wire' = [wire EXCEPT ![p] = Tail(@)]
       /\ \E cut \in {FALSE, b.n \in damaged[p]} :
             cipher' = [cipher EXCEPT ![p] = AfterDecrypt(p, b, cut)]
       /\ IF Decodes(p, b)
          THEN /\ inbox' = [inbox EXCEPT ![p] = @ \o b.packets]
               /\ decoded' = [decoded EXCEPT ![p] = Append(@, b.n)]
               /\ UNCHANGED refused
          ELSE /\ refused' = [refused EXCEPT ![p] = @ \cup {b.n}]
               /\ UNCHANGED <<inbox, decoded>>
    /\ UNCHANGED <<handshake, compress, closed, encoded, damaged>>

\* The transport hands over an encrypted batch that is not the one that was sent.
Damage(p) ==
    /\ \A q \in Peer : damaged[q] = {}
    /\ DamageBound > 0
    /\ \E i \in DOMAIN wire[p] :
          /\ wire[p][i].key # 0
          /\ damaged' = [damaged EXCEPT ![p] = @ \cup {wire[p][i].n}]
    /\ UNCHANGED <<handshake, compress, cipher, wire, inbox, closed, encoded, decoded, refused>>

-----------------------------------------------------------------------------
(* One step of a handshake: it reads the packet it waits for and answers.  *)

Taking(p) ==
    /\ inbox' = [inbox EXCEPT ![p] = Tail(@)]
    /\ UNCHANGED <<format, dtls, closed, decoded, refused, damaged>>

Goes(p, step) == pc' = [pc EXCEPT ![p] = step]

\* The step that only answers, with what is turned on.
Answer(p, from, kind, lists, to) ==
    /\ pc[p] = from /\ Reads(p, kind) /\ Taking(p)
    /\ Send(p, lists, cipher[p])
    /\ cipher' = [cipher EXCEPT ![p] = Used(@, Len(lists))]
    /\ Goes(p, to)
    /\ UNCHANGED <<compress, radiusSent, appSent, skipped>>

\* _expect: other packets are logged and skipped, a Disconnect too.
Skip(p) ==
    /\ Waiting(p) /\ inbox[p] # <<>> /\ ~closed[p]
    /\ Head(inbox[p]) \notin Expected(pc[p])
    /\ Taking(p)
    /\ skipped' = [skipped EXCEPT ![p] = @ \cup {Head(inbox[p])}]
    /\ UNCHANGED <<pc, radiusSent, appSent, compress, cipher, wire, encoded>>

\* NetworkSettings turns compression on; Login is the first compressed batch.
ReadSettings ==
    /\ pc[Client] = "settings" /\ Reads(Client, "NetworkSettings") /\ Taking(Client)
    /\ compress' = [compress EXCEPT ![Client] = TRUE]
    /\ wire' = [wire EXCEPT ![Server] = Append(@,
          [n |-> encoded[Client] + 1, packets |-> <<"Login">>, compressed |-> TRUE, key |-> 0])]
    /\ encoded' = [encoded EXCEPT ![Client] = @ + 1]
    /\ Goes(Client, "answer")
    /\ UNCHANGED <<cipher, radiusSent, appSent, skipped>>

\* Mutant: the answer goes out before encryption is on.
ReadHandshakeAnswersPlain ==
    /\ pc[Client] = "answer" /\ Reads(Client, "ServerToClientHandshake") /\ Taking(Client)
    /\ Send(Client, <<<<"ClientToServerHandshake">>>>, cipher[Client])
    /\ cipher' = [cipher EXCEPT ![Client] = Enabled(@)]
    /\ Goes(Client, "status")
    /\ UNCHANGED <<compress, radiusSent, appSent, skipped>>

\* Mutant: encryption is turned on once for the answer and once more after it.
ReadHandshakeTwice ==
    /\ pc[Client] = "answer" /\ Reads(Client, "ServerToClientHandshake") /\ Taking(Client)
    /\ Send(Client, <<<<"ClientToServerHandshake">>>>, Enabled(cipher[Client]))
    /\ cipher' = [cipher EXCEPT ![Client] = Enabled(@)]
    /\ Goes(Client, "status")
    /\ UNCHANGED <<compress, radiusSent, appSent, skipped>>

\* ServerToClientHandshake turns encryption on; ClientToServerHandshake is the
\* first encrypted batch.
ReadHandshake ==
    /\ pc[Client] = "answer" /\ Reads(Client, "ServerToClientHandshake") /\ Taking(Client)
    /\ Send(Client, <<<<"ClientToServerHandshake">>>>, Enabled(cipher[Client]))
    /\ cipher' = [cipher EXCEPT ![Client] = Used(Enabled(@), 1)]
    /\ Goes(Client, "status")
    /\ UNCHANGED <<compress, radiusSent, appSent, skipped>>

ReadStatus ==
    \E from \in {"answer", "status"}, kind \in PlayStatus :
        Answer(Client, from, kind, <<<<"ClientCacheStatus">>>>, "packsInfo")

\* Mutant: ready for validation before the stack has come.
ReadPacksEarly ==
    \/ Answer(Client, "packsInfo", "ResourcePacksInfo",
              <<<<"ResourcePackClientResponse">>, <<"ResourcePacksReadyForValidation">>>>,
              "packStack")
    \/ Answer(Client, "packStack", "ResourcePackStack", <<<<"ResourcePackClientResponse">>>>,
              "spawn")

ReadPacks ==
    \/ Answer(Client, "packsInfo", "ResourcePacksInfo", <<<<"ResourcePackClientResponse">>>>,
              "packStack")
    \/ Answer(Client, "packStack", "ResourcePackStack",
              <<<<"ResourcePackClientResponse">>, <<"ResourcePacksReadyForValidation">>>>, "spawn")

\* Mutant: a Disconnect ends the wait as PlayerSpawn does.
WaitForSpawnOrEnd ==
    /\ pc[Client] = "spawn" /\ inbox[Client] # <<>> /\ ~closed[Client]
    /\ Head(inbox[Client]) \in {"PlayerSpawn", "Disconnect"}
    /\ Taking(Client)
    /\ Goes(Client, "done")
    /\ UNCHANGED <<compress, appSent, skipped, radiusSent, wire, encoded, cipher>>

\* _wait_for_spawn: PlayerSpawn ends it, and the first packet of a kind it does not
\* know is answered with the chunk radius.
WaitForSpawn ==
    /\ pc[Client] = "spawn" /\ inbox[Client] # <<>> /\ ~closed[Client]
    /\ LET kind == Head(inbox[Client]) IN
       /\ kind # "Disconnect"
       /\ Taking(Client)
       /\ Goes(Client, IF kind = "PlayerSpawn" THEN "done" ELSE "spawn")
       /\ IF kind \in PlayStatus \cup {"ChunkRadiusUpdated"} \/ radiusSent
          THEN UNCHANGED <<radiusSent, wire, encoded, cipher>>
          ELSE /\ radiusSent' = TRUE
               /\ Send(Client, <<<<"RequestChunkRadius">>>>, cipher[Client])
               /\ cipher' = [cipher EXCEPT ![Client] = Used(@, 1)]
    /\ UNCHANGED <<compress, appSent, skipped>>

-----------------------------------------------------------------------------
(* Listener._server_handshake, and the application behind accept().        *)

\* NetworkSettings itself is not compressed.
ReadRequest ==
    /\ pc[Server] = "request" /\ Reads(Server, "RequestNetworkSettings") /\ Taking(Server)
    /\ Send(Server, <<<<"NetworkSettings">>>>, cipher[Server])
    /\ compress' = [compress EXCEPT ![Server] = TRUE]
    /\ Goes(Server, "login")
    /\ UNCHANGED <<cipher, radiusSent, appSent, skipped>>

Welcome == <<<<"LoginSuccess", "ResourcePacksInfo">>>>

\* With the client's public key: ServerToClientHandshake, and encryption after it.
ReadLogin ==
    \/ /\ HasPublicKey
       /\ pc[Server] = "login" /\ Reads(Server, "Login") /\ Taking(Server)
       /\ Send(Server, <<<<"ServerToClientHandshake">>>>, cipher[Server])
       /\ cipher' = [cipher EXCEPT ![Server] = Enabled(@)]
       /\ Goes(Server, "ack")
       /\ UNCHANGED <<compress, radiusSent, appSent, skipped>>
    \/ ~HasPublicKey /\ Answer(Server, "login", "Login", Welcome, "response")

\* Mutant: the stack is sent when the client has all packs.
ReadAnswersStackLate ==
    \/ Answer(Server, "ack", "ClientToServerHandshake", Welcome, "response")
    \/ Answer(Server, "response", "ResourcePackClientResponse", <<>>, "completed")
    \/ Answer(Server, "completed", "ResourcePackClientResponse", <<<<"ResourcePackStack">>>>, "ready")
    \/ Answer(Server, "ready", "ResourcePacksReadyForValidation", <<>>, "queued")

ReadAnswers ==
    \/ Answer(Server, "ack", "ClientToServerHandshake", Welcome, "response")
    \/ Answer(Server, "response", "ResourcePackClientResponse", <<<<"ResourcePackStack">>>>,
              "completed")
    \/ Answer(Server, "completed", "ResourcePackClientResponse", <<>>, "ready")
    \/ Answer(Server, "ready", "ResourcePacksReadyForValidation", <<>>, "queued")

Accept ==
    /\ pc[Server] = "queued" /\ Goes(Server, "accepted")
    /\ UNCHANGED <<format, dtls, radiusSent, appSent, skipped, compress, cipher, wire, inbox,
                   closed, encoded, decoded, refused, damaged>>

AppSends ==
    /\ pc[Server] = "accepted" /\ ~closed[Server] /\ appSent < AppBound
    /\ \E kind \in GamePacket : Send(Server, <<<<kind>>>>, cipher[Server])
    /\ cipher' = [cipher EXCEPT ![Server] = Used(@, 1)]
    /\ appSent' = appSent + 1
    /\ UNCHANGED <<format, dtls, pc, radiusSent, skipped, compress, inbox, closed, decoded,
                   refused, damaged>>

-----------------------------------------------------------------------------
(* The ends.                                                               *)

Close(p) == closed' = [closed EXCEPT ![p] = TRUE]

\* The handshake raises: dial() closes the Connection; the Listener says why first.
Fail(p) ==
    /\ Goes(p, "failed") /\ Close(p)
    /\ IF p = Server
       THEN /\ Send(Server, <<<<"Disconnect">>>>, cipher[Server])
            /\ cipher' = [cipher EXCEPT ![Server] = Used(@, 1)]
       ELSE UNCHANGED <<wire, encoded, cipher>>
    /\ UNCHANGED <<format, dtls, radiusSent, appSent, skipped, compress, inbox, decoded, refused,
                   damaged>>

\* Mutant: waiting for the spawn has no limit.
TimeoutBeforeSpawn(p) == Waiting(p) /\ pc[p] # "spawn" /\ inbox[p] = <<>> /\ Fail(p)

\* asyncio.wait_for around read_packet, which answers at once if a packet is there.
Timeout(p) == Waiting(p) /\ inbox[p] = <<>> /\ Fail(p)

\* The other side has closed: the next read or the next write raises.
PeerGone(p) ==
    /\ closed[Other(p)] /\ Waiting(p)
    /\ inbox[p] # <<>> => Head(inbox[p]) \in Expected(pc[p])
    /\ Fail(p)

ToldToGo ==
    /\ pc[Client] = "spawn" /\ Reads(Client, "Disconnect")
    /\ Fail(Client)

\* After the handshake either application may close.
AppCloses(p) ==
    /\ pc[p] \in {"done", "accepted"} /\ ~closed[p]
    /\ Close(p)
    /\ UNCHANGED <<handshake, compress, cipher, wire, inbox, encoded, decoded, refused, damaged>>

Dialing == ReadSettings \/ ReadHandshake \/ ReadStatus \/ ReadPacks \/ WaitForSpawn \/ ToldToGo
Listening == ReadRequest \/ ReadLogin \/ ReadAnswers

Next ==
    \/ Dialing \/ Listening \/ Accept \/ AppSends
    \/ \E p \in Peer : ReadBatch(p) \/ Damage(p) \/ Skip(p) \/ Timeout(p) \/ PeerGone(p)
                         \/ AppCloses(p)

Spec == Init /\ [][Next]_vars

\* Read loops, handshakes and timers run; applications and the transport need not.
Fairness ==
    /\ WF_vars(Dialing) /\ WF_vars(Listening)
    /\ \A p \in Peer : WF_vars(ReadBatch(p)) /\ WF_vars(Skip(p)) /\ WF_vars(Timeout(p))

FairSpec == Spec /\ Fairness

-----------------------------------------------------------------------------
(* Properties.                                                             *)

Step == {"settings", "answer", "status", "packsInfo", "packStack", "spawn", "done", "request",
         "login", "ack", "response", "completed", "ready", "queued", "accepted", "failed"}

\* Types of the variables.
TypeOK ==
    /\ format \in Formats /\ dtls \in BOOLEAN
    /\ pc \in [Peer -> Step]
    /\ compress \in [Peer -> BOOLEAN] /\ closed \in [Peer -> BOOLEAN]
    /\ cipher \in [Peer -> [on : BOOLEAN, sent : Nat, read : Nat, aligned : BOOLEAN]]
    /\ wire \in [Peer -> Seq(Batch)]
    /\ inbox \in [Peer -> Seq(Packet)]
    /\ radiusSent \in BOOLEAN /\ appSent \in 0..AppBound
    /\ encoded \in [Peer -> Nat]
    /\ decoded \in [Peer -> Seq(Nat)]
    /\ refused \in [Peer -> SUBSET Nat] /\ damaged \in [Peer -> SUBSET Nat]
    /\ skipped \in [Peer -> SUBSET Packet]

\* The read loop decodes ahead of the handshake, with what is turned on then.  What was
\* turned on at the writer is the same: a batch is lost only to damage, to damage before
\* it, or because it is the Disconnect of a server that has just given up.
RefusedOnlyDamage ==
    \A p \in Peer : \A n \in refused[p] :
        \/ \E d \in damaged[p] : d <= n
        \/ p = Client /\ pc[Server] = "failed" /\ n = encoded[Server]

\* With nothing under way the two ends of a direction are at the same place in the
\* key stream, as long as both read loops run.
StreamsAgree ==
    \A p \in Peer :
        wire[p] = <<>> /\ refused[p] = {} /\ ~closed[p] /\ cipher[p].on /\ cipher[Other(p)].on
            => cipher[p].read = cipher[Other(p)].sent

\* _expect and _expect_any throw away what they do not wait for.  Between a Dialer
\* and a Listener that is never a packet that the other step of the handshake needs.
NothingNeededIsSkipped ==
    (\A p \in Peer : damaged[p] = {})
        => skipped[Client] \subseteq {"Disconnect"} /\ skipped[Server] \subseteq {"ClientCacheStatus"}

\* The two handshakes never wait for each other: while neither has failed, nothing is damaged
\* and nothing is on its way, the server's has come to its end and the client waits at most
\* for the application behind it.  A timeout has another cause.
NeverBothWait ==
    (\A p \in Peer : damaged[p] = {} /\ pc[p] # "failed" /\ wire[p] = <<>> /\ inbox[p] = <<>>)
        => pc[Client] \in {"spawn", "done"} /\ pc[Server] \in {"queued", "accepted"}

\* dial() returns only when the server's handshake has come to its end and its
\* connection has been accepted, and with the same cipher as the server.
DoneTogether ==
    pc[Client] = "done" => pc[Server] = "accepted" /\ cipher[Client].on = cipher[Server].on

\* Neither handshake hangs: not when the other side fails, closes, falls silent, or
\* says Disconnect to somebody who waits for something else.
HandshakesEnd ==
    /\ <>(pc[Client] \in {"done", "failed"})
    /\ <>(pc[Server] \in {"queued", "accepted", "failed"})
=============================================================================
