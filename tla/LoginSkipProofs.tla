--------------------------- MODULE LoginSkipProofs ---------------------------
(***************************************************************************)
(* A theorem about LoginHandshake: between a Dialer and a Listener no step *)
(* of a handshake throws away a packet that another step waits for.        *)
(*                                                                         *)
(* The invariant says what is in every batch by its number, what is left   *)
(* in each inbox by its place in the stream of packets, and how far each   *)
(* step of a handshake has read.                                           *)
(***************************************************************************)
EXTENDS LoginHandshakeProofs

\* Until something is damaged.
Undamaged == \A p \in Peer : damaged[p] = {}

\* The number of the server's batch with LoginSuccess: the third one, after
\* ServerToClientHandshake, if the server finds a public key.
Base == IF HasPublicKey THEN 3 ELSE 2

\* The packet in the client's batch n; a batch of the client has one packet.
ToServer(b, n) ==
    IF n = 1 THEN "RequestNetworkSettings"
    ELSE IF n = 2 THEN "Login"
    ELSE IF n = b THEN "ClientToServerHandshake"
    ELSE IF n = b + 1 THEN "ClientCacheStatus"
    ELSE IF n \in {b + 2, b + 3} THEN "ResourcePackClientResponse"
    ELSE IF n = b + 4 THEN "ResourcePacksReadyForValidation"
    ELSE "RequestChunkRadius"

\* The k-th packet of the server, of those that the handshake is made of.
ToClient(b, k) ==
    IF k = 1 THEN "NetworkSettings"
    ELSE IF k = b THEN "LoginSuccess"
    ELSE IF k = 2 THEN "ServerToClientHandshake"
    ELSE IF k = b + 1 THEN "ResourcePacksInfo"
    ELSE "ResourcePackStack"

\* After them comes what the application sends.
Fits(b, k, kind) == k <= b + 2 => kind = ToClient(b, k)

\* How many packets are in the server's batches before the n-th: one has two.
Before(b, n) == IF n > b THEN n ELSE n - 1

Regular(b, n, packets) ==
    /\ Len(packets) = IF n = b THEN 2 ELSE 1
    /\ \A j \in 1..Len(packets) : Fits(b, Before(b, n) + j, packets[j])

\* The last batch of a server whose handshake has failed says so.
Farewell(n) == pc[Server] = "failed" /\ n = encoded[Server]

StreamInv ==
    /\ \A i \in 1..Len(wire[Server]) :
          wire[Server][i].packets = <<ToServer(Base, Arrived(Server) + i)>>
    /\ \A i \in 1..Len(wire[Client]) :
          IF Farewell(Arrived(Client) + i) THEN wire[Client][i].packets = <<"Disconnect">>
          ELSE Regular(Base, Arrived(Client) + i, wire[Client][i].packets)

\* How many batches a side has encoded at each step.
CountInv ==
    /\ pc[Client] = "status" => Base = 3 /\ encoded[Client] = Base
    /\ pc[Client] = "packsInfo" => encoded[Client] = Base + 1
    /\ pc[Client] = "packStack" => encoded[Client] = Base + 2
    /\ pc[Client] = "spawn" => encoded[Client] >= Base + 4
    /\ pc[Server] = "ack" => Base = 3
    /\ pc[Server] = "response" => encoded[Server] = Base
    /\ pc[Server] \in {"completed", "ready"} => encoded[Server] = Base + 1
    /\ pc[Server] \in {"queued", "accepted"} => encoded[Server] >= Base + 1

\* How many packets a side has taken from its inbox at each step that waits for some of them.
ServerWaits == {"request", "login", "ack", "response", "completed", "ready"}
ServerTook(b, step, t) ==
    /\ step = "request" => t = 0
    /\ step = "login" => t = 1
    /\ step = "ack" => t = 2
    /\ step = "response" => t \in {b, b + 1}
    /\ step = "completed" => t = b + 2
    /\ step = "ready" => t = b + 3

ClientWaits == {"settings", "answer", "status", "packsInfo", "packStack"}
ClientTook(b, step, t) ==
    /\ step = "settings" => t = 0
    /\ step = "answer" => t = 1
    /\ step = "status" => t = 2
    /\ step = "packsInfo" => t = b
    /\ step = "packStack" => t = b + 1

\* What is left in an inbox after t packets, and the rest of the stream with it.
FromClient(b, t, box) == \A i \in 1..Len(box) : box[i] = ToServer(b, t + i)
FromServer(b, t, box, over) ==
    \A i \in 1..Len(box) :
        Fits(b, t + i, box[i]) \/ (over /\ i = Len(box) /\ box[i] = "Disconnect")

ServerReads ==
    pc[Server] \in ServerWaits =>
        \E t \in Nat :
            /\ ServerTook(Base, pc[Server], t)
            /\ Arrived(Server) = t + Len(inbox[Server])
            /\ FromClient(Base, t, inbox[Server])

\* The server has failed and nothing of it is under way.
Over == pc[Server] = "failed" /\ wire[Client] = <<>>

\* A client that has skipped the Disconnect waits for its timeout.
ClientReads ==
    pc[Client] \in ClientWaits =>
        \/ inbox[Client] = <<>> /\ Over
        \/ \E t \in Nat :
              /\ ClientTook(Base, pc[Client], t)
              /\ ~Over => Before(Base, Arrived(Client) + 1) = t + Len(inbox[Client])
              /\ FromServer(Base, t, inbox[Client], Over)

SkipsFew == skipped[Client] \subseteq {"Disconnect"} /\ skipped[Server] \subseteq {"ClientCacheStatus"}

Course == StreamInv /\ CountInv /\ ServerReads /\ ClientReads /\ SkipsFew

\* The inductive invariant, with LoginInv.
SkipInv == Undamaged => Course

-----------------------------------------------------------------------------
(* The stream.                                                             *)

\* The format of a login does not change.
LEMMA BaseStays ==
    ASSUME UNCHANGED format
    PROVE  Base' = Base
BY DEF Base, HasPublicKey, ConnectionRequest, EncodeOffline, EncodeAuthenticated

LEMMA BaseIs == Base \in {2, 3} /\ (HasPublicKey <=> Base = 3)
BY DEF Base

\* What a side adds to the other one's wire.
Added(p, lists) ==
    /\ encoded'[p] = encoded[p] + Len(lists) /\ encoded'[Other(p)] = encoded[Other(p)]
    /\ wire' \in [Peer -> Seq(Batch)]
    /\ wire'[p] = wire[p]
    /\ Len(wire'[Other(p)]) = Len(wire[Other(p)]) + Len(lists)
    /\ \A i \in 1..Len(wire[Other(p)]) : wire'[Other(p)][i] = wire[Other(p)][i]
    /\ \A i \in 1..Len(lists) : wire'[Other(p)][Len(wire[Other(p)]) + i].packets = lists[i]

LEMMA PacketsOf ==
    ASSUME NEW i, NEW packets, NEW on, NEW place
    PROVE  [n |-> i, packets |-> packets, compressed |-> on, key |-> place].packets = packets
OBVIOUS

LEMMA SendAdds ==
    ASSUME TypeOK, NEW p \in Peer, NEW lists \in Seq(Seq(Packet)), NEW c \in Cipher,
           Send(p, lists, c)
    PROVE  Added(p, lists)
<1>1. encoded \in [Peer -> Nat] /\ Other(p) \in Peer /\ Other(p) # p
  BY Peers DEF TypeOK
<1>2. /\ encoded' = [encoded EXCEPT ![p] = @ + Len(lists)]
      /\ wire' \in [Peer -> Seq(Batch)]
      /\ wire'[p] = wire[p]
      /\ Len(wire'[Other(p)]) = Len(wire[Other(p)]) + Len(lists)
      /\ \A i \in 1..Len(wire[Other(p)]) : wire'[Other(p)][i] = wire[Other(p)][i]
      /\ \A i \in 1..Len(lists) :
            wire'[Other(p)][Len(wire[Other(p)]) + i] =
               [n |-> encoded[p] + i, packets |-> lists[i], compressed |-> compress[p],
                key |-> IF c.on THEN c.sent + i ELSE 0]
  <2>1. Batched(p, lists, c)
    BY SendBatches
  <2>2. QED
    BY <2>1 DEF Batched
<1>3. encoded'[p] = encoded[p] + Len(lists) /\ encoded'[Other(p)] = encoded[Other(p)]
  BY <1>1, <1>2
<1>4. \A i \in 1..Len(lists) : wire'[Other(p)][Len(wire[Other(p)]) + i].packets = lists[i]
  <2>1. SUFFICES ASSUME NEW i \in 1..Len(lists)
                 PROVE  wire'[Other(p)][Len(wire[Other(p)]) + i].packets = lists[i]
    OBVIOUS
  <2>2. wire'[Other(p)][Len(wire[Other(p)]) + i] =
           [n |-> encoded[p] + i, packets |-> lists[i], compressed |-> compress[p],
            key |-> IF c.on THEN c.sent + i ELSE 0]
    BY <1>2
  <2>3. QED
    BY <2>2, PacketsOf
<1>5. QED
  BY <1>2, <1>3, <1>4 DEF Added

\* A side that sends nothing.
LEMMA NothingAdded ==
    ASSUME TypeOK, NEW p \in Peer, UNCHANGED <<wire, encoded>>
    PROVE  Added(p, <<>>)
BY Peers DEF Added, TypeOK

\* Numbers of both directions, and that sending moves no arrival.
LEMMA AddedNumbers ==
    ASSUME LoginInv, NEW p \in Peer, NEW lists \in Seq(Seq(Packet)), Added(p, lists)
    PROVE  /\ Len(lists) \in Nat
           /\ \A r \in Peer : /\ Arrived(r)' = Arrived(r) /\ Arrived(r) \in Nat
                              /\ Len(wire[r]) \in Nat /\ encoded[r] \in Nat
           /\ Arrived(Other(p)) + Len(wire[Other(p)]) = encoded[p]
<1>1. /\ Other(p) \in Peer /\ Other(p) # p /\ Other(Other(p)) = p
      /\ \A r \in Peer : r = p \/ r = Other(p)
  BY Peers
<1>2. \A r \in Peer : /\ Arrived(r) \in Nat /\ Len(wire[r]) \in Nat /\ encoded[r] \in Nat
                      /\ Arrived(r) = encoded[Other(r)] - Len(wire[r])
  BY Numbers
<1>3. Len(lists) \in Nat
  OBVIOUS
<1>4. Arrived(p)' = Arrived(p)
  BY <1>1 DEF Added, Arrived
<1>5. Arrived(Other(p))' = Arrived(Other(p))
  <2>1. Arrived(Other(p))' = encoded'[p] - Len(wire'[Other(p)])
    BY <1>1 DEF Arrived
  <2>2. QED
    BY <1>1, <1>2, <1>3, <2>1 DEF Added
<1>6. QED
  BY <1>1, <1>2, <1>3, <1>4, <1>5, SMTT(60)

\* The client's batches.
LEMMA ClientStream ==
    ASSUME LoginInv, StreamInv, NEW lists \in Seq(Seq(Packet)), Added(Client, lists),
           UNCHANGED format, pc'[Server] = pc[Server],
           \A i \in 1..Len(lists) : lists[i] = <<ToServer(Base, encoded[Client] + i)>>
    PROVE  StreamInv'
<1>1. Client \in Peer /\ Server \in Peer /\ Other(Client) = Server /\ Base' = Base
  BY Peers, BaseStays
<1>2. /\ Len(lists) \in Nat /\ Arrived(Server)' = Arrived(Server) /\ Arrived(Client)' = Arrived(Client)
      /\ Arrived(Server) \in Nat /\ Len(wire[Server]) \in Nat
      /\ Arrived(Server) + Len(wire[Server]) = encoded[Client]
  BY <1>1, AddedNumbers
<1>3. /\ encoded'[Server] = encoded[Server] /\ wire'[Client] = wire[Client]
      /\ Len(wire'[Server]) = Len(wire[Server]) + Len(lists)
      /\ \A i \in 1..Len(wire[Server]) : wire'[Server][i] = wire[Server][i]
      /\ \A i \in 1..Len(lists) : wire'[Server][Len(wire[Server]) + i].packets = lists[i]
  BY <1>1 DEF Added
<1>4. ASSUME NEW i \in 1..Len(wire'[Server])
      PROVE  wire'[Server][i].packets = <<ToServer(Base, Arrived(Server) + i)>>
  <2>1. CASE i <= Len(wire[Server])
    <3>1. i \in 1..Len(wire[Server])
      BY <1>2, <1>3, <2>1
    <3>2. QED
      BY <1>3, <3>1 DEF StreamInv
  <2>2. CASE i > Len(wire[Server])
    <3> DEFINE m == i - Len(wire[Server])
    <3>1. m \in 1..Len(lists) /\ i = Len(wire[Server]) + m /\ Arrived(Server) + i = encoded[Client] + m
      BY <1>2, <1>3, <2>2
    <3> HIDE DEF m
    <3>2. QED
      BY <1>3, <3>1
  <2>3. QED
    BY <1>2, <1>3, <2>1, <2>2
<1>5. QED
  BY <1>1, <1>2, <1>3, <1>4, SMTT(60) DEF StreamInv, Farewell

\* The server's batches, while its handshake has not failed.
LEMMA ServerStream ==
    ASSUME LoginInv, StreamInv, NEW lists \in Seq(Seq(Packet)), Added(Server, lists),
           UNCHANGED format, pc[Server] # "failed", pc'[Server] # "failed",
           \A i \in 1..Len(lists) : Regular(Base, encoded[Server] + i, lists[i])
    PROVE  StreamInv'
<1>1. Client \in Peer /\ Server \in Peer /\ Other(Server) = Client /\ Base' = Base
  BY Peers, BaseStays
<1>2. /\ Len(lists) \in Nat /\ Arrived(Server)' = Arrived(Server) /\ Arrived(Client)' = Arrived(Client)
      /\ Arrived(Client) \in Nat /\ Len(wire[Client]) \in Nat
      /\ Arrived(Client) + Len(wire[Client]) = encoded[Server]
  BY <1>1, AddedNumbers
<1>3. /\ wire'[Server] = wire[Server]
      /\ Len(wire'[Client]) = Len(wire[Client]) + Len(lists)
      /\ \A i \in 1..Len(wire[Client]) : wire'[Client][i] = wire[Client][i]
      /\ \A i \in 1..Len(lists) : wire'[Client][Len(wire[Client]) + i].packets = lists[i]
  BY <1>1 DEF Added
<1>4. ASSUME NEW i \in 1..Len(wire'[Client])
      PROVE  Regular(Base, Arrived(Client) + i, wire'[Client][i].packets)
  <2>1. CASE i <= Len(wire[Client])
    <3>1. i \in 1..Len(wire[Client])
      BY <1>2, <1>3, <2>1
    <3>2. QED
      BY <1>3, <3>1 DEF StreamInv, Farewell
  <2>2. CASE i > Len(wire[Client])
    <3> DEFINE m == i - Len(wire[Client])
    <3>1. m \in 1..Len(lists) /\ i = Len(wire[Client]) + m /\ Arrived(Client) + i = encoded[Server] + m
      BY <1>2, <1>3, <2>2
    <3> HIDE DEF m
    <3>2. QED
      BY <1>3, <3>1
  <2>3. QED
    BY <1>2, <1>3, <2>1, <2>2
<1>5. QED
  BY <1>1, <1>2, <1>3, <1>4 DEF StreamInv, Farewell

\* The server's last batch.
LEMMA FarewellStream ==
    ASSUME LoginInv, StreamInv, Added(Server, <<<<"Disconnect">>>>),
           UNCHANGED format, pc[Server] # "failed", pc'[Server] = "failed"
    PROVE  StreamInv' /\ wire'[Client] # <<>>
<1>1. /\ Client \in Peer /\ Server \in Peer /\ Other(Server) = Client /\ Base' = Base
      /\ <<<<"Disconnect">>>> \in Seq(Seq(Packet)) /\ Len(<<<<"Disconnect">>>>) = 1
  BY Peers, BaseStays, OneBatch DEF Packet
<1>2. /\ Arrived(Server)' = Arrived(Server) /\ Arrived(Client)' = Arrived(Client)
      /\ Arrived(Client) \in Nat /\ Len(wire[Client]) \in Nat /\ encoded[Server] \in Nat
      /\ Arrived(Client) + Len(wire[Client]) = encoded[Server]
  BY <1>1, AddedNumbers
<1>3. /\ wire'[Server] = wire[Server] /\ encoded'[Server] = encoded[Server] + 1
      /\ Len(wire'[Client]) = Len(wire[Client]) + 1
      /\ \A i \in 1..Len(wire[Client]) : wire'[Client][i] = wire[Client][i]
      /\ wire'[Client][Len(wire[Client]) + 1].packets = <<"Disconnect">>
  BY <1>1 DEF Added
<1>4. ASSUME NEW i \in 1..Len(wire'[Client])
      PROVE  IF Arrived(Client) + i = encoded'[Server] THEN wire'[Client][i].packets = <<"Disconnect">>
             ELSE Regular(Base, Arrived(Client) + i, wire'[Client][i].packets)
  <2>1. CASE i <= Len(wire[Client])
    <3>1. /\ i \in 1..Len(wire[Client]) /\ Arrived(Client) + i # encoded'[Server]
      BY <1>2, <1>3, <2>1
    <3>2. Regular(Base, Arrived(Client) + i, wire[Client][i].packets)
      BY <3>1 DEF StreamInv, Farewell
    <3>3. QED
      BY <1>3, <3>1, <3>2
  <2>2. CASE i > Len(wire[Client])
    <3>1. i = Len(wire[Client]) + 1 /\ Arrived(Client) + i = encoded'[Server]
      BY <1>2, <1>3, <2>2
    <3>2. QED
      BY <1>3, <3>1
  <2>3. QED
    BY <1>2, <1>3, <2>1, <2>2
<1>5. wire'[Client] # <<>>
  BY <1>2, <1>3
<1>6. QED
  BY <1>1, <1>2, <1>3, <1>4, <1>5, SMTT(60) DEF StreamInv, Farewell

-----------------------------------------------------------------------------
(* Taking a packet.                                                        *)

\* The server takes the next packet of the stream.
LEMMA TakeFromClient ==
    ASSUME NEW b \in {2, 3}, NEW t \in Nat, NEW box \in Seq(Packet), box # <<>>,
           FromClient(b, t, box)
    PROVE  /\ Head(box) = ToServer(b, t + 1)
           /\ t + Len(box) = (t + 1) + Len(Tail(box))
           /\ FromClient(b, t + 1, Tail(box))
<1>1. /\ Head(box) = box[1] /\ Len(box) \in Nat /\ Len(box) >= 1
      /\ Len(Tail(box)) = Len(box) - 1
      /\ \A i \in 1..Len(Tail(box)) : Tail(box)[i] = box[i + 1] /\ i + 1 \in 1..Len(box)
  BY HeadTail
<1>2. Head(box) = ToServer(b, t + 1)
  <2>1. 1 \in 1..Len(box)
    BY <1>1
  <2>2. QED
    BY <1>1, <2>1 DEF FromClient
<1>3. ASSUME NEW i \in 1..Len(Tail(box))
      PROVE  Tail(box)[i] = ToServer(b, (t + 1) + i)
  <2>1. Tail(box)[i] = ToServer(b, t + (i + 1))
    BY <1>1 DEF FromClient
  <2>2. t + (i + 1) = (t + 1) + i
    BY <1>1
  <2>3. QED
    BY <2>1, <2>2
<1>4. QED
  BY <1>1, <1>2, <1>3 DEF FromClient

\* The client takes the next packet of the stream, or the Disconnect behind all of it.
LEMMA TakeFromServer ==
    ASSUME NEW b \in {2, 3}, NEW t \in Nat, NEW box \in Seq(Packet), box # <<>>,
           NEW over \in BOOLEAN, FromServer(b, t, box, over)
    PROVE  /\ t + Len(box) = (t + 1) + Len(Tail(box))
           /\ \/ Fits(b, t + 1, Head(box))
              \/ over /\ Head(box) = "Disconnect" /\ Tail(box) = <<>>
           /\ FromServer(b, t + 1, Tail(box), over)
<1> DEFINE rest == Tail(box)
<1>1. /\ Head(box) = box[1] /\ Len(box) \in Nat /\ Len(box) >= 1
      /\ Len(rest) = Len(box) - 1 /\ rest \in Seq(Packet)
      /\ \A i \in 1..Len(rest) : rest[i] = box[i + 1] /\ i + 1 \in 1..Len(box)
  BY HeadTail
<1> HIDE DEF rest
<1>2. \/ Fits(b, t + 1, Head(box))
      \/ over /\ Head(box) = "Disconnect" /\ rest = <<>>
  <2>1. 1 \in 1..Len(box)
    BY <1>1
  <2>2. Fits(b, t + 1, box[1]) \/ (over /\ 1 = Len(box) /\ box[1] = "Disconnect")
    BY <2>1 DEF FromServer
  <2>3. 1 = Len(box) => rest = <<>>
    BY <1>1, EmptySeq
  <2>4. QED
    BY <1>1, <2>2, <2>3
<1>3. ASSUME NEW i \in 1..Len(rest)
      PROVE  \/ Fits(b, (t + 1) + i, rest[i])
             \/ over /\ i = Len(rest) /\ rest[i] = "Disconnect"
  <2>1. /\ rest[i] = box[i + 1] /\ i + 1 \in 1..Len(box) /\ t + (i + 1) = (t + 1) + i
        /\ i + 1 = Len(box) => i = Len(rest)
    BY <1>1
  <2>2. \/ Fits(b, t + (i + 1), box[i + 1])
        \/ over /\ i + 1 = Len(box) /\ box[i + 1] = "Disconnect"
    BY <2>1 DEF FromServer
  <2>3. QED
    BY <2>1, <2>2
<1>4. FromServer(b, t + 1, rest, over)
  BY <1>3, Zenon DEF FromServer
<1>5. t + Len(box) = (t + 1) + Len(rest)
  BY <1>1
<1>6. QED
  BY <1>2, <1>4, <1>5 DEF rest

\* A step of the server that takes the packet it waits for.
LEMMA ServerTakes ==
    ASSUME LoginInv, ServerReads, UNCHANGED format, Arrived(Server)' = Arrived(Server),
           inbox[Server] # <<>>, inbox'[Server] = Tail(inbox[Server]),
           pc[Server] \in ServerWaits,
           \A t \in Nat : /\ ServerTook(Base, pc[Server], t)
                          /\ Head(inbox[Server]) = ToServer(Base, t + 1)
                          => ServerTook(Base, pc'[Server], t + 1)
    PROVE  ServerReads'
<1>1. Base' = Base /\ Base \in {2, 3} /\ inbox[Server] \in Seq(Packet)
  BY BaseStays, BaseIs, Peers DEF LoginInv, TypeOK
<1>2. PICK t \in Nat : /\ ServerTook(Base, pc[Server], t)
                       /\ Arrived(Server) = t + Len(inbox[Server])
                       /\ FromClient(Base, t, inbox[Server])
  BY DEF ServerReads
<1>3. /\ Head(inbox[Server]) = ToServer(Base, t + 1)
      /\ t + Len(inbox[Server]) = (t + 1) + Len(Tail(inbox[Server]))
      /\ FromClient(Base, t + 1, Tail(inbox[Server]))
  BY <1>1, <1>2, TakeFromClient
<1>4. t + 1 \in Nat /\ ServerTook(Base, pc'[Server], t + 1)
  BY <1>2, <1>3
<1>5. Arrived(Server)' = (t + 1) + Len(inbox'[Server])
  BY <1>2, <1>3
<1>6. FromClient(Base, t + 1, inbox'[Server])
  BY <1>3
<1>7. QED
  BY <1>1, <1>4, <1>5, <1>6 DEF ServerReads

\* A step of the client that takes the packet it waits for.
LEMMA ClientTakes ==
    ASSUME LoginInv, ClientReads, UNCHANGED format, Arrived(Client)' = Arrived(Client),
           Over' <=> Over, inbox[Client] # <<>>, inbox'[Client] = Tail(inbox[Client]),
           pc[Client] \in ClientWaits, Head(inbox[Client]) # "Disconnect",
           \A t \in Nat : /\ ClientTook(Base, pc[Client], t)
                          /\ Fits(Base, t + 1, Head(inbox[Client]))
                          => ClientTook(Base, pc'[Client], t + 1)
    PROVE  ClientReads'
<1>1. /\ Base' = Base /\ Base \in {2, 3} /\ inbox[Client] \in Seq(Packet) /\ Over \in BOOLEAN
      /\ Over' = Over
  BY BaseStays, BaseIs, Peers DEF LoginInv, TypeOK, Over
<1>2. PICK t \in Nat : /\ ClientTook(Base, pc[Client], t)
                       /\ ~Over => Before(Base, Arrived(Client) + 1) = t + Len(inbox[Client])
                       /\ FromServer(Base, t, inbox[Client], Over)
  BY DEF ClientReads
<1> HIDE DEF Over
<1>3. /\ t + Len(inbox[Client]) = (t + 1) + Len(Tail(inbox[Client]))
      /\ Fits(Base, t + 1, Head(inbox[Client]))
      /\ FromServer(Base, t + 1, Tail(inbox[Client]), Over)
  BY <1>1, <1>2, TakeFromServer, ZenonT(60)
<1>4. t + 1 \in Nat /\ ClientTook(Base, pc'[Client], t + 1)
  BY <1>2, <1>3
<1>5. ~Over' => Before(Base, Arrived(Client)' + 1) = (t + 1) + Len(inbox'[Client])
  BY <1>1, <1>2, <1>3
<1>6. FromServer(Base, t + 1, inbox'[Client], Over')
  BY <1>1, <1>3
<1>7. QED
  BY <1>1, <1>4, <1>5, <1>6 DEF ClientReads

\* A step of the client, which sends some of its batches.
LEMMA ClientMoves ==
    ASSUME LoginInv, Course, NEW lists \in Seq(Seq(Packet)), Added(Client, lists),
           UNCHANGED <<format, skipped>>, pc'[Server] = pc[Server], inbox'[Server] = inbox[Server],
           \A i \in 1..Len(lists) : lists[i] = <<ToServer(Base, encoded[Client] + i)>>,
           CountInv',
           \/ pc'[Client] \notin ClientWaits
           \/ /\ inbox[Client] # <<>> /\ inbox'[Client] = Tail(inbox[Client])
              /\ pc[Client] \in ClientWaits /\ Head(inbox[Client]) # "Disconnect"
              /\ \A t \in Nat : /\ ClientTook(Base, pc[Client], t)
                                /\ Fits(Base, t + 1, Head(inbox[Client]))
                                => ClientTook(Base, pc'[Client], t + 1)
    PROVE  Course'
<1>1. /\ Client \in Peer /\ Server \in Peer /\ Other(Client) = Server /\ Base' = Base
      /\ StreamInv /\ CountInv /\ ServerReads /\ ClientReads /\ SkipsFew
  BY Peers, BaseStays DEF Course
<1>2. Arrived(Server)' = Arrived(Server) /\ Arrived(Client)' = Arrived(Client)
  BY <1>1, AddedNumbers
<1>3. StreamInv'
  BY <1>1, ClientStream
<1>4. ServerReads'
  BY <1>1, <1>2 DEF ServerReads
<1>5. Over' <=> Over
  BY <1>1 DEF Over, Added
<1>6. ClientReads'
  <2>1. CASE pc'[Client] \notin ClientWaits
    BY <2>1 DEF ClientReads
  <2>2. QED
    BY <1>1, <1>2, <1>5, <2>1, ClientTakes
<1>7. QED
  BY <1>1, <1>3, <1>4, <1>6 DEF Course, SkipsFew

\* The client has read what it had read.
LEMMA SameReading ==
    ASSUME ClientReads, Base' = Base, pc'[Client] = pc[Client], inbox'[Client] = inbox[Client],
           Arrived(Client)' = Arrived(Client), Over' = Over
    PROVE  ClientReads'
<1> HIDE DEF Over
<1>1. SUFFICES ASSUME pc[Client] \in ClientWaits, ~(inbox[Client] = <<>> /\ Over)
               PROVE  \E t \in Nat :
                         /\ ClientTook(Base', pc'[Client], t)
                         /\ ~Over' => Before(Base', Arrived(Client)' + 1) = t + Len(inbox'[Client])
                         /\ FromServer(Base', t, inbox'[Client], Over')
  BY DEF ClientReads
<1>2. PICK t \in Nat : /\ ClientTook(Base, pc[Client], t)
                       /\ ~Over => Before(Base, Arrived(Client) + 1) = t + Len(inbox[Client])
                       /\ FromServer(Base, t, inbox[Client], Over)
  BY <1>1 DEF ClientReads
<1>3. QED
  BY <1>2

\* A step of the server, which sends some of its batches.
LEMMA ServerMoves ==
    ASSUME LoginInv, Course, NEW lists \in Seq(Seq(Packet)), Added(Server, lists),
           UNCHANGED <<format, skipped>>, pc'[Client] = pc[Client], inbox'[Client] = inbox[Client],
           pc[Server] # "failed", pc'[Server] # "failed",
           \A i \in 1..Len(lists) : Regular(Base, encoded[Server] + i, lists[i]),
           CountInv',
           \/ pc'[Server] \notin ServerWaits
           \/ /\ inbox[Server] # <<>> /\ inbox'[Server] = Tail(inbox[Server])
              /\ pc[Server] \in ServerWaits
              /\ \A t \in Nat : /\ ServerTook(Base, pc[Server], t)
                                /\ Head(inbox[Server]) = ToServer(Base, t + 1)
                                => ServerTook(Base, pc'[Server], t + 1)
    PROVE  Course'
<1>1. /\ Client \in Peer /\ Server \in Peer /\ Other(Server) = Client /\ Base' = Base
      /\ StreamInv /\ CountInv /\ ServerReads /\ ClientReads /\ SkipsFew
  BY Peers, BaseStays DEF Course
<1>2. Arrived(Server)' = Arrived(Server) /\ Arrived(Client)' = Arrived(Client)
  BY <1>1, AddedNumbers
<1>3. StreamInv'
  BY <1>1, ServerStream
<1>4. ServerReads'
  <2>1. CASE pc'[Server] \notin ServerWaits
    BY <2>1 DEF ServerReads
  <2>2. QED
    BY <1>1, <1>2, <2>1, ServerTakes
<1>5. Over' = FALSE /\ Over = FALSE
  BY DEF Over
<1>6. ClientReads'
  BY <1>1, <1>2, <1>5, SameReading
<1>7. QED
  BY <1>1, <1>3, <1>4, <1>6 DEF Course, SkipsFew

-----------------------------------------------------------------------------
(* The steps of the client.                                                *)

\* What an answer does.
LEMMA Answered ==
    ASSUME LoginInv, NEW p \in Peer, NEW from, NEW kind, NEW to,
           NEW lists \in Seq(Seq(Packet)), Answer(p, from, kind, lists, to)
    PROVE  /\ Added(p, lists) /\ UNCHANGED <<format, skipped>>
           /\ pc[p] = from /\ pc'[p] = to /\ pc'[Other(p)] = pc[Other(p)]
           /\ inbox[p] # <<>> /\ Head(inbox[p]) = kind
           /\ inbox'[p] = Tail(inbox[p]) /\ inbox'[Other(p)] = inbox[Other(p)]
<1>1. /\ TypeOK /\ cipher[p] \in Cipher /\ Other(p) \in Peer /\ Other(p) # p
  BY Numbers, Peers
<1>2. /\ pc[p] = from /\ inbox[p] # <<>> /\ Head(inbox[p]) = kind
      /\ inbox' = [inbox EXCEPT ![p] = Tail(@)] /\ pc' = [pc EXCEPT ![p] = to]
      /\ Send(p, lists, cipher[p]) /\ UNCHANGED <<format, skipped>>
  BY DEF Answer, Reads, Taking, Goes
<1>3. Added(p, lists)
  BY <1>1, <1>2, SendAdds
<1>4. /\ pc \in [Peer -> Step] /\ inbox \in [Peer -> Seq(Packet)]
  BY <1>1 DEF TypeOK
<1>5. QED
  BY <1>1, <1>2, <1>3, <1>4

\* What the client finds in front of it.
LEMMA ClientHead ==
    ASSUME LoginInv, Course, pc[Client] \in ClientWaits, inbox[Client] # <<>>,
           Head(inbox[Client]) # "Disconnect"
    PROVE  \E t \in Nat : ClientTook(Base, pc[Client], t) /\ Fits(Base, t + 1, Head(inbox[Client]))
<1>1. Base \in {2, 3} /\ inbox[Client] \in Seq(Packet) /\ Over \in BOOLEAN /\ ClientReads
  BY BaseIs, Peers DEF LoginInv, TypeOK, Over, Course
<1>2. PICK t \in Nat : /\ ClientTook(Base, pc[Client], t)
                       /\ FromServer(Base, t, inbox[Client], Over)
  BY <1>1 DEF ClientReads
<1> HIDE DEF Over
<1>3. Fits(Base, t + 1, Head(inbox[Client]))
  BY <1>1, <1>2, TakeFromServer
<1>4. QED
  BY <1>2, <1>3

LEMMA ClientAnswered ==
    ASSUME LoginInv, Course, NEW from \in {"answer", "status", "packsInfo", "packStack"},
           NEW kind \in Packet \ {"Disconnect"}, NEW to \in {"packsInfo", "packStack", "spawn"},
           NEW lists \in Seq(Seq(Packet)), Answer(Client, from, kind, lists, to),
           \A i \in 1..Len(lists) : lists[i] = <<ToServer(Base, encoded[Client] + i)>>,
           \A t \in Nat : ClientTook(Base, from, t) /\ Fits(Base, t + 1, kind)
                          => ClientTook(Base, to, t + 1),
           to = "packsInfo" => encoded[Client] + Len(lists) = Base + 1,
           to = "packStack" => encoded[Client] + Len(lists) = Base + 2,
           to = "spawn" => encoded[Client] + Len(lists) >= Base + 4
    PROVE  Course'
<1>1. /\ Client \in Peer /\ Other(Client) = Server /\ Client # Server
  BY Peers
<1>2. /\ Added(Client, lists) /\ UNCHANGED <<format, skipped>>
      /\ pc[Client] = from /\ pc'[Client] = to /\ pc'[Server] = pc[Server]
      /\ inbox[Client] # <<>> /\ Head(inbox[Client]) = kind
      /\ inbox'[Client] = Tail(inbox[Client]) /\ inbox'[Server] = inbox[Server]
  BY <1>1, Answered
<1>3. Base' = Base /\ encoded'[Client] = encoded[Client] + Len(lists) /\ encoded'[Server] = encoded[Server]
  BY <1>1, <1>2, BaseStays DEF Added
<1>4. CountInv'
  BY <1>2, <1>3 DEF CountInv, Course
<1>5. pc[Client] \in ClientWaits
  BY <1>2 DEF ClientWaits
<1>6. QED
  BY <1>2, <1>4, <1>5, ClientMoves

\* Login is the client's second batch.
LEMMA ReadSettingsOn ==
    ASSUME LoginInv, Course, ReadSettings
    PROVE  Course'
<1> DEFINE login == [n |-> encoded[Client] + 1, packets |-> <<"Login">>, compressed |-> TRUE,
                     key |-> 0]
           lists == <<<<"Login">>>>
<1>1. /\ TypeOK /\ ClientInv /\ Client \in Peer /\ Server \in Peer /\ Other(Client) = Server
      /\ Server # Client /\ Base \in {2, 3} /\ CountInv
  BY Peers, BaseIs DEF LoginInv, Course
<1>2. lists \in Seq(Seq(Packet)) /\ Len(lists) = 1 /\ lists[1] = <<"Login">> /\ \A i \in 1..1 : i = 1
  BY OneBatch DEF Packet
<1>3. login.packets = <<"Login">>
  BY PacketsOf
<1> HIDE DEF login, lists
<1>4. /\ pc[Client] = "settings" /\ inbox[Client] # <<>> /\ Head(inbox[Client]) = "NetworkSettings"
      /\ inbox' = [inbox EXCEPT ![Client] = Tail(@)]
      /\ wire' = [wire EXCEPT ![Server] = Append(@, login)]
      /\ encoded' = [encoded EXCEPT ![Client] = @ + 1]
      /\ pc' = [pc EXCEPT ![Client] = "answer"]
      /\ UNCHANGED <<format, skipped>>
  BY DEF ReadSettings, Reads, Taking, Goes, login
<1>5. encoded[Client] = 1
  BY <1>1, <1>4 DEF ClientInv
<1>6. /\ wire \in [Peer -> Seq(Batch)] /\ encoded \in [Peer -> Nat] /\ pc \in [Peer -> Step]
      /\ inbox \in [Peer -> Seq(Packet)]
  BY <1>1 DEF TypeOK
<1>7. login \in Batch
  BY <1>5 DEF login, Batch, Packet
<1>8. Added(Client, lists)
  <2>1. /\ wire[Server] \in Seq(Batch) /\ wire'[Server] = Append(wire[Server], login)
        /\ wire'[Client] = wire[Client]
    BY <1>1, <1>4, <1>6
  <2>2. /\ wire'[Server] \in Seq(Batch) /\ Len(wire[Server]) \in Nat
        /\ Len(wire'[Server]) = Len(wire[Server]) + 1
        /\ \A i \in 1..Len(wire[Server]) : wire'[Server][i] = wire[Server][i]
        /\ wire'[Server][Len(wire[Server]) + 1] = login
    BY <1>7, <2>1
  <2>3. wire' \in [Peer -> Seq(Batch)]
    BY <1>4, <1>6, <2>1, <2>2
  <2>4. encoded'[Client] = encoded[Client] + 1 /\ encoded'[Server] = encoded[Server]
    BY <1>1, <1>4, <1>6
  <2>5. \A i \in 1..1 : wire'[Server][Len(wire[Server]) + i].packets = lists[i]
    BY <1>2, <1>3, <2>2
  <2>6. QED
    BY <1>1, <1>2, <2>1, <2>2, <2>3, <2>4, <2>5 DEF Added
<1>9. /\ pc'[Client] = "answer" /\ pc'[Server] = pc[Server]
      /\ inbox'[Client] = Tail(inbox[Client]) /\ inbox'[Server] = inbox[Server]
      /\ encoded'[Server] = encoded[Server] /\ Base' = Base
  BY <1>1, <1>4, <1>6, BaseStays
<1>10. \A i \in 1..Len(lists) : lists[i] = <<ToServer(Base, encoded[Client] + i)>>
  <2>1. ToServer(Base, 2) = "Login"
    BY DEF ToServer
  <2>2. QED
    BY <1>2, <1>5, <2>1
<1>11. CountInv'
  BY <1>1, <1>9 DEF CountInv
<1>12. /\ pc[Client] \in ClientWaits
       /\ \A t \in Nat : /\ ClientTook(Base, pc[Client], t)
                         /\ Fits(Base, t + 1, Head(inbox[Client]))
                         => ClientTook(Base, pc'[Client], t + 1)
  BY <1>4, <1>9 DEF ClientWaits, ClientTook
<1>13. QED
  BY <1>2, <1>4, <1>8, <1>9, <1>10, <1>11, <1>12, ClientMoves

\* ClientToServerHandshake is the third.
LEMMA ReadHandshakeOn ==
    ASSUME LoginInv, Course, ReadHandshake
    PROVE  Course'
<1> DEFINE lists == <<<<"ClientToServerHandshake">>>>
<1>1. /\ TypeOK /\ ClientInv /\ Client \in Peer /\ Server \in Peer /\ Other(Client) = Server
      /\ Server # Client /\ Base \in {2, 3} /\ CountInv /\ cipher[Client] \in Cipher
  BY Peers, BaseIs, Numbers DEF LoginInv, Course
<1>2. /\ lists \in Seq(Seq(Packet)) /\ Len(lists) = 1 /\ lists[1] = <<"ClientToServerHandshake">>
      /\ \A i \in 1..1 : i = 1
  BY OneBatch DEF Packet
<1>3. Enabled(cipher[Client]) \in Cipher
  BY <1>1 DEF Enabled, Fresh, Plain, Cipher
<1>4. /\ pc[Client] = "answer" /\ inbox[Client] # <<>>
      /\ Head(inbox[Client]) = "ServerToClientHandshake"
      /\ inbox' = [inbox EXCEPT ![Client] = Tail(@)]
      /\ Send(Client, lists, Enabled(cipher[Client]))
      /\ pc' = [pc EXCEPT ![Client] = "status"]
      /\ UNCHANGED <<format, skipped>>
  BY DEF ReadHandshake, Reads, Taking, Goes
<1> HIDE DEF lists
<1>5. encoded[Client] = 2
  BY <1>1, <1>4 DEF ClientInv
<1>6. Added(Client, lists)
  BY <1>1, <1>2, <1>3, <1>4, SendAdds
<1>7. pc \in [Peer -> Step] /\ inbox \in [Peer -> Seq(Packet)]
  BY <1>1 DEF TypeOK
<1>8. /\ pc'[Client] = "status" /\ pc'[Server] = pc[Server]
      /\ inbox'[Client] = Tail(inbox[Client]) /\ inbox'[Server] = inbox[Server]
      /\ encoded'[Client] = encoded[Client] + 1 /\ encoded'[Server] = encoded[Server] /\ Base' = Base
  BY <1>1, <1>2, <1>4, <1>6, <1>7, BaseStays DEF Added
<1>9. pc[Client] \in ClientWaits
  BY <1>4 DEF ClientWaits
<1>10. Base = 3
  <2>1. PICK t \in Nat : ClientTook(Base, pc[Client], t) /\ Fits(Base, t + 1, Head(inbox[Client]))
    BY <1>4, <1>9, ClientHead
  <2>2. t = 1
    BY <1>4, <2>1 DEF ClientTook
  <2>3. QED
    BY <1>1, <1>4, <2>1, <2>2 DEF Fits, ToClient
<1>11. \A i \in 1..Len(lists) : lists[i] = <<ToServer(Base, encoded[Client] + i)>>
  <2>1. ToServer(Base, 3) = "ClientToServerHandshake"
    BY <1>10 DEF ToServer
  <2>2. QED
    BY <1>2, <1>5, <2>1
<1>12. CountInv'
  BY <1>1, <1>5, <1>8, <1>10 DEF CountInv
<1>13. \A t \in Nat : /\ ClientTook(Base, pc[Client], t)
                      /\ Fits(Base, t + 1, Head(inbox[Client]))
                      => ClientTook(Base, pc'[Client], t + 1)
  BY <1>4, <1>8 DEF ClientTook
<1>14. QED
  BY <1>2, <1>4, <1>6, <1>8, <1>9, <1>11, <1>12, <1>13, ClientMoves

\* ClientCacheStatus follows what comes before LoginSuccess.
LEMMA ReadStatusOn ==
    ASSUME LoginInv, Course, ReadStatus
    PROVE  Course'
<1> DEFINE lists == <<<<"ClientCacheStatus">>>>
<1>1. PICK from \in {"answer", "status"}, kind \in PlayStatus :
         Answer(Client, from, kind, lists, "packsInfo")
  BY DEF ReadStatus
<1>2. /\ lists \in Seq(Seq(Packet)) /\ Len(lists) = 1 /\ lists[1] = <<"ClientCacheStatus">>
      /\ \A i \in 1..1 : i = 1
  BY OneBatch DEF Packet
<1> HIDE DEF lists
<1>3. /\ Client \in Peer /\ pc[Client] = from /\ inbox[Client] # <<>> /\ Head(inbox[Client]) = kind
      /\ Base \in {2, 3} /\ ClientInv /\ CountInv
  BY <1>1, <1>2, Peers, Answered, BaseIs DEF LoginInv, Course
<1>4. kind \in Packet \ {"Disconnect"} /\ kind # "ServerToClientHandshake" /\ pc[Client] \in ClientWaits
  BY <1>3 DEF PlayStatus, Packet, ClientWaits
<1>5. PICK t \in Nat : ClientTook(Base, from, t) /\ Fits(Base, t + 1, kind)
  BY <1>3, <1>4, ClientHead
<1>6. from = "answer" => Base = 2
  BY <1>3, <1>4, <1>5 DEF ClientTook, Fits, ToClient
<1>7. encoded[Client] = Base
  BY <1>3, <1>6 DEF ClientInv, CountInv
<1>8. \A i \in 1..Len(lists) : lists[i] = <<ToServer(Base, encoded[Client] + i)>>
  <2>1. ToServer(Base, Base + 1) = "ClientCacheStatus"
    BY <1>3 DEF ToServer
  <2>2. QED
    BY <1>2, <1>7, <2>1
<1>9. \A u \in Nat : ClientTook(Base, from, u) /\ Fits(Base, u + 1, kind)
                     => ClientTook(Base, "packsInfo", u + 1)
  BY <1>3, <1>6 DEF ClientTook, CountInv
<1>10. encoded[Client] + Len(lists) = Base + 1
  BY <1>2, <1>7
<1>11. /\ Answer(Client, from, kind, lists, "packsInfo") /\ kind \in Packet \ {"Disconnect"}
       /\ from \in {"answer", "status", "packsInfo", "packStack"} /\ lists \in Seq(Seq(Packet))
  BY <1>1, <1>2, <1>4
<1>12. QED
  BY <1>8, <1>9, <1>10, <1>11, ClientAnswered, ZenonT(60)

\* The two answers about resource packs.
LEMMA ReadPacksOn ==
    ASSUME LoginInv, Course, ReadPacks
    PROVE  Course'
<1> DEFINE one == <<<<"ResourcePackClientResponse">>>>
           two == <<<<"ResourcePackClientResponse">>, <<"ResourcePacksReadyForValidation">>>>
<1>1. \/ Answer(Client, "packsInfo", "ResourcePacksInfo", one, "packStack")
      \/ Answer(Client, "packStack", "ResourcePackStack", two, "spawn")
  BY DEF ReadPacks
<1>2. /\ one \in Seq(Seq(Packet)) /\ Len(one) = 1 /\ one[1] = <<"ResourcePackClientResponse">>
      /\ \A i \in 1..1 : i = 1
  BY OneBatch DEF Packet
<1>3. /\ two \in Seq(Seq(Packet)) /\ Len(two) = 2 /\ two[1] = <<"ResourcePackClientResponse">>
      /\ two[2] = <<"ResourcePacksReadyForValidation">> /\ \A i \in 1..2 : i = 1 \/ i = 2
  BY DEF Packet
<1> HIDE DEF one, two
<1>4. Client \in Peer /\ Base \in {2, 3} /\ CountInv
  BY Peers, BaseIs DEF Course
<1>5. /\ ToServer(Base, Base + 2) = "ResourcePackClientResponse"
      /\ ToServer(Base, Base + 3) = "ResourcePackClientResponse"
      /\ ToServer(Base, Base + 4) = "ResourcePacksReadyForValidation"
  BY <1>4 DEF ToServer
<1>6. /\ "ResourcePacksInfo" \in Packet \ {"Disconnect"} /\ "ResourcePackStack" \in Packet \ {"Disconnect"}
  BY DEF Packet
<1>7. ASSUME Answer(Client, "packsInfo", "ResourcePacksInfo", one, "packStack")
      PROVE  Course'
  <2>1. encoded[Client] = Base + 1
    BY <1>2, <1>4, <1>7, Answered DEF CountInv
  <2>2. \A i \in 1..Len(one) : one[i] = <<ToServer(Base, encoded[Client] + i)>>
    BY <1>2, <1>4, <1>5, <2>1
  <2>3. \A t \in Nat : ClientTook(Base, "packsInfo", t) /\ Fits(Base, t + 1, "ResourcePacksInfo")
                       => ClientTook(Base, "packStack", t + 1)
    BY <1>4 DEF ClientTook
  <2>4. encoded[Client] + Len(one) = Base + 2
    BY <1>2, <1>4, <2>1
  <2>5. QED
    BY <1>2, <1>6, <1>7, <2>2, <2>3, <2>4, ClientAnswered
<1>8. ASSUME Answer(Client, "packStack", "ResourcePackStack", two, "spawn")
      PROVE  Course'
  <2>1. encoded[Client] = Base + 2
    BY <1>3, <1>4, <1>8, Answered DEF CountInv
  <2>2. \A i \in 1..Len(two) : two[i] = <<ToServer(Base, encoded[Client] + i)>>
    BY <1>3, <1>4, <1>5, <2>1
  <2>3. \A t \in Nat : ClientTook(Base, "packStack", t) /\ Fits(Base, t + 1, "ResourcePackStack")
                       => ClientTook(Base, "spawn", t + 1)
    BY DEF ClientTook
  <2>4. encoded[Client] + Len(two) >= Base + 4
    BY <1>3, <1>4, <2>1
  <2>5. QED
    BY <1>3, <1>6, <1>8, <2>2, <2>3, <2>4, ClientAnswered
<1>9. QED
  BY <1>1, <1>7, <1>8

\* Once the client waits for its spawn, it asks for its chunk radius.
LEMMA WaitForSpawnOn ==
    ASSUME LoginInv, Course, WaitForSpawn
    PROVE  Course'
<1> DEFINE lists == <<<<"RequestChunkRadius">>>>
<1>1. /\ TypeOK /\ Client \in Peer /\ Server \in Peer /\ Other(Client) = Server
      /\ Server # Client /\ Base \in {2, 3} /\ CountInv /\ cipher[Client] \in Cipher
      /\ encoded[Client] \in Nat
  BY Peers, BaseIs, Numbers DEF LoginInv, Course
<1>2. /\ lists \in Seq(Seq(Packet)) /\ Len(lists) = 1 /\ lists[1] = <<"RequestChunkRadius">>
      /\ \A i \in 1..1 : i = 1
  BY OneBatch DEF Packet
<1>3. /\ pc[Client] = "spawn" /\ inbox' = [inbox EXCEPT ![Client] = Tail(@)]
      /\ pc' = [pc EXCEPT ![Client] = IF Head(inbox[Client]) = "PlayerSpawn" THEN "done" ELSE "spawn"]
      /\ UNCHANGED <<format, skipped>>
      /\ UNCHANGED <<wire, encoded>> \/ Send(Client, lists, cipher[Client])
  BY DEF WaitForSpawn, Taking, Goes
<1> HIDE DEF lists
<1>4. pc \in [Peer -> Step] /\ inbox \in [Peer -> Seq(Packet)]
  BY <1>1 DEF TypeOK
<1>5. /\ pc'[Client] \in {"done", "spawn"} /\ pc'[Server] = pc[Server]
      /\ inbox'[Server] = inbox[Server] /\ Base' = Base
  BY <1>1, <1>3, <1>4, BaseStays
<1>6. encoded[Client] >= Base + 4
  BY <1>1, <1>3 DEF CountInv
<1>7. pc'[Client] \notin ClientWaits
  BY <1>5 DEF ClientWaits
<1>8. ASSUME NEW some \in Seq(Seq(Packet)), Added(Client, some), Len(some) \in Nat,
             \A i \in 1..Len(some) : some[i] = <<"RequestChunkRadius">>
      PROVE  Course'
  <2>1. encoded'[Client] = encoded[Client] + Len(some) /\ encoded'[Server] = encoded[Server]
    BY <1>1, <1>8 DEF Added
  <2>2. encoded'[Client] >= Base + 4
    BY <1>1, <1>6, <1>8, <2>1
  <2>3. CountInv'
    BY <1>1, <1>5, <2>1, <2>2 DEF CountInv
  <2>4. \A i \in 1..Len(some) : some[i] = <<ToServer(Base, encoded[Client] + i)>>
    <3>1. ASSUME NEW i \in 1..Len(some)
          PROVE  ToServer(Base, encoded[Client] + i) = "RequestChunkRadius"
      <4>1. encoded[Client] + i > Base + 4
        BY <1>1, <1>6, <1>8
      <4>2. QED
        BY <1>1, <1>8, <4>1, SMTT(60) DEF ToServer
    <3>2. QED
      BY <1>8, <3>1
  <2>5. QED
    BY <1>3, <1>5, <1>7, <1>8, <2>3, <2>4, ClientMoves
<1>9. CASE UNCHANGED <<wire, encoded>>
  <2> DEFINE none == <<>>
  <2>1. Added(Client, none)
    BY <1>1, <1>9, NothingAdded
  <2>2. none \in Seq(Seq(Packet)) /\ Len(none) = 0 /\ 1..0 = {}
    OBVIOUS
  <2> HIDE DEF none
  <2>3. Len(none) \in Nat /\ \A i \in 1..Len(none) : none[i] = <<"RequestChunkRadius">>
    BY <2>2
  <2>4. QED
    BY <1>8, <2>1, <2>2, <2>3
<1>10. CASE Send(Client, lists, cipher[Client])
  <2>1. Added(Client, lists)
    BY <1>1, <1>2, <1>10, SendAdds
  <2>2. QED
    BY <1>2, <1>8, <2>1
<1>11. QED
  BY <1>3, <1>9, <1>10

-----------------------------------------------------------------------------
(* The steps of the server.                                                *)

LEMMA RegularOne ==
    ASSUME NEW b \in {2, 3}, NEW n \in Nat, n # b, NEW kind, Fits(b, Before(b, n) + 1, kind)
    PROVE  Regular(b, n, <<kind>>)
<1>1. Len(<<kind>>) = 1 /\ \A j \in 1..1 : j = 1 /\ <<kind>>[j] = kind
  OBVIOUS
<1>2. QED
  BY <1>1 DEF Regular

LEMMA RegularWelcome ==
    ASSUME NEW b \in {2, 3}
    PROVE  /\ Welcome \in Seq(Seq(Packet)) /\ Len(Welcome) = 1 /\ Regular(b, b, Welcome[1])
<1> DEFINE both == <<"LoginSuccess", "ResourcePacksInfo">>
<1>1. /\ both \in Seq(Packet) /\ Len(both) = 2 /\ both[1] = "LoginSuccess"
      /\ both[2] = "ResourcePacksInfo" /\ \A j \in 1..2 : j = 1 \/ j = 2
  BY DEF Packet, PlayStatus
<1>2. Welcome = <<both>>
  BY DEF Welcome
<1> HIDE DEF both
<1>3. Fits(b, b, "LoginSuccess") /\ Fits(b, b + 1, "ResourcePacksInfo") /\ Before(b, b) = b - 1
  BY DEF Fits, ToClient, Before
<1>4. (b - 1) + 1 = b /\ (b - 1) + 2 = b + 1
  OBVIOUS
<1>5. Regular(b, b, both)
  BY <1>1, <1>3, <1>4 DEF Regular
<1>6. QED
  BY <1>1, <1>2, <1>5

\* What the server finds in front of it.
LEMMA ServerHead ==
    ASSUME LoginInv, Course, pc[Server] \in ServerWaits, inbox[Server] # <<>>
    PROVE  \E t \in Nat : ServerTook(Base, pc[Server], t) /\ Head(inbox[Server]) = ToServer(Base, t + 1)
<1>1. Base \in {2, 3} /\ inbox[Server] \in Seq(Packet) /\ ServerReads
  BY BaseIs, Peers DEF LoginInv, TypeOK, Course
<1>2. PICK t \in Nat : ServerTook(Base, pc[Server], t) /\ FromClient(Base, t, inbox[Server])
  BY <1>1 DEF ServerReads
<1>3. Head(inbox[Server]) = ToServer(Base, t + 1)
  <2> DEFINE box == inbox[Server]
             b == Base
  <2>1. b \in {2, 3} /\ box \in Seq(Packet) /\ box # <<>> /\ FromClient(b, t, box)
    BY <1>1, <1>2
  <2> HIDE DEF box, b
  <2>2. Head(box) = ToServer(b, t + 1)
    BY <2>1, TakeFromClient
  <2>3. QED
    BY <2>2 DEF box, b
<1>4. QED
  BY <1>2, <1>3

LEMMA ServerAnswered ==
    ASSUME LoginInv, Course, NEW from \in ServerWaits,
           NEW kind \in Packet, NEW to \in {"response", "completed", "ready", "queued"},
           NEW lists \in Seq(Seq(Packet)), Answer(Server, from, kind, lists, to),
           \A i \in 1..Len(lists) : Regular(Base, encoded[Server] + i, lists[i]),
           \A t \in Nat : ServerTook(Base, from, t) /\ kind = ToServer(Base, t + 1)
                          => ServerTook(Base, to, t + 1),
           to = "response" => encoded[Server] + Len(lists) = Base,
           to \in {"completed", "ready"} => encoded[Server] + Len(lists) = Base + 1,
           to = "queued" => encoded[Server] + Len(lists) >= Base + 1
    PROVE  Course'
<1>1. /\ Server \in Peer /\ Other(Server) = Client /\ Client # Server
  BY Peers
<1>2. /\ Added(Server, lists) /\ UNCHANGED <<format, skipped>>
      /\ pc[Server] = from /\ pc'[Server] = to /\ pc'[Client] = pc[Client]
      /\ inbox[Server] # <<>> /\ Head(inbox[Server]) = kind
      /\ inbox'[Server] = Tail(inbox[Server]) /\ inbox'[Client] = inbox[Client]
  BY <1>1, Answered
<1>3. Base' = Base /\ encoded'[Server] = encoded[Server] + Len(lists) /\ encoded'[Client] = encoded[Client]
  BY <1>1, <1>2, BaseStays DEF Added
<1>4. CountInv'
  BY <1>2, <1>3 DEF CountInv, Course
<1>5. pc[Server] # "failed" /\ pc'[Server] # "failed"
  BY <1>2 DEF ServerWaits
<1>6. QED
  BY <1>2, <1>4, <1>5, ServerMoves

\* NetworkSettings is the server's first batch.
LEMMA ReadRequestOn ==
    ASSUME LoginInv, Course, ReadRequest
    PROVE  Course'
<1> DEFINE lists == <<<<"NetworkSettings">>>>
<1>1. /\ TypeOK /\ ServerInv /\ Client \in Peer /\ Server \in Peer /\ Other(Server) = Client
      /\ Server # Client /\ Base \in {2, 3} /\ CountInv /\ cipher[Server] \in Cipher
  BY Peers, BaseIs, Numbers DEF LoginInv, Course
<1>2. /\ lists \in Seq(Seq(Packet)) /\ Len(lists) = 1 /\ lists[1] = <<"NetworkSettings">>
      /\ \A i \in 1..1 : i = 1
  BY OneBatch DEF Packet
<1>3. /\ pc[Server] = "request" /\ inbox[Server] # <<>>
      /\ inbox' = [inbox EXCEPT ![Server] = Tail(@)]
      /\ Send(Server, lists, cipher[Server])
      /\ pc' = [pc EXCEPT ![Server] = "login"]
      /\ UNCHANGED <<format, skipped>>
  BY DEF ReadRequest, Reads, Taking, Goes
<1> HIDE DEF lists
<1>4. encoded[Server] = 0
  BY <1>1, <1>3 DEF ServerInv
<1>5. Added(Server, lists)
  BY <1>1, <1>2, <1>3, SendAdds
<1>6. pc \in [Peer -> Step] /\ inbox \in [Peer -> Seq(Packet)]
  BY <1>1 DEF TypeOK
<1>7. /\ pc'[Server] = "login" /\ pc'[Client] = pc[Client]
      /\ inbox'[Server] = Tail(inbox[Server]) /\ inbox'[Client] = inbox[Client]
      /\ encoded'[Client] = encoded[Client] /\ Base' = Base
  BY <1>1, <1>3, <1>5, <1>6, BaseStays DEF Added
<1>8. \A i \in 1..Len(lists) : Regular(Base, encoded[Server] + i, lists[i])
  <2>1. Fits(Base, Before(Base, 1) + 1, "NetworkSettings")
    BY <1>1 DEF Fits, Before, ToClient
  <2>2. Regular(Base, 1, <<"NetworkSettings">>)
    BY <1>1, <2>1, RegularOne
  <2>3. QED
    BY <1>2, <1>4, <2>2
<1>9. CountInv'
  BY <1>1, <1>7 DEF CountInv
<1>10. /\ pc[Server] \in ServerWaits /\ pc[Server] # "failed" /\ pc'[Server] # "failed"
       /\ \A t \in Nat : /\ ServerTook(Base, pc[Server], t)
                         /\ Head(inbox[Server]) = ToServer(Base, t + 1)
                         => ServerTook(Base, pc'[Server], t + 1)
  BY <1>3, <1>7 DEF ServerWaits, ServerTook
<1>11. QED
  BY <1>2, <1>3, <1>5, <1>7, <1>8, <1>9, <1>10, ServerMoves

\* Login is answered with ServerToClientHandshake, or with LoginSuccess at once.
LEMMA ReadLoginOn ==
    ASSUME LoginInv, Course, ReadLogin
    PROVE  Course'
<1> DEFINE lists == <<<<"ServerToClientHandshake">>>>
<1>1. /\ TypeOK /\ ServerInv /\ Client \in Peer /\ Server \in Peer /\ Other(Server) = Client
      /\ Server # Client /\ Base \in {2, 3} /\ CountInv /\ cipher[Server] \in Cipher
      /\ (HasPublicKey <=> Base = 3)
  BY Peers, BaseIs, Numbers DEF LoginInv, Course
<1>2. CASE HasPublicKey
  <2>1. /\ lists \in Seq(Seq(Packet)) /\ Len(lists) = 1 /\ lists[1] = <<"ServerToClientHandshake">>
        /\ \A i \in 1..1 : i = 1
    BY OneBatch DEF Packet
  <2>2. /\ pc[Server] = "login" /\ inbox[Server] # <<>>
        /\ inbox' = [inbox EXCEPT ![Server] = Tail(@)]
        /\ Send(Server, lists, cipher[Server])
        /\ pc' = [pc EXCEPT ![Server] = "ack"]
        /\ UNCHANGED <<format, skipped>>
    BY <1>2 DEF ReadLogin, Reads, Taking, Goes
  <2> HIDE DEF lists
  <2>3. encoded[Server] = 1 /\ Base = 3
    BY <1>1, <1>2, <2>2 DEF ServerInv
  <2>4. Added(Server, lists)
    BY <1>1, <2>1, <2>2, SendAdds
  <2>5. pc \in [Peer -> Step] /\ inbox \in [Peer -> Seq(Packet)]
    BY <1>1 DEF TypeOK
  <2>6. /\ pc'[Server] = "ack" /\ pc'[Client] = pc[Client]
        /\ inbox'[Server] = Tail(inbox[Server]) /\ inbox'[Client] = inbox[Client]
        /\ encoded'[Client] = encoded[Client] /\ Base' = Base
    BY <1>1, <2>2, <2>4, <2>5, BaseStays DEF Added
  <2>7. \A i \in 1..Len(lists) : Regular(Base, encoded[Server] + i, lists[i])
    <3>1. Fits(Base, Before(Base, 2) + 1, "ServerToClientHandshake")
      BY <2>3 DEF Fits, Before, ToClient
    <3>2. Regular(Base, 2, <<"ServerToClientHandshake">>)
      BY <1>1, <2>3, <3>1, RegularOne
    <3>3. QED
      BY <2>1, <2>3, <3>2
  <2>8. CountInv'
    BY <1>1, <2>3, <2>6 DEF CountInv
  <2>9. /\ pc[Server] \in ServerWaits /\ pc[Server] # "failed" /\ pc'[Server] # "failed"
        /\ \A t \in Nat : /\ ServerTook(Base, pc[Server], t)
                          /\ Head(inbox[Server]) = ToServer(Base, t + 1)
                          => ServerTook(Base, pc'[Server], t + 1)
    BY <2>2, <2>6 DEF ServerWaits, ServerTook
  <2>10. QED
    BY <2>1, <2>2, <2>4, <2>6, <2>7, <2>8, <2>9, ServerMoves
<1>3. CASE ~HasPublicKey
  <2>0. Answer(Server, "login", "Login", Welcome, "response")
    BY <1>3 DEF ReadLogin
  <2>1. pc[Server] = "login" /\ Base = 2
    BY <1>1, <1>3, <2>0 DEF Answer
  <2>2. encoded[Server] = 1
    BY <1>1, <2>1 DEF ServerInv
  <2>3. Welcome \in Seq(Seq(Packet)) /\ Len(Welcome) = 1 /\ Regular(Base, Base, Welcome[1])
    BY <1>1, RegularWelcome
  <2>4. \A i \in 1..Len(Welcome) : Regular(Base, encoded[Server] + i, Welcome[i])
    BY <2>1, <2>2, <2>3
  <2>5. \A t \in Nat : ServerTook(Base, "login", t) /\ "Login" = ToServer(Base, t + 1)
                       => ServerTook(Base, "response", t + 1)
    BY <2>1 DEF ServerTook
  <2>6. "Login" \in Packet /\ "login" \in ServerWaits
    BY DEF Packet, ServerWaits
  <2>7. encoded[Server] + Len(Welcome) = Base
    BY <2>1, <2>2, <2>3
  <2>8. QED
    BY <2>0, <2>3, <2>4, <2>5, <2>6, <2>7, ServerAnswered
<1>4. QED
  BY <1>2, <1>3

\* The answers after that.
LEMMA ReadAnswersOn ==
    ASSUME LoginInv, Course, ReadAnswers
    PROVE  Course'
<1> DEFINE stack == <<<<"ResourcePackStack">>>>
           none == <<>>
<1>1. \/ Answer(Server, "ack", "ClientToServerHandshake", Welcome, "response")
      \/ Answer(Server, "response", "ResourcePackClientResponse", stack, "completed")
      \/ Answer(Server, "completed", "ResourcePackClientResponse", none, "ready")
      \/ Answer(Server, "ready", "ResourcePacksReadyForValidation", none, "queued")
  BY DEF ReadAnswers
<1>2. /\ stack \in Seq(Seq(Packet)) /\ Len(stack) = 1 /\ stack[1] = <<"ResourcePackStack">>
      /\ \A i \in 1..1 : i = 1
  BY OneBatch DEF Packet
<1>3. none \in Seq(Seq(Packet)) /\ Len(none) = 0 /\ 1..0 = {}
  OBVIOUS
<1> HIDE DEF stack, none
<1>4. Server \in Peer /\ Base \in {2, 3} /\ CountInv /\ ServerInv
  BY Peers, BaseIs DEF Course, LoginInv
<1>5. /\ {"ClientToServerHandshake", "ResourcePackClientResponse",
          "ResourcePacksReadyForValidation"} \subseteq Packet
      /\ {"ack", "response", "completed", "ready"} \subseteq ServerWaits
  BY DEF Packet, ServerWaits
<1>6. ASSUME Answer(Server, "ack", "ClientToServerHandshake", Welcome, "response")
      PROVE  Course'
  <2>1. pc[Server] = "ack"
    BY <1>6 DEF Answer
  <2>2. Base = 3 /\ encoded[Server] = 2
    BY <1>4, <2>1 DEF CountInv, ServerInv
  <2>3. Welcome \in Seq(Seq(Packet)) /\ Len(Welcome) = 1 /\ Regular(Base, Base, Welcome[1])
    BY <1>4, RegularWelcome
  <2>4. \A i \in 1..Len(Welcome) : Regular(Base, encoded[Server] + i, Welcome[i])
    BY <2>2, <2>3
  <2>5. \A t \in Nat : ServerTook(Base, "ack", t) /\ "ClientToServerHandshake" = ToServer(Base, t + 1)
                       => ServerTook(Base, "response", t + 1)
    BY <2>2 DEF ServerTook
  <2>6. encoded[Server] + Len(Welcome) = Base
    BY <2>2, <2>3
  <2>7. QED
    BY <1>5, <1>6, <2>3, <2>4, <2>5, <2>6, ServerAnswered
<1>7. ASSUME Answer(Server, "response", "ResourcePackClientResponse", stack, "completed")
      PROVE  Course'
  <2>1. pc[Server] = "response"
    BY <1>7 DEF Answer
  <2>2. encoded[Server] = Base
    BY <1>4, <2>1 DEF CountInv
  <2>3. \A i \in 1..Len(stack) : Regular(Base, encoded[Server] + i, stack[i])
    <3>1. Fits(Base, Before(Base, Base + 1) + 1, "ResourcePackStack")
      BY <1>4 DEF Fits, Before, ToClient
    <3>2. Regular(Base, Base + 1, <<"ResourcePackStack">>)
      BY <1>4, <3>1, RegularOne
    <3>3. QED
      BY <1>2, <2>2, <3>2
  <2>4. ASSUME NEW t \in Nat, ServerTook(Base, "response", t),
               "ResourcePackClientResponse" = ToServer(Base, t + 1)
        PROVE  ServerTook(Base, "completed", t + 1)
    <3>1. t = Base \/ t = Base + 1
      BY <2>4 DEF ServerTook
    <3>2. ToServer(Base, Base + 1) = "ClientCacheStatus"
      BY <1>4 DEF ToServer
    <3>3. t = Base + 1
      BY <2>4, <3>1, <3>2
    <3>4. QED
      BY <1>4, <3>3 DEF ServerTook
  <2>5. encoded[Server] + Len(stack) = Base + 1
    BY <1>2, <2>2
  <2>6. QED
    BY <1>2, <1>5, <1>7, <2>3, <2>4, <2>5, ServerAnswered
<1>8. ASSUME Answer(Server, "completed", "ResourcePackClientResponse", none, "ready")
      PROVE  Course'
  <2>1. pc[Server] = "completed"
    BY <1>8 DEF Answer
  <2>2. encoded[Server] = Base + 1
    BY <1>4, <2>1 DEF CountInv
  <2>3. \A i \in 1..Len(none) : Regular(Base, encoded[Server] + i, none[i])
    BY <1>3
  <2>4. \A t \in Nat : ServerTook(Base, "completed", t)
                       /\ "ResourcePackClientResponse" = ToServer(Base, t + 1)
                       => ServerTook(Base, "ready", t + 1)
    BY <1>4 DEF ServerTook
  <2>5. encoded[Server] + Len(none) = Base + 1
    BY <1>3, <1>4, <2>2
  <2>6. QED
    BY <1>3, <1>5, <1>8, <2>3, <2>4, <2>5, ServerAnswered
<1>9. ASSUME Answer(Server, "ready", "ResourcePacksReadyForValidation", none, "queued")
      PROVE  Course'
  <2>1. pc[Server] = "ready"
    BY <1>9 DEF Answer
  <2>2. encoded[Server] = Base + 1
    BY <1>4, <2>1 DEF CountInv
  <2>3. \A i \in 1..Len(none) : Regular(Base, encoded[Server] + i, none[i])
    BY <1>3
  <2>4. \A t \in Nat : ServerTook(Base, "ready", t)
                       /\ "ResourcePacksReadyForValidation" = ToServer(Base, t + 1)
                       => ServerTook(Base, "queued", t + 1)
    BY DEF ServerTook
  <2>5. encoded[Server] + Len(none) >= Base + 1
    BY <1>3, <1>4, <2>2
  <2>6. QED
    BY <1>3, <1>5, <1>9, <2>3, <2>4, <2>5, ServerAnswered
<1>10. QED
  BY <1>1, <1>6, <1>7, <1>8, <1>9

\* What the application sends comes after everything else.
LEMMA AppSendsOn ==
    ASSUME LoginInv, Course, AppSends
    PROVE  Course'
<1>1. /\ TypeOK /\ Client \in Peer /\ Server \in Peer /\ Other(Server) = Client
      /\ Server # Client /\ Base \in {2, 3} /\ CountInv /\ cipher[Server] \in Cipher
      /\ encoded[Server] \in Nat
  BY Peers, BaseIs, Numbers DEF LoginInv, Course
<1>2. PICK kind \in GamePacket : Send(Server, <<<<kind>>>>, cipher[Server])
  BY DEF AppSends
<1> DEFINE lists == <<<<kind>>>>
<1>3. /\ lists \in Seq(Seq(Packet)) /\ Len(lists) = 1 /\ lists[1] = <<kind>>
      /\ \A i \in 1..1 : i = 1
  <2>1. kind \in Packet
    BY <1>2 DEF Packet
  <2>2. QED
    BY <2>1, OneBatch
<1>4. Added(Server, lists)
  BY <1>1, <1>2, <1>3, SendAdds
<1> HIDE DEF lists
<1>5. /\ pc[Server] = "accepted" /\ UNCHANGED <<format, skipped, pc, inbox>>
  BY DEF AppSends
<1>6. encoded[Server] >= Base + 1
  BY <1>1, <1>5 DEF CountInv
<1>7. /\ encoded'[Server] = encoded[Server] + 1 /\ encoded'[Client] = encoded[Client] /\ Base' = Base
  BY <1>1, <1>3, <1>4, <1>5, BaseStays DEF Added
<1>8. \A i \in 1..Len(lists) : Regular(Base, encoded[Server] + i, lists[i])
  <2>1. Fits(Base, Before(Base, encoded[Server] + 1) + 1, kind) /\ encoded[Server] + 1 # Base
    BY <1>1, <1>6 DEF Fits, Before
  <2>2. Regular(Base, encoded[Server] + 1, <<kind>>)
    BY <1>1, <2>1, RegularOne
  <2>3. QED
    BY <1>3, <2>2
<1>9. CountInv'
  BY <1>1, <1>5, <1>6, <1>7 DEF CountInv
<1>10. pc'[Server] \notin ServerWaits /\ pc[Server] # "failed" /\ pc'[Server] # "failed"
  BY <1>5 DEF ServerWaits
<1>11. QED
  BY <1>3, <1>4, <1>5, <1>8, <1>9, <1>10, ServerMoves

LEMMA AcceptOn ==
    ASSUME LoginInv, Course, Accept
    PROVE  Course'
<1> DEFINE none == <<>>
<1>1. /\ TypeOK /\ Server \in Peer /\ Client \in Peer /\ Server # Client
      /\ pc \in [Peer -> Step] /\ CountInv
  BY Peers DEF LoginInv, TypeOK, Course
<1>2. /\ pc[Server] = "queued" /\ pc' = [pc EXCEPT ![Server] = "accepted"]
      /\ UNCHANGED <<format, skipped, wire, inbox, encoded>>
  BY DEF Accept, Goes
<1>3. none \in Seq(Seq(Packet)) /\ Len(none) = 0 /\ 1..0 = {} /\ Added(Server, none)
  BY <1>1, <1>2, NothingAdded
<1> HIDE DEF none
<1>4. pc'[Server] = "accepted" /\ pc'[Client] = pc[Client] /\ Base' = Base
  BY <1>1, <1>2, BaseStays
<1>5. CountInv'
  BY <1>1, <1>2, <1>4 DEF CountInv
<1>6. pc'[Server] \notin ServerWaits /\ pc[Server] # "failed" /\ pc'[Server] # "failed"
  BY <1>2, <1>4 DEF ServerWaits
<1>7. \A i \in 1..Len(none) : Regular(Base, encoded[Server] + i, none[i])
  BY <1>3
<1>8. QED
  BY <1>2, <1>3, <1>4, <1>5, <1>6, <1>7, ServerMoves

-----------------------------------------------------------------------------
(* Skipping, and the ends.                                                 *)

\* What the steps wait for.
LEMMA ServerExpects ==
    /\ \A step \in ServerStep \ ServerWaits : Expected(step) = {}
    /\ Expected("request") = {"RequestNetworkSettings"} /\ Expected("login") = {"Login"}
    /\ Expected("ack") = {"ClientToServerHandshake"}
    /\ Expected("response") = {"ResourcePackClientResponse"}
    /\ Expected("completed") = {"ResourcePackClientResponse"}
    /\ Expected("ready") = {"ResourcePacksReadyForValidation"}
BY DEF Expected, ServerStep, ServerWaits

LEMMA ClientExpects ==
    /\ Expected("done") = {} /\ Expected("failed") = {} /\ Expected("spawn") = Packet
    /\ Expected("settings") = {"NetworkSettings"}
    /\ Expected("answer") = {"ServerToClientHandshake"} \cup PlayStatus
    /\ Expected("status") = PlayStatus
    /\ Expected("packsInfo") = {"ResourcePacksInfo"}
    /\ Expected("packStack") = {"ResourcePackStack"}
BY DEF Expected

\* The server skips nothing but ClientCacheStatus.
LEMMA ServerSkips ==
    ASSUME LoginInv, Course, Skip(Server)
    PROVE  Course'
<1>1. /\ TypeOK /\ Server \in Peer /\ Client \in Peer /\ Server # Client /\ Other(Server) = Client
      /\ StreamInv /\ CountInv /\ ServerReads /\ ClientReads /\ SkipsFew
      /\ ServerInv /\ Base \in {2, 3}
  BY Peers, BaseIs DEF LoginInv, Course
<1>2. /\ Expected(pc[Server]) # {} /\ inbox[Server] # <<>>
      /\ Head(inbox[Server]) \notin Expected(pc[Server])
      /\ inbox' = [inbox EXCEPT ![Server] = Tail(@)]
      /\ skipped' = [skipped EXCEPT ![Server] = @ \cup {Head(inbox[Server])}]
      /\ UNCHANGED <<format, pc, wire, encoded>>
  BY DEF Skip, Waiting, Taking
<1>3. pc[Server] \in ServerWaits
  BY <1>1, <1>2, ServerExpects DEF ServerInv
<1>4. PICK t \in Nat : ServerTook(Base, pc[Server], t) /\ Head(inbox[Server]) = ToServer(Base, t + 1)
  BY <1>2, <1>3, ServerHead
<1>5. pc[Server] = "response" /\ Head(inbox[Server]) = "ClientCacheStatus"
  <2>1. CASE pc[Server] = "request"
    BY <1>2, <1>4, <2>1, ServerExpects DEF ServerTook, ToServer
  <2>2. CASE pc[Server] = "login"
    BY <1>2, <1>4, <2>2, ServerExpects DEF ServerTook, ToServer
  <2>3. CASE pc[Server] = "ack"
    <3>1. Base = 3 /\ t = 2
      BY <1>1, <1>4, <2>3 DEF ServerTook, CountInv
    <3>2. QED
      BY <1>2, <1>4, <2>3, <3>1, ServerExpects DEF ToServer
  <2>4. CASE pc[Server] = "response"
    BY <1>1, <1>2, <1>4, <2>4, ServerExpects DEF ServerTook, ToServer
  <2>5. CASE pc[Server] = "completed"
    BY <1>1, <1>2, <1>4, <2>5, ServerExpects DEF ServerTook, ToServer
  <2>6. CASE pc[Server] = "ready"
    BY <1>1, <1>2, <1>4, <2>6, ServerExpects DEF ServerTook, ToServer
  <2>7. QED
    BY <1>3, <2>1, <2>2, <2>3, <2>4, <2>5, <2>6 DEF ServerWaits
<1>6. /\ inbox \in [Peer -> Seq(Packet)] /\ skipped \in [Peer -> SUBSET Packet]
  BY <1>1 DEF TypeOK
<1>7. /\ inbox'[Server] = Tail(inbox[Server]) /\ inbox'[Client] = inbox[Client]
      /\ skipped'[Server] = skipped[Server] \cup {"ClientCacheStatus"}
      /\ skipped'[Client] = skipped[Client]
      /\ Arrived(Server)' = Arrived(Server) /\ Arrived(Client)' = Arrived(Client) /\ Base' = Base
  BY <1>1, <1>2, <1>5, <1>6, BaseStays DEF Arrived
<1>8. ASSUME NEW u \in Nat, ServerTook(Base, "response", u), "ClientCacheStatus" = ToServer(Base, u + 1)
      PROVE  ServerTook(Base, "response", u + 1)
  <2>1. u = Base \/ u = Base + 1
    BY <1>8 DEF ServerTook
  <2>2. ToServer(Base, Base + 2) = "ResourcePackClientResponse"
    BY <1>1 DEF ToServer
  <2>3. u # Base + 1
    BY <1>1, <1>8, <2>2
  <2>4. QED
    BY <1>1, <2>1, <2>3 DEF ServerTook
<1>9. ServerReads'
  BY <1>1, <1>2, <1>3, <1>5, <1>7, <1>8, ServerTakes
<1>10. ClientReads'
  <2>1. Over' <=> Over
    BY <1>2 DEF Over
  <2>2. QED
    BY <1>1, <1>2, <1>7, <2>1 DEF ClientReads, Over
<1>11. StreamInv' /\ CountInv'
  BY <1>1, <1>2, <1>7 DEF StreamInv, CountInv, Farewell
<1>12. SkipsFew'
  BY <1>1, <1>7 DEF SkipsFew
<1>13. QED
  BY <1>9, <1>10, <1>11, <1>12 DEF Course

\* The client skips nothing but the Disconnect.
LEMMA ClientSkips ==
    ASSUME LoginInv, Course, Skip(Client)
    PROVE  Course'
<1>1. /\ TypeOK /\ Server \in Peer /\ Client \in Peer /\ Server # Client /\ Other(Client) = Server
      /\ StreamInv /\ CountInv /\ ServerReads /\ ClientReads /\ SkipsFew
      /\ ClientInv /\ Base \in {2, 3} /\ inbox[Client] \in Seq(Packet)
  BY Peers, BaseIs DEF LoginInv, Course, TypeOK
<1>2. /\ Expected(pc[Client]) # {} /\ inbox[Client] # <<>>
      /\ Head(inbox[Client]) \notin Expected(pc[Client])
      /\ inbox' = [inbox EXCEPT ![Client] = Tail(@)]
      /\ skipped' = [skipped EXCEPT ![Client] = @ \cup {Head(inbox[Client])}]
      /\ UNCHANGED <<format, pc, wire, encoded>>
  BY DEF Skip, Waiting, Taking
<1>3. Head(inbox[Client]) \in Packet
  BY <1>1, <1>2, HeadTail
<1>4. pc[Client] \in ClientWaits
  BY <1>1, <1>2, <1>3, ClientExpects DEF ClientInv, ClientStep, ClientWaits
<1>5. PICK t \in Nat : ClientTook(Base, pc[Client], t) /\ FromServer(Base, t, inbox[Client], Over)
  BY <1>1, <1>2, <1>4 DEF ClientReads
<1>6. Over \in BOOLEAN
  BY DEF Over
<1>7. /\ \/ Fits(Base, t + 1, Head(inbox[Client]))
         \/ Over /\ Head(inbox[Client]) = "Disconnect" /\ Tail(inbox[Client]) = <<>>
  <2> HIDE DEF Over
  <2>1. QED
    BY <1>1, <1>2, <1>5, <1>6, TakeFromServer
<1>8. ~Fits(Base, t + 1, Head(inbox[Client]))
  <2>1. CASE pc[Client] = "settings"
    BY <1>1, <1>2, <1>5, <2>1, ClientExpects DEF ClientTook, Fits, ToClient
  <2>2. CASE pc[Client] = "answer"
    BY <1>1, <1>2, <1>5, <2>2, ClientExpects DEF ClientTook, Fits, ToClient, PlayStatus
  <2>3. CASE pc[Client] = "status"
    BY <1>1, <1>2, <1>5, <2>3, ClientExpects DEF ClientTook, Fits, ToClient, PlayStatus, CountInv
  <2>4. CASE pc[Client] = "packsInfo"
    BY <1>1, <1>2, <1>5, <2>4, ClientExpects DEF ClientTook, Fits, ToClient
  <2>5. CASE pc[Client] = "packStack"
    BY <1>1, <1>2, <1>5, <2>5, ClientExpects DEF ClientTook, Fits, ToClient
  <2>6. QED
    BY <1>4, <2>1, <2>2, <2>3, <2>4, <2>5 DEF ClientWaits
<1>9. Over /\ Head(inbox[Client]) = "Disconnect" /\ Tail(inbox[Client]) = <<>>
  BY <1>7, <1>8
<1>10. inbox \in [Peer -> Seq(Packet)] /\ skipped \in [Peer -> SUBSET Packet]
  BY <1>1 DEF TypeOK
<1>11. /\ inbox'[Client] = <<>> /\ inbox'[Server] = inbox[Server]
       /\ skipped'[Client] = skipped[Client] \cup {"Disconnect"}
       /\ skipped'[Server] = skipped[Server]
       /\ Arrived(Server)' = Arrived(Server) /\ Arrived(Client)' = Arrived(Client) /\ Base' = Base
  BY <1>1, <1>2, <1>9, <1>10, BaseStays DEF Arrived
<1>12. ClientReads'
  BY <1>2, <1>9, <1>11 DEF ClientReads, Over
<1>13. ServerReads'
  BY <1>1, <1>2, <1>11 DEF ServerReads
<1>14. StreamInv' /\ CountInv'
  BY <1>1, <1>2, <1>11 DEF StreamInv, CountInv, Farewell
<1>15. SkipsFew'
  BY <1>1, <1>11 DEF SkipsFew
<1>16. QED
  BY <1>12, <1>13, <1>14, <1>15 DEF Course

\* A client that fails sends nothing.
LEMMA ClientFailsOn ==
    ASSUME LoginInv, Course, Fail(Client)
    PROVE  Course'
<1> DEFINE none == <<>>
<1>1. /\ TypeOK /\ Server \in Peer /\ Client \in Peer /\ Server # Client
      /\ pc \in [Peer -> Step] /\ CountInv
  BY Peers DEF LoginInv, TypeOK, Course
<1>2. /\ pc' = [pc EXCEPT ![Client] = "failed"]
      /\ UNCHANGED <<format, skipped, wire, inbox, encoded>>
  BY <1>1 DEF Fail, Goes
<1>3. none \in Seq(Seq(Packet)) /\ Len(none) = 0 /\ 1..0 = {} /\ Added(Client, none)
  BY <1>1, <1>2, NothingAdded
<1> HIDE DEF none
<1>4. pc'[Client] = "failed" /\ pc'[Server] = pc[Server] /\ Base' = Base
  BY <1>1, <1>2, BaseStays
<1>5. CountInv'
  BY <1>1, <1>2, <1>4 DEF CountInv
<1>6. pc'[Client] \notin ClientWaits
  BY <1>4 DEF ClientWaits
<1>7. \A i \in 1..Len(none) : none[i] = <<ToServer(Base, encoded[Client] + i)>>
  BY <1>3
<1>8. QED
  BY <1>2, <1>3, <1>4, <1>5, <1>6, <1>7, ClientMoves

\* A server that fails says so.
LEMMA ServerFailsOn ==
    ASSUME LoginInv, Course, Fail(Server), Waiting(Server)
    PROVE  Course'
<1> DEFINE lists == <<<<"Disconnect">>>>
<1>1. /\ TypeOK /\ Server \in Peer /\ Client \in Peer /\ Server # Client /\ Other(Server) = Client
      /\ pc \in [Peer -> Step] /\ cipher[Server] \in Cipher
      /\ StreamInv /\ CountInv /\ ServerReads /\ ClientReads /\ SkipsFew
  BY Peers, Numbers DEF LoginInv, TypeOK, Course
<1>2. /\ lists \in Seq(Seq(Packet)) /\ Len(lists) = 1
  BY OneBatch DEF Packet
<1>3. /\ pc' = [pc EXCEPT ![Server] = "failed"] /\ Send(Server, lists, cipher[Server])
      /\ UNCHANGED <<format, skipped, inbox>>
  BY DEF Fail, Goes
<1>4. pc[Server] # "failed"
  BY ClientExpects DEF Waiting
<1>5. Added(Server, lists)
  BY <1>1, <1>2, <1>3, SendAdds
<1>6. pc'[Server] = "failed" /\ pc'[Client] = pc[Client] /\ Base' = Base
  BY <1>1, <1>3, BaseStays
<1>7. StreamInv' /\ wire'[Client] # <<>>
  BY <1>1, <1>3, <1>4, <1>5, <1>6, FarewellStream
<1>8. Arrived(Client)' = Arrived(Client) /\ encoded'[Client] = encoded[Client]
  BY <1>1, <1>2, <1>5, AddedNumbers DEF Added
<1>9. CountInv'
  BY <1>1, <1>6, <1>8 DEF CountInv
<1>10. ServerReads'
  BY <1>6 DEF ServerReads, ServerWaits
<1>11. Over' = FALSE /\ Over = FALSE
  BY <1>4, <1>7 DEF Over
<1>12. ClientReads'
  BY <1>1, <1>3, <1>6, <1>8, <1>11, SameReading
<1>13. QED
  BY <1>1, <1>3, <1>7, <1>9, <1>10, <1>12 DEF Course, SkipsFew

\* An application closes its Connection: the streams and the handshakes stay as they are.
LEMMA AppClosesOn ==
    ASSUME LoginInv, Course, UNCHANGED <<format, pc, wire, encoded, inbox, skipped>>
    PROVE  Course'
<1>1. Base' = Base /\ Over' = Over /\ StreamInv /\ CountInv /\ ServerReads /\ ClientReads /\ SkipsFew
  BY BaseStays DEF Course, Over
<1>2. Arrived(Server)' = Arrived(Server) /\ Arrived(Client)' = Arrived(Client)
  BY DEF Arrived
<1>3. StreamInv' /\ CountInv'
  BY <1>1, <1>2 DEF StreamInv, CountInv, Farewell
<1>4. ServerReads' /\ SkipsFew'
  BY <1>1, <1>2 DEF ServerReads, SkipsFew
<1>5. ClientReads'
  BY <1>1, <1>2, SameReading, SMTT(60)
<1>6. QED
  BY <1>3, <1>4, <1>5 DEF Course

-----------------------------------------------------------------------------
(* The read loop.                                                          *)

\* What the read loop does with the batch that is next.
LEMMA NextRead ==
    ASSUME LoginInv, NEW p \in Peer, ReadBatch(p)
    PROVE  /\ wire[p] # <<>> /\ wire[p][1].n = Arrived(p) + 1
           /\ Len(wire[p]) \in Nat /\ Len(wire[p]) >= 1
           /\ Arrived(p) \in Nat /\ Arrived(p) + Len(wire[p]) = encoded[Other(p)]
           /\ Arrived(p)' = Arrived(p) + 1 /\ Arrived(Other(p))' = Arrived(Other(p))
           /\ wire'[p] = Tail(wire[p]) /\ wire'[Other(p)] = wire[Other(p)]
           /\ Len(wire'[p]) = Len(wire[p]) - 1
           /\ \A i \in 1..Len(wire'[p]) : wire'[p][i] = wire[p][i + 1] /\ i + 1 \in 1..Len(wire[p])
           /\ inbox'[Other(p)] = inbox[Other(p)]
           /\ UNCHANGED <<format, pc, skipped, encoded, damaged>>
           /\ \/ inbox'[p] = inbox[p] \o wire[p][1].packets
              \/ inbox'[p] = inbox[p] /\ Arrived(p) + 1 \in refused'[p]
           /\ wire[p][1].packets \in Seq(Packet)
<1>1. TypeOK /\ Other(p) \in Peer /\ Other(p) # p /\ Other(Other(p)) = p
  BY Peers DEF LoginInv
<1>2. /\ wire[p] # <<>> /\ wire' = [wire EXCEPT ![p] = Tail(@)]
      /\ UNCHANGED <<format, pc, skipped, encoded, damaged>>
      /\ \/ inbox' = [inbox EXCEPT ![p] = @ \o Head(wire[p]).packets]
         \/ inbox' = inbox /\ refused' = [refused EXCEPT ![p] = @ \cup {Head(wire[p]).n}]
  BY DEF ReadBatch, handshake
<1>3. /\ wire \in [Peer -> Seq(Batch)] /\ inbox \in [Peer -> Seq(Packet)]
      /\ refused \in [Peer -> SUBSET Nat]
  BY <1>1 DEF TypeOK
<1>4. wire'[p] = Tail(wire[p]) /\ wire'[Other(p)] = wire[Other(p)] /\ wire[p] \in Seq(Batch)
  BY <1>1, <1>2, <1>3
<1>5. /\ Head(wire[p]) = wire[p][1] /\ Head(wire[p]) \in Batch
      /\ Len(wire[p]) \in Nat /\ Len(wire[p]) >= 1 /\ Len(wire'[p]) = Len(wire[p]) - 1
      /\ \A i \in 1..Len(wire'[p]) : wire'[p][i] = wire[p][i + 1] /\ i + 1 \in 1..Len(wire[p])
  <2>1. /\ Head(wire[p]) = wire[p][1] /\ Head(wire[p]) \in Batch
        /\ Len(wire[p]) \in Nat /\ Len(wire[p]) >= 1 /\ Len(Tail(wire[p])) = Len(wire[p]) - 1
        /\ \A i \in 1..Len(Tail(wire[p])) :
              Tail(wire[p])[i] = wire[p][i + 1] /\ i + 1 \in 1..Len(wire[p])
    BY <1>2, <1>4, HeadTail
  <2>2. QED
    BY <1>4, <2>1
<1>6. Head(wire[p]).n = Arrived(p) + 1 /\ Head(wire[p]).packets \in Seq(Packet)
  BY <1>2, <1>5, NextBatch DEF Good, Batch
<1>7. /\ Arrived(p) \in Nat /\ encoded[Other(p)] \in Nat
      /\ Arrived(p) = encoded[Other(p)] - Len(wire[p])
  BY Numbers
<1>8. Arrived(p)' = Arrived(p) + 1 /\ Arrived(p) + Len(wire[p]) = encoded[Other(p)]
  <2>1. Arrived(p)' = encoded[Other(p)] - Len(wire'[p])
    BY <1>2 DEF Arrived
  <2>2. QED
    BY <1>5, <1>7, <2>1
<1>9. Arrived(Other(p))' = Arrived(Other(p))
  BY <1>1, <1>2, <1>4 DEF Arrived
<1>10. /\ inbox'[Other(p)] = inbox[Other(p)]
       /\ \/ inbox'[p] = inbox[p] \o Head(wire[p]).packets
          \/ inbox'[p] = inbox[p] /\ Head(wire[p]).n \in refused'[p]
  BY <1>1, <1>2, <1>3
<1>11. QED
  BY <1>2, <1>4, <1>5, <1>6, <1>7, <1>8, <1>9, <1>10

\* Without damage a batch is refused only if it is the Disconnect of a server that has failed.
LEMMA RefusedFarewell ==
    ASSUME LoginInv', Undamaged', NEW p \in Peer, NEW n \in refused'[p]
    PROVE  p = Client /\ pc'[Server] = "failed" /\ n = encoded'[Server]
<1>1. \/ \E d \in damaged'[p] : d <= n
      \/ p = Client /\ pc'[Server] = "failed" /\ n = encoded'[Server]
  BY DEF LoginInv, RefusedInv, RefusedOnlyDamage
<1>2. damaged'[p] = {}
  BY DEF Undamaged
<1>3. QED
  BY <1>1, <1>2

\* The server's inbox grows by the next packet of the client.
LEMMA ServerReadsOn ==
    ASSUME LoginInv, LoginInv', Undamaged', Course, ReadBatch(Server)
    PROVE  Course'
<1> DEFINE batch == wire[Server][1].packets
           a == Arrived(Server)
<1>1. /\ TypeOK /\ Server \in Peer /\ Client \in Peer /\ Server # Client
      /\ Other(Server) = Client /\ Other(Client) = Server
      /\ StreamInv /\ CountInv /\ ServerReads /\ ClientReads /\ SkipsFew
      /\ inbox[Server] \in Seq(Packet)
  BY Peers DEF LoginInv, TypeOK, Course
<1>2. /\ Len(wire[Server]) \in Nat /\ Len(wire[Server]) >= 1 /\ a \in Nat
      /\ Arrived(Server)' = a + 1 /\ Arrived(Client)' = Arrived(Client)
      /\ wire'[Client] = wire[Client]
      /\ \A i \in 1..Len(wire'[Server]) :
            wire'[Server][i] = wire[Server][i + 1] /\ i + 1 \in 1..Len(wire[Server])
      /\ inbox'[Client] = inbox[Client]
      /\ UNCHANGED <<format, pc, skipped, encoded, damaged>>
      /\ \/ inbox'[Server] = inbox[Server] \o batch
         \/ inbox'[Server] = inbox[Server] /\ a + 1 \in refused'[Server]
      /\ batch \in Seq(Packet)
  BY <1>1, NextRead
<1>3. Base' = Base
  BY <1>2, BaseStays
<1>4. batch = <<ToServer(Base, a + 1)>>
  <2>1. 1 \in 1..Len(wire[Server])
    BY <1>2
  <2>2. QED
    BY <1>1, <2>1 DEF StreamInv
<1>5. a + 1 \notin refused'[Server]
  BY <1>1, RefusedFarewell
<1> HIDE DEF batch
<1>6. /\ inbox'[Server] = inbox[Server] \o batch /\ Len(batch) = 1 /\ batch[1] = ToServer(Base, a + 1)
      /\ \A i \in 1..1 : i = 1
  BY <1>2, <1>4, <1>5
<1>7. ServerReads'
  <2>1. SUFFICES ASSUME pc[Server] \in ServerWaits
                 PROVE  \E t \in Nat :
                           /\ ServerTook(Base, pc[Server], t)
                           /\ a + 1 = t + Len(inbox'[Server])
                           /\ FromClient(Base, t, inbox'[Server])
    BY <1>2, <1>3 DEF ServerReads
  <2>2. PICK t \in Nat :
           /\ ServerTook(Base, pc[Server], t)
           /\ a = t + Len(inbox[Server])
           /\ FromClient(Base, t, inbox[Server])
    BY <1>1, <2>1 DEF ServerReads
  <2> DEFINE old == inbox[Server]
             new == inbox'[Server]
  <2>3. old \in Seq(Packet) /\ new = old \o batch /\ batch \in Seq(Packet)
    BY <1>1, <1>2, <1>6
  <2> HIDE DEF a, old, new
  <2>4. /\ Len(old) \in Nat /\ Len(new) = Len(old) + Len(batch)
        /\ \A i \in 1..Len(old) : new[i] = old[i]
        /\ \A i \in 1..Len(batch) : new[Len(old) + i] = batch[i]
        /\ \A i \in 1..Len(new) : i \in 1..Len(old) \/ i - Len(old) \in 1..Len(batch)
    BY <2>3, Joined
  <2>5. ASSUME NEW i \in 1..Len(new)
        PROVE  new[i] = ToServer(Base, t + i)
    <3>1. CASE i \in 1..Len(old)
      BY <2>2, <2>4, <3>1 DEF FromClient, old
    <3>2. CASE i - Len(old) \in 1..Len(batch)
      <4>1. i - Len(old) = 1
        BY <1>6, <3>2
      <4>2. i = Len(old) + 1
        BY <2>4, <4>1
      <4>3. 1 \in 1..Len(batch) /\ t + i = a + 1
        BY <1>6, <2>2, <2>4, <4>2 DEF old
      <4>4. new[i] = batch[1]
        BY <2>4, <4>2, <4>3
      <4>5. QED
        BY <1>6, <4>3, <4>4
    <3>3. QED
      BY <2>4, <3>1, <3>2
  <2>6. a + 1 = t + Len(new)
    BY <1>6, <2>2, <2>4 DEF old
  <2>7. QED
    BY <2>2, <2>5, <2>6 DEF FromClient, new
<1>8. StreamInv'
  <2>1. ASSUME NEW i \in 1..Len(wire'[Server])
        PROVE  wire'[Server][i].packets = <<ToServer(Base, (a + 1) + i)>>
    <3>1. wire[Server][i + 1].packets = <<ToServer(Base, a + (i + 1))>>
      BY <1>1, <1>2 DEF StreamInv
    <3>2. a + (i + 1) = (a + 1) + i
      BY <1>2
    <3>3. QED
      BY <1>2, <3>1, <3>2
  <2>2. QED
    BY <1>1, <1>2, <1>3, <2>1 DEF StreamInv, Farewell
<1>9. CountInv' /\ SkipsFew'
  BY <1>1, <1>2, <1>3 DEF CountInv, SkipsFew
<1>10. ClientReads'
  <2>1. Over' = Over
    BY <1>2 DEF Over
  <2>2. QED
    BY <1>1, <1>2, <1>3, <2>1, SameReading
<1>11. QED
  BY <1>7, <1>8, <1>9, <1>10 DEF Course

\* The batches before the next one hold one packet each, or two.
LEMMA BeforeNext ==
    ASSUME NEW b \in {2, 3}, NEW n \in Nat, NEW packets, Regular(b, n, packets)
    PROVE  Before(b, n + 1) = Before(b, n) + Len(packets) /\ Before(b, n) \in Int
BY DEF Before, Regular

\* The client's inbox grows by the packets of the server's next batch.
LEMMA ClientReadsOn ==
    ASSUME LoginInv, LoginInv', Undamaged', Course, ReadBatch(Client)
    PROVE  Course'
<1> DEFINE batch == wire[Client][1].packets
           a == Arrived(Client)
           old == inbox[Client]
           new == inbox'[Client]
<1>1. /\ TypeOK /\ Server \in Peer /\ Client \in Peer /\ Server # Client
      /\ Other(Server) = Client /\ Other(Client) = Server /\ Base \in {2, 3}
      /\ StreamInv /\ CountInv /\ ServerReads /\ ClientReads /\ SkipsFew
      /\ old \in Seq(Packet) /\ encoded[Server] \in Nat
  BY Peers, BaseIs, Numbers DEF LoginInv, TypeOK, Course
<1>2. /\ wire[Client] # <<>> /\ Len(wire[Client]) \in Nat /\ Len(wire[Client]) >= 1 /\ a \in Nat
      /\ a + Len(wire[Client]) = encoded[Server]
      /\ Arrived(Client)' = a + 1 /\ Arrived(Server)' = Arrived(Server)
      /\ wire'[Server] = wire[Server] /\ wire'[Client] = Tail(wire[Client])
      /\ Len(wire'[Client]) = Len(wire[Client]) - 1
      /\ \A i \in 1..Len(wire'[Client]) :
            wire'[Client][i] = wire[Client][i + 1] /\ i + 1 \in 1..Len(wire[Client])
      /\ inbox'[Server] = inbox[Server]
      /\ UNCHANGED <<format, pc, skipped, encoded, damaged>>
      /\ \/ new = old \o batch
         \/ new = old /\ a + 1 \in refused'[Client]
      /\ batch \in Seq(Packet)
  BY <1>1, NextRead, ZenonT(60)
<1>3. Base' = Base /\ ~Over
  BY <1>2, BaseStays DEF Over
<1>4. IF Farewell(a + 1) THEN batch = <<"Disconnect">> ELSE Regular(Base, a + 1, batch)
  <2>1. 1 \in 1..Len(wire[Client])
    BY <1>2
  <2>2. QED
    BY <1>1, <2>1 DEF StreamInv
<1>5. a + 1 \in refused'[Client] => Farewell(a + 1)
  BY <1>1, <1>2, RefusedFarewell DEF Farewell
<1>6. StreamInv'
  <2>1. ASSUME NEW i \in 1..Len(wire'[Client])
        PROVE  IF Farewell((a + 1) + i) THEN wire'[Client][i].packets = <<"Disconnect">>
               ELSE Regular(Base, (a + 1) + i, wire'[Client][i].packets)
    <3>1. IF Farewell(a + (i + 1)) THEN wire[Client][i + 1].packets = <<"Disconnect">>
          ELSE Regular(Base, a + (i + 1), wire[Client][i + 1].packets)
      BY <1>1, <1>2 DEF StreamInv
    <3>2. a + (i + 1) = (a + 1) + i
      BY <1>2
    <3>3. QED
      BY <1>2, <3>1, <3>2
  <2>2. QED
    BY <1>1, <1>2, <1>3, <2>1, ZenonT(60) DEF StreamInv, Farewell
<1>7. Farewell(a + 1) => Over'
  <2>1. SUFFICES ASSUME Farewell(a + 1)
                 PROVE  pc'[Server] = "failed" /\ wire'[Client] = <<>>
    BY DEF Over
  <2>2. pc[Server] = "failed" /\ Len(wire[Client]) = 1
    <3>1. pc[Server] = "failed" /\ a + 1 = encoded[Server]
      BY <2>1 DEF Farewell
    <3>2. a \in Nat /\ Len(wire[Client]) \in Nat /\ a + Len(wire[Client]) = encoded[Server]
      BY <1>2
    <3>3. encoded[Server] \in Nat
      BY <1>1
    <3>4. \A x, y, z \in Nat : x + 1 = z /\ x + y = z => y = 1
      OBVIOUS
    <3>5. Len(wire[Client]) = 1
      <4> HIDE DEF a
      <4>1. QED
        BY <3>1, <3>2, <3>3, <3>4
    <3>6. QED
      BY <3>1, <3>5
  <2>3. Len(wire'[Client]) = 0 /\ wire'[Client] \in Seq(Batch)
    BY <1>1, <1>2, <2>2 DEF LoginInv, TypeOK
  <2>4. QED
    BY <1>2, <2>2, <2>3, EmptySeq
<1> HIDE DEF a, batch, old, new, Over
<1>8. ClientReads'
  <2>1. SUFFICES ASSUME pc[Client] \in ClientWaits
                 PROVE  \E t \in Nat :
                           /\ ClientTook(Base, pc[Client], t)
                           /\ ~Over' => Before(Base, (a + 1) + 1) = t + Len(new)
                           /\ FromServer(Base, t, new, Over')
    BY <1>2, <1>3 DEF ClientReads, new
  <2>2. PICK t \in Nat :
           /\ ClientTook(Base, pc[Client], t)
           /\ Before(Base, a + 1) = t + Len(old)
           /\ FromServer(Base, t, old, Over)
    BY <1>1, <1>3, <2>1 DEF ClientReads, a, old
  <2>3. \A i \in 1..Len(old) : Fits(Base, t + i, old[i])
    BY <1>3, <2>2 DEF FromServer
  <2>4. Len(old) \in Nat
    BY <1>1
  <2>5. CASE new = old /\ Farewell(a + 1)
    <3>1. FromServer(Base, t, new, Over')
      BY <2>3, <2>5 DEF FromServer
    <3>2. QED
      BY <1>7, <2>2, <2>5, <3>1
  <2>6. CASE new = old \o batch
    <3>1. /\ Len(old) \in Nat /\ Len(batch) \in Nat /\ Len(new) = Len(old) + Len(batch)
          /\ \A i \in 1..Len(old) : new[i] = old[i]
          /\ \A i \in 1..Len(batch) : new[Len(old) + i] = batch[i]
          /\ \A i \in 1..Len(new) : i \in 1..Len(old) \/ i - Len(old) \in 1..Len(batch)
      BY <1>1, <1>2, <2>6, Joined
    <3>2. CASE Farewell(a + 1)
      <4>1. Len(batch) = 1 /\ batch[1] = "Disconnect" /\ \A i \in 1..1 : i = 1
        BY <1>4, <3>2
      <4>2. ASSUME NEW i \in 1..Len(new)
            PROVE  Fits(Base, t + i, new[i]) \/ (Over' /\ i = Len(new) /\ new[i] = "Disconnect")
        <5>1. CASE i \in 1..Len(old)
          BY <2>3, <3>1, <5>1
        <5>2. CASE i - Len(old) \in 1..Len(batch)
          <6>1. i - Len(old) = 1
            BY <4>1, <5>2
          <6>2. i = Len(old) + 1 /\ i = Len(new) /\ 1 \in 1..Len(batch)
            BY <3>1, <4>1, <6>1
          <6>3. new[i] = batch[1]
            BY <3>1, <6>2
          <6>4. QED
            BY <1>7, <3>2, <4>1, <6>2, <6>3
        <5>3. QED
          BY <3>1, <5>1, <5>2
      <4>3. FromServer(Base, t, new, Over')
        BY <4>2, Zenon DEF FromServer
      <4>4. QED
        BY <1>7, <2>2, <3>2, <4>3
    <3>3. CASE ~Farewell(a + 1)
      <4>1. Regular(Base, a + 1, batch)
        BY <1>4, <3>3
      <4>2. /\ Before(Base, (a + 1) + 1) = Before(Base, a + 1) + Len(batch)
            /\ Before(Base, a + 1) \in Int
        <5>1. a + 1 \in Nat
          BY <1>2
        <5>2. QED
          BY <1>1, <4>1, <5>1, BeforeNext
      <4>3. Before(Base, (a + 1) + 1) = t + Len(new)
        BY <2>2, <3>1, <4>2
      <4>4. ASSUME NEW i \in 1..Len(new)
            PROVE  Fits(Base, t + i, new[i])
        <5>1. CASE i \in 1..Len(old)
          BY <2>3, <3>1, <5>1
        <5>2. CASE i - Len(old) \in 1..Len(batch)
          <6>1. PICK j \in 1..Len(batch) : i = Len(old) + j
            <7>1. i = Len(old) + (i - Len(old))
              BY <3>1
            <7>2. QED
              BY <5>2, <7>1
          <6>2. Fits(Base, Before(Base, a + 1) + j, batch[j])
            BY <4>1 DEF Regular
          <6>3. Before(Base, a + 1) + j = t + i
            BY <2>2, <3>1, <6>1
          <6>4. QED
            BY <3>1, <6>1, <6>2, <6>3
        <5>3. QED
          BY <3>1, <5>1, <5>2
      <4>5. FromServer(Base, t, new, Over')
        BY <4>4, Zenon DEF FromServer
      <4>6. QED
        BY <2>2, <4>3, <4>5
    <3>4. QED
      BY <3>2, <3>3
  <2>7. QED
    BY <1>2, <1>5, <2>5, <2>6
<1>9. CountInv' /\ SkipsFew'
  BY <1>1, <1>2, <1>3 DEF CountInv, SkipsFew
<1>10. ServerReads'
  BY <1>1, <1>2, <1>3 DEF ServerReads
<1>11. QED
  BY <1>6, <1>8, <1>9, <1>10 DEF Course

-----------------------------------------------------------------------------
(* The invariant.                                                          *)

\* Before anything has been read.
LEMMA SkipStarts == Init => SkipInv
<1> SUFFICES ASSUME Init
             PROVE  Course
  BY DEF SkipInv
<1>1. Client \in Peer /\ Server \in Peer /\ Client # Server /\ Other(Server) = Client
      /\ Other(Client) = Server
  BY Peers
<1>2. /\ pc[Client] = "settings" /\ pc[Server] = "request" /\ inbox[Client] = <<>>
      /\ inbox[Server] = <<>> /\ skipped[Client] = {} /\ skipped[Server] = {}
      /\ encoded[Client] = 1 /\ encoded[Server] = 0
      /\ wire[Client] = <<>> /\ Len(wire[Server]) = 1
      /\ wire[Server][1].packets = <<"RequestNetworkSettings">>
  BY <1>1 DEF Init
<1>3. /\ Len(wire[Client]) = 0 /\ Len(inbox[Client]) = 0 /\ Len(inbox[Server]) = 0
      /\ 1..0 = {} /\ \A i \in 1..1 : i = 1
  BY <1>2
<1>4. Arrived(Client) = 0 /\ Arrived(Server) = 0
  <2>1. Arrived(Client) = 0 - 0 /\ Arrived(Server) = 1 - 1
    BY <1>1, <1>2, <1>3 DEF Arrived
  <2>2. QED
    BY <2>1
<1>5. StreamInv
  <2>1. ToServer(Base, 1) = "RequestNetworkSettings"
    BY DEF ToServer
  <2>2. QED
    BY <1>2, <1>3, <1>4, <2>1 DEF StreamInv
<1>6. CountInv /\ SkipsFew
  BY <1>2 DEF CountInv, SkipsFew
<1>7. ServerReads
  <2>1. /\ ServerTook(Base, pc[Server], 0) /\ Arrived(Server) = 0 + Len(inbox[Server])
        /\ FromClient(Base, 0, inbox[Server])
    BY <1>2, <1>3, <1>4 DEF ServerTook, FromClient
  <2>2. QED
    BY <2>1 DEF ServerReads
<1>8. ClientReads
  <2>1. /\ ClientTook(Base, pc[Client], 0)
        /\ Before(Base, Arrived(Client) + 1) = 0 + Len(inbox[Client])
        /\ FromServer(Base, 0, inbox[Client], Over)
    BY <1>2, <1>3, <1>4, BaseIs DEF ClientTook, FromServer, Before
  <2>2. QED
    BY <2>1 DEF ClientReads
<1>9. QED
  BY <1>5, <1>6, <1>7, <1>8 DEF Course

\* What is damaged stays damaged.
LEMMA DamageStays ==
    ASSUME LoginInv, [Next]_vars, Undamaged'
    PROVE  Undamaged /\ \A p \in Peer : ~Damage(p)
<1>1. damaged \in [Peer -> SUBSET Nat]
  BY DEF LoginInv, TypeOK
<1>2. ASSUME NEW p \in Peer, Damage(p)
      PROVE  FALSE
  <2>1. PICK i \in DOMAIN wire[p] :
           damaged' = [damaged EXCEPT ![p] = @ \cup {wire[p][i].n}]
    BY <1>2 DEF Damage
  <2>2. wire[p][i].n \in damaged'[p]
    <3> DEFINE n == wire[p][i].n
    <3>1. damaged' = [damaged EXCEPT ![p] = @ \cup {n}]
      BY <2>1
    <3> HIDE DEF n
    <3>2. n \in damaged'[p]
      BY <1>1, <3>1, SMTT(60)
    <3>3. QED
      BY <3>2 DEF n
  <2>3. QED
    BY <2>2 DEF Undamaged
<1>3. UNCHANGED damaged
  BY <1>2 DEF Next, Dialing, Listening, ReadSettings, ReadHandshake, ReadStatus, ReadPacks, Answer,
     WaitForSpawn, ToldToGo, Fail, ReadRequest, ReadLogin, ReadAnswers, Taking, Accept, AppSends,
     ReadBatch, Skip, Timeout, PeerGone, AppCloses, vars
<1>4. QED
  BY <1>2, <1>3 DEF Undamaged

\* One step per action.
LEMMA SkipGoesOn == LoginInv /\ LoginInv' /\ SkipInv /\ [Next]_vars => SkipInv'
<1> SUFFICES ASSUME LoginInv, LoginInv', SkipInv, [Next]_vars, Undamaged'
             PROVE  Course'
  BY DEF SkipInv
<1>1. Course /\ \A p \in Peer : ~Damage(p)
  BY DamageStays DEF SkipInv
<1>2. CASE Dialing
  <2>1. CASE ToldToGo
    <3>1. Fail(Client)
      BY <2>1 DEF ToldToGo
    <3>2. QED
      BY <1>1, <3>1, ClientFailsOn
  <2>2. QED
    BY <1>1, <1>2, <2>1, ReadSettingsOn, ReadHandshakeOn, ReadStatusOn, ReadPacksOn, WaitForSpawnOn
       DEF Dialing
<1>3. CASE Listening
  BY <1>1, <1>3, ReadRequestOn, ReadLoginOn, ReadAnswersOn DEF Listening
<1>4. CASE Accept \/ AppSends
  BY <1>1, <1>4, AcceptOn, AppSendsOn
<1>5. ASSUME NEW p \in Peer, ReadBatch(p)
      PROVE  Course'
  BY <1>1, <1>5, Peers, ServerReadsOn, ClientReadsOn
<1>6. ASSUME NEW p \in Peer, Skip(p)
      PROVE  Course'
  BY <1>1, <1>6, Peers, ServerSkips, ClientSkips
<1>7. ASSUME NEW p \in Peer, Timeout(p) \/ PeerGone(p)
      PROVE  Course'
  <2>1. Waiting(p) /\ Fail(p)
    BY <1>7 DEF Timeout, PeerGone
  <2>2. QED
    BY <1>1, <2>1, Peers, ClientFailsOn, ServerFailsOn
<1>8. ASSUME NEW p \in Peer, AppCloses(p)
      PROVE  Course'
  <2>1. UNCHANGED <<format, pc, wire, encoded, inbox, skipped>>
    BY <1>8 DEF AppCloses, handshake
  <2>2. QED
    BY <1>1, <2>1, AppClosesOn
<1>9. CASE UNCHANGED vars
  <2>1. UNCHANGED <<format, pc, wire, encoded, inbox, skipped>>
    BY <1>9 DEF vars, handshake
  <2>2. QED
    BY <1>1, <2>1, AppClosesOn
<1>10. QED
  BY <1>1, <1>2, <1>3, <1>4, <1>5, <1>6, <1>7, <1>8, <1>9 DEF Next

LEMMA SkipAlways == Spec => [](LoginInv /\ SkipInv)
<1>1. Init => SkipInv
  BY SkipStarts
<1>2. LoginInv /\ LoginInv' /\ SkipInv /\ [Next]_vars => SkipInv'
  BY SkipGoesOn
<1>3. QED
  BY <1>1, <1>2, LoginInvariant, PTL DEF Spec

\* _expect and _expect_any throw away what they do not wait for: between a Dialer and a
\* Listener, as long as nothing is damaged, that is the ClientCacheStatus that the server
\* has no use for, and the Disconnect of a server that has given up.
THEOREM OnlyUselessIsSkipped == Spec => []NothingNeededIsSkipped
<1>1. SkipInv => NothingNeededIsSkipped
  BY DEF SkipInv, Undamaged, Course, SkipsFew, NothingNeededIsSkipped
<1>2. QED
  BY <1>1, SkipAlways, PTL

-----------------------------------------------------------------------------
(* The two handshakes do not wait for each other.                          *)

AllRead == \A p \in Peer : pc[p] # "failed" /\ wire[p] = <<>> /\ inbox[p] = <<>>

\* With nothing on its way a server that waits has taken all that the client has sent.
LEMMA ServerHasRead ==
    ASSUME LoginInv, Course, AllRead, pc[Server] \in ServerWaits
    PROVE  ServerTook(Base, pc[Server], encoded[Client]) /\ encoded[Client] \in Nat
<1>1. PICK t \in Nat : /\ ServerTook(Base, pc[Server], t)
                       /\ Arrived(Server) = t + Len(inbox[Server])
  BY DEF Course, ServerReads
<1>2. Len(wire[Server]) = 0 /\ Len(inbox[Server]) = 0
  BY Peers DEF AllRead
<1>3. encoded[Client] \in Nat
  BY Peers DEF LoginInv, TypeOK
<1>4. Arrived(Server) = encoded[Client]
  BY <1>2, <1>3, Peers DEF Arrived
<1>5. t = encoded[Client]
  BY <1>1, <1>2, <1>3, <1>4
<1>6. QED
  BY <1>1, <1>3, <1>5

\* So has a client.
LEMMA ClientHasRead ==
    ASSUME LoginInv, Course, AllRead, pc[Client] \in ClientWaits
    PROVE  /\ ClientTook(Base, pc[Client], Before(Base, encoded[Server] + 1))
           /\ encoded[Server] \in Nat
<1>1. Len(wire[Client]) = 0 /\ Len(inbox[Client]) = 0 /\ ~Over
  BY Peers DEF AllRead, Over
<1>2. PICK t \in Nat : /\ ClientTook(Base, pc[Client], t)
                       /\ Before(Base, Arrived(Client) + 1) = t + Len(inbox[Client])
  BY <1>1 DEF Course, ClientReads
<1>3. encoded[Server] \in Nat
  BY Peers DEF LoginInv, TypeOK
<1>4. Arrived(Client) = encoded[Server]
  BY <1>1, <1>3, Peers DEF Arrived
<1>5. t = Before(Base, encoded[Server] + 1)
  BY <1>1, <1>2, <1>4
<1>6. QED
  BY <1>2, <1>3, <1>5

\* In each step in which the client waits for the server one of the two has something to
\* read: the counts of what each has sent and taken contradict each other otherwise.
LEMMA NothingToRead ==
    ASSUME LoginInv, Course, AllRead
    PROVE  pc[Client] \in {"spawn", "done"} /\ pc[Server] \in {"queued", "accepted"}
<1>1. /\ ClientInv /\ ServerInv /\ SpawnInv /\ CountInv
      /\ pc[Client] # "failed" /\ pc[Server] # "failed"
  BY Peers DEF LoginInv, Course, AllRead
<1>2. encoded[Client] \in Nat /\ encoded[Server] \in Nat
  BY Peers DEF LoginInv, TypeOK
<1>3. pc[Server] \in ServerWaits \cup {"queued", "accepted"}
  BY <1>1 DEF ServerInv, ServerStep, ServerWaits
<1>4. /\ pc[Server] \in {"request", "login", "ack"} =>
             encoded[Server] = IF pc[Server] = "request" THEN 0
                               ELSE IF pc[Server] = "login" THEN 1 ELSE 2
      /\ pc[Server] = "ack" => Base = 3
      /\ pc[Server] \in {"response", "completed", "ready"} =>
             encoded[Server] = IF pc[Server] = "response" THEN Base ELSE Base + 1
      /\ pc[Server] \in {"queued", "accepted"} => encoded[Server] >= Base + 1
  BY <1>1 DEF ServerInv, CountInv
<1>5. pc[Server] \in ServerWaits => ServerTook(Base, pc[Server], encoded[Client])
  BY ServerHasRead
<1>6. pc[Client] \notin ClientWaits
  <2>1. SUFFICES ASSUME pc[Client] \in ClientWaits PROVE FALSE
    OBVIOUS
  <2> DEFINE took == Before(Base, encoded[Server] + 1)
  <2>2. ClientTook(Base, pc[Client], took)
    BY <2>1, ClientHasRead
  <2>3. took = IF encoded[Server] >= Base THEN encoded[Server] + 1 ELSE encoded[Server]
    BY <1>2, BaseIs DEF Before
  <2> HIDE DEF took
  <2>4. CASE pc[Client] = "settings"
    <3>1. took = 0 /\ encoded[Client] = 1
      BY <1>1, <2>2, <2>4 DEF ClientTook, ClientInv
    <3>2. encoded[Server] = 0
      BY <1>2, <2>3, <3>1
    <3>3. pc[Server] = "request"
      BY <1>3, <1>4, <3>2, BaseIs DEF ServerWaits
    <3>4. QED
      BY <1>5, <3>1, <3>3 DEF ServerTook, ServerWaits
  <2>5. CASE pc[Client] = "answer"
    <3>1. took = 1 /\ encoded[Client] = 2
      BY <1>1, <2>2, <2>5 DEF ClientTook, ClientInv
    <3>2. encoded[Server] = 1
      BY <1>2, <2>3, <3>1, BaseIs
    <3>3. pc[Server] = "login"
      BY <1>3, <1>4, <3>2, BaseIs DEF ServerWaits
    <3>4. QED
      BY <1>5, <3>1, <3>3 DEF ServerTook, ServerWaits
  <2>6. CASE pc[Client] = "status"
    <3>1. took = 2 /\ encoded[Client] = 3 /\ Base = 3
      BY <1>1, <2>2, <2>6 DEF ClientTook, CountInv
    <3>2. encoded[Server] = 2
      BY <1>2, <2>3, <3>1
    <3>3. pc[Server] = "ack"
      BY <1>3, <1>4, <3>1, <3>2 DEF ServerWaits
    <3>4. QED
      BY <1>5, <3>1, <3>3 DEF ServerTook, ServerWaits
  <2>7. CASE pc[Client] = "packsInfo"
    <3>1. took = Base
      BY <2>2, <2>7 DEF ClientTook
    <3>2. QED
      BY <1>2, <2>3, <3>1, BaseIs
  <2>8. CASE pc[Client] = "packStack"
    <3>1. took = Base + 1 /\ encoded[Client] = Base + 2
      BY <1>1, <2>2, <2>8 DEF ClientTook, CountInv
    <3>2. encoded[Server] = Base
      BY <1>2, <2>3, <3>1, BaseIs
    <3>3. pc[Server] = "response"
      BY <1>3, <1>4, <3>2, BaseIs DEF ServerWaits
    <3>4. QED
      BY <1>5, <3>1, <3>3, BaseIs DEF ServerTook, ServerWaits
  <2>9. QED
    BY <2>1, <2>4, <2>5, <2>6, <2>7, <2>8 DEF ClientWaits
<1>7. pc[Client] \in {"spawn", "done"}
  BY <1>1, <1>6 DEF ClientInv, ClientStep, ClientWaits
<1>8. pc[Server] \notin ServerWaits
  <2>1. CASE pc[Client] = "done"
    BY <1>1, <2>1 DEF SpawnInv, ServerWaits
  <2>2. CASE pc[Client] = "spawn"
    <3>1. encoded[Client] >= Base + 4
      BY <1>1, <2>2 DEF CountInv
    <3>2. QED
      BY <1>2, <1>5, <3>1, BaseIs DEF ServerTook, ServerWaits
  <2>3. QED
    BY <1>7, <2>1, <2>2
<1>9. QED
  BY <1>3, <1>7, <1>8

\* The handshakes of a Dialer and a Listener never wait for each other, in any format, over
\* either kind of transport: while neither has failed and nothing is damaged, nothing on its
\* way means that both have come to where only the applications go on.
THEOREM HandshakesFit == Spec => []NeverBothWait
<1>1. LoginInv /\ SkipInv => NeverBothWait
  <2>1. SUFFICES ASSUME LoginInv, SkipInv, AllRead, Undamaged
                 PROVE  pc[Client] \in {"spawn", "done"} /\ pc[Server] \in {"queued", "accepted"}
    BY DEF NeverBothWait, AllRead, Undamaged
  <2>2. QED
    BY <2>1, NothingToRead DEF SkipInv
<1>2. QED
  BY <1>1, SkipAlways, PTL

=============================================================================
