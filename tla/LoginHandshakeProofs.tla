------------------------ MODULE LoginHandshakeProofs ------------------------
(***************************************************************************)
(* Theorems about LoginHandshake, for every format of the login, any       *)
(* number of application packets and any damage: the two ends turn         *)
(* compression and encryption on between the same two batches.             *)
(***************************************************************************)
EXTENDS LoginHandshake, SequenceTheorems, TLAPS

Cipher == [on : BOOLEAN, sent : Nat, read : Nat, aligned : BOOLEAN]

\* What this login turns on: with a public key the server asks for encryption, which a
\* NetherNet connection does not do.
Mode == IF ~HasPublicKey THEN "plain" ELSE IF dtls THEN "asked" ELSE "encrypted"
Enc == Mode = "encrypted"

\* Whether the server's connection has been accepted.
Accepted == pc[Server] = "accepted"

\* A batch has its place in the key stream by its number: the first two are not encrypted.
Key(mode, n) == IF mode = "encrypted" /\ n > 2 THEN n - 2 ELSE 0

\* How many batches have come to p.
Arrived(p) == encoded[Other(p)] - Len(wire[p])

\* The packets that a change of what is turned on depends on do not come in earlier batches.
Place(mode, acc, p, kind, n) ==
    /\ p = Server /\ kind = "Login" => n >= 2
    /\ p = Server /\ kind = "ClientToServerHandshake" => n >= 3
    /\ p = Client /\ kind = "ServerToClientHandshake" => n >= 2 /\ mode # "plain"
    /\ p = Client /\ kind \in PlayStatus /\ mode = "encrypted" => n >= 3
    /\ p = Client /\ kind = "PlayerSpawn" => acc

Good(mode, acc, p, b, n) ==
    /\ b.n = n /\ (b.compressed <=> n > 1) /\ b.key = Key(mode, n)
    /\ \A j \in 1..Len(b.packets) : Place(mode, acc, p, b.packets[j], n)

WireInv ==
    \A p \in Peer :
        /\ Len(wire[p]) <= encoded[Other(p)]
        /\ \A i \in 1..Len(wire[p]) : Good(Mode, Accepted, p, wire[p][i], Arrived(p) + i)

\* A client that has no cipher yet cannot have read what is encrypted.
InboxInv ==
    \A p \in Peer :
        /\ inbox[p] # <<>> => Arrived(p) >= 1
        /\ \A i \in 1..Len(inbox[p]) :
              /\ Place(Mode, Accepted, p, inbox[p][i], Arrived(p))
              /\ p = Client /\ Enc /\ ~cipher[Client].on => inbox[p][i] \notin PlayStatus

\* Where an end with the cipher c is in the two key streams, after encoding e batches and
\* reading a, when it has refused those in r.
CipherOk(c, e, a, r) ==
    c.on => /\ e >= 2 /\ c.sent = e - 2
            /\ a >= 2 /\ (r = {} => c.aligned /\ c.read = a - 2)

CipherInv ==
    \A p \in Peer :
        /\ compress[p] => Arrived(p) >= 1
        /\ CipherOk(cipher[p], encoded[p], Arrived(p), refused[p])

ClientStep == {"settings", "answer", "status", "packsInfo", "packStack", "spawn", "done", "failed"}
ServerStep == {"request", "login", "ack", "response", "completed", "ready", "queued", "accepted",
               "failed"}

\* How many batches a side has encoded at each step, and what it has turned on.
ClientInv ==
    /\ pc[Client] \in ClientStep
    /\ compress[Client] <=> encoded[Client] >= 2
    /\ cipher[Client].on <=> Enc /\ encoded[Client] >= 3
    /\ encoded[Client] >= 1
    /\ pc[Client] = "settings" => encoded[Client] = 1
    /\ pc[Client] = "answer" => encoded[Client] = 2
    /\ pc[Client] \in ClientStep \ {"settings", "answer", "failed"} => encoded[Client] >= 3
    /\ pc[Client] = "failed" => closed[Client]

ServerInv ==
    /\ pc[Server] \in ServerStep
    /\ pc[Server] = "request" => encoded[Server] = 0 /\ ~compress[Server] /\ ~cipher[Server].on
    /\ pc[Server] = "login" => encoded[Server] = 1 /\ compress[Server] /\ ~cipher[Server].on
    /\ pc[Server] \in ServerStep \ {"request", "login", "failed"} =>
          encoded[Server] >= 2 /\ compress[Server] /\ (cipher[Server].on <=> Enc)
    /\ cipher[Server].on => Enc
    /\ pc[Server] = "ack" => encoded[Server] = 2
    /\ Enc /\ pc[Server] \in ServerStep \ {"request", "login", "ack", "failed"} => encoded[Server] >= 3
    /\ pc[Server] = "failed" => closed[Server]

\* The server is ahead of the client only with the Disconnect of a handshake that failed.
CrossInv ==
    /\ encoded[Client] < 2 => encoded[Server] <= 1 \/ (pc[Server] = "failed" /\ encoded[Server] = 2)
    /\ Enc /\ encoded[Client] < 3 =>
          encoded[Server] <= 2 \/ (pc[Server] = "failed" /\ encoded[Server] = 3)

RefusedInv ==
    /\ \A p \in Peer : \A n \in refused[p] : n <= Arrived(p)
    /\ RefusedOnlyDamage
    /\ Enc /\ ~cipher[Client].on /\ Arrived(Client) >= 3 => refused[Client] # {}

SpawnInv == pc[Client] = "done" => pc[Server] = "accepted"

\* The inductive invariant.
LoginInv ==
    /\ TypeOK /\ WireInv /\ InboxInv /\ CipherInv /\ ClientInv /\ ServerInv /\ CrossInv
    /\ RefusedInv /\ SpawnInv

-----------------------------------------------------------------------------
(* Helpers.                                                                *)

\* The peers.
LEMMA Peers ==
    /\ Peer = {Client, Server} /\ Client # Server
    /\ Other(Client) = Server /\ Other(Server) = Client
    /\ \A p \in Peer : Other(p) \in Peer /\ Other(p) # p /\ Other(Other(p)) = p
BY PeersAssumption DEF Peer, Other

\* The format of a login and its transport do not change, so neither does what it turns on.
LEMMA ModeStays ==
    ASSUME UNCHANGED <<format, dtls>>
    PROVE  Mode' = Mode /\ Enc' = Enc
BY DEF Mode, Enc, HasPublicKey, ConnectionRequest, EncodeOffline, EncodeAuthenticated

\* A packet that is in its place stays in it, also in a later batch and once the server's
\* connection is accepted.
LEMMA PlaceStays ==
    ASSUME NEW mode, NEW acc, NEW acc2, acc => acc2, NEW p, NEW kind, NEW m \in Int, NEW n \in Int,
           m <= n, Place(mode, acc, p, kind, m)
    PROVE  Place(mode, acc2, p, kind, n)
BY DEF Place

\* So does a batch.
LEMMA GoodStays ==
    ASSUME NEW mode, NEW acc, NEW acc2, acc => acc2, NEW p, NEW b, NEW n \in Int,
           Good(mode, acc, p, b, n)
    PROVE  Good(mode, acc2, p, b, n)
BY PlaceStays DEF Good

\* The first element of a sequence and the others.
LEMMA HeadTail ==
    ASSUME NEW S, NEW s \in Seq(S), s # <<>>
    PROVE  /\ Head(s) = s[1] /\ Head(s) \in S /\ Len(s) \in Nat /\ Len(s) >= 1
           /\ Tail(s) \in Seq(S) /\ Len(Tail(s)) = Len(s) - 1
           /\ \A i \in 1..Len(Tail(s)) : Tail(s)[i] = s[i + 1] /\ i + 1 \in 1..Len(s)
OBVIOUS

\* Joining two sequences.
LEMMA Joined ==
    ASSUME NEW S, NEW s \in Seq(S), NEW t \in Seq(S)
    PROVE  /\ s \o t \in Seq(S) /\ Len(s) \in Nat /\ Len(t) \in Nat
           /\ Len(s \o t) = Len(s) + Len(t)
           /\ \A i \in 1..Len(s) : (s \o t)[i] = s[i]
           /\ \A i \in 1..Len(t) : (s \o t)[Len(s) + i] = t[i]
           /\ \A i \in 1..Len(s \o t) : i \in 1..Len(s) \/ i - Len(s) \in 1..Len(t)
OBVIOUS

-----------------------------------------------------------------------------
(* Sending.                                                                *)

\* What flush does to the other direction: the batches are added behind those under way,
\* each in its place.
Sent(p, k) ==
    /\ encoded' = [encoded EXCEPT ![p] = @ + k]
    /\ wire' \in [Peer -> Seq(Batch)]
    /\ wire'[p] = wire[p]
    /\ Len(wire'[Other(p)]) = Len(wire[Other(p)]) + k
    /\ \A i \in 1..Len(wire[Other(p)]) : wire'[Other(p)][i] = wire[Other(p)][i]
    /\ \A i \in 1..k :
          Good(Mode, Accepted', Other(p), wire'[Other(p)][Len(wire[Other(p)]) + i], encoded[p] + i)

\* What is sent is put behind what is on its way, numbered on.
Batched(p, lists, c) ==
    /\ encoded' = [encoded EXCEPT ![p] = @ + Len(lists)]
    /\ wire' \in [Peer -> Seq(Batch)]
    /\ wire'[p] = wire[p]
    /\ Len(wire'[Other(p)]) = Len(wire[Other(p)]) + Len(lists)
    /\ \A i \in 1..Len(wire[Other(p)]) : wire'[Other(p)][i] = wire[Other(p)][i]
    /\ \A i \in 1..Len(lists) :
          wire'[Other(p)][Len(wire[Other(p)]) + i] =
             [n |-> encoded[p] + i, packets |-> lists[i], compressed |-> compress[p],
              key |-> IF c.on THEN c.sent + i ELSE 0]

\* Send puts batches with their numbers, and with what is turned on, in the wire.
LEMMA SendBatches ==
    ASSUME TypeOK, NEW p \in Peer, NEW lists \in Seq(Seq(Packet)), NEW c \in Cipher,
           Send(p, lists, c)
    PROVE  Batched(p, lists, c)
<1> DEFINE new == [i \in 1..Len(lists) |->
                     [n |-> encoded[p] + i, packets |-> lists[i], compressed |-> compress[p],
                      key |-> IF c.on THEN c.sent + i ELSE 0]]
<1> HIDE DEF new
<1>1. Len(lists) \in Nat /\ \A i \in 1..Len(lists) : lists[i] \in Seq(Packet)
  OBVIOUS
<1>2. encoded[p] \in Nat /\ compress[p] \in BOOLEAN /\ c.on \in BOOLEAN /\ c.sent \in Nat
  BY DEF TypeOK, Cipher
<1>3. \A i \in 1..Len(lists) :
         [n |-> encoded[p] + i, packets |-> lists[i], compressed |-> compress[p],
          key |-> IF c.on THEN c.sent + i ELSE 0] \in Batch
  BY <1>1, <1>2, SMTT(60) DEF Batch
<1>4. new \in Seq(Batch) /\ Len(new) = Len(lists)
  BY <1>1, <1>3 DEF new
<1>5. \A i \in 1..Len(lists) :
         new[i] = [n |-> encoded[p] + i, packets |-> lists[i], compressed |-> compress[p],
                   key |-> IF c.on THEN c.sent + i ELSE 0]
  BY DEF new
<1>6. wire \in [Peer -> Seq(Batch)] /\ Other(p) \in Peer /\ Other(p) # p
  BY Peers DEF TypeOK
<1>7. wire' = [wire EXCEPT ![Other(p)] = @ \o new]
  BY DEF Send, new
<1>8. wire'[Other(p)] = wire[Other(p)] \o new /\ wire'[p] = wire[p]
  BY <1>6, <1>7
<1>9. /\ wire[Other(p)] \o new \in Seq(Batch)
      /\ Len(wire[Other(p)] \o new) = Len(wire[Other(p)]) + Len(new)
      /\ \A i \in 1..Len(wire[Other(p)]) : (wire[Other(p)] \o new)[i] = wire[Other(p)][i]
      /\ \A i \in 1..Len(new) : (wire[Other(p)] \o new)[Len(wire[Other(p)]) + i] = new[i]
  <2>1. wire[Other(p)] \in Seq(Batch)
    BY <1>6
  <2>2. QED
    <3> DEFINE old == wire[Other(p)]
    <3>1. old \in Seq(Batch) /\ new \in Seq(Batch)
      BY <1>4, <2>1
    <3> HIDE DEF old
    <3>2. /\ old \o new \in Seq(Batch) /\ Len(old \o new) = Len(old) + Len(new)
          /\ \A i \in 1..Len(old) : (old \o new)[i] = old[i]
          /\ \A i \in 1..Len(new) : (old \o new)[Len(old) + i] = new[i]
      BY <3>1, Joined
    <3>3. QED
      BY <3>2 DEF old
<1>10. wire' \in [Peer -> Seq(Batch)]
  BY <1>6, <1>7, <1>9
<1>11. QED
  BY <1>4, <1>5, <1>8, <1>9, <1>10 DEF Send, Batched

\* What is under way stays right when a side sends, and nothing arrives by it.
LEMMA SendingKeeps ==
    ASSUME TypeOK, WireInv, NEW p \in Peer, NEW k \in Nat, Sent(p, k), Mode' = Mode,
           Accepted => Accepted'
    PROVE  WireInv' /\ \A r \in Peer : Arrived(r)' = Arrived(r) /\ Arrived(r) \in Nat
<1>1. /\ encoded \in [Peer -> Nat] /\ wire \in [Peer -> Seq(Batch)]
      /\ encoded' \in [Peer -> Nat] /\ wire' \in [Peer -> Seq(Batch)]
  <2>1. encoded \in [Peer -> Nat] /\ wire \in [Peer -> Seq(Batch)]
    BY DEF TypeOK
  <2>2. encoded' = [encoded EXCEPT ![p] = @ + k] /\ wire' \in [Peer -> Seq(Batch)]
    BY DEF Sent
  <2>3. encoded[p] + k \in Nat
    BY <2>1
  <2>4. QED
    BY <2>1, <2>2, <2>3
<1>2. /\ encoded'[p] = encoded[p] + k /\ encoded'[Other(p)] = encoded[Other(p)]
      /\ \A r \in Peer : Len(wire[r]) \in Nat /\ Len(wire'[r]) \in Nat
                         /\ encoded[r] \in Nat /\ encoded'[r] \in Nat
  BY <1>1, Peers DEF Sent
<1>3. \A r \in Peer : r = p \/ r = Other(p)
  BY Peers
<1>4. Arrived(p)' = Arrived(p) /\ Arrived(Other(p))' = Arrived(Other(p))
  BY <1>1, <1>2, Peers DEF Arrived, Sent
<1>5. \A r \in Peer : Arrived(r)' = Arrived(r) /\ Arrived(r) \in Nat
  <2>1. \A r \in Peer : Arrived(r) \in Nat
    BY <1>2, Peers DEF Arrived, WireInv
  <2>2. QED
    BY <1>3, <1>4, <2>1
<1>6. ASSUME NEW r \in Peer, NEW i \in 1..Len(wire[r])
      PROVE  Good(Mode, Accepted', r, wire[r][i], Arrived(r) + i)
  <2>1. Good(Mode, Accepted, r, wire[r][i], Arrived(r) + i)
    BY DEF WireInv
  <2>2. Arrived(r) + i \in Int
    BY <1>2, <1>5
  <2>3. QED
    BY <2>1, <2>2, GoodStays
<1>7. \A i \in 1..Len(wire'[p]) : Good(Mode, Accepted', p, wire'[p][i], Arrived(p) + i)
  BY <1>6 DEF Sent
<1>8. \A i \in 1..Len(wire'[Other(p)]) :
         Good(Mode, Accepted', Other(p), wire'[Other(p)][i], Arrived(Other(p)) + i)
  <2>1. SUFFICES ASSUME NEW i \in 1..Len(wire'[Other(p)])
                 PROVE  Good(Mode, Accepted', Other(p), wire'[Other(p)][i], Arrived(Other(p)) + i)
    OBVIOUS
  <2>2. CASE i <= Len(wire[Other(p)])
    <3>1. i \in 1..Len(wire[Other(p)]) /\ Other(p) \in Peer
      BY <1>2, <2>2, Peers
    <3>2. wire'[Other(p)][i] = wire[Other(p)][i]
      BY <3>1 DEF Sent
    <3>3. QED
      BY <3>1, <3>2, <1>6
  <2>3. CASE i > Len(wire[Other(p)])
    <3>1. PICK m \in 1..k : i = Len(wire[Other(p)]) + m
      <4>1. i - Len(wire[Other(p)]) \in 1..k
        BY <1>2, <2>3, Peers, SMTT(60) DEF Sent
      <4>2. i = Len(wire[Other(p)]) + (i - Len(wire[Other(p)]))
        BY <1>2, Peers
      <4>3. QED
        BY <4>1, <4>2
    <3>2. Arrived(Other(p)) + i = encoded[p] + m
      <4>1. Arrived(Other(p)) = encoded[p] - Len(wire[Other(p)])
        BY Peers DEF Arrived
      <4>2. encoded[p] \in Nat /\ Len(wire[Other(p)]) \in Nat /\ m \in Nat
        BY <1>2, Peers
      <4>3. QED
        BY <3>1, <4>1, <4>2
    <3>3. QED
      BY <3>1, <3>2 DEF Sent
  <2>4. QED
    BY <2>2, <2>3, <1>2, Peers
<1>9. \A r \in Peer : Len(wire'[r]) <= encoded'[Other(r)]
  <2>1. \A r \in Peer : Arrived(r)' \in Nat
    BY <1>5
  <2>2. QED
    BY <2>1, <1>2, Peers DEF Arrived
<1>10. WireInv'
  <2>1. \A r \in Peer : \A i \in 1..Len(wire'[r]) :
           Good(Mode, Accepted', r, wire'[r][i], Arrived(r) + i)
    BY <1>3, <1>7, <1>8
  <2>2. \A r \in Peer : \A i \in 1..Len(wire'[r]) :
           Good(Mode', Accepted', r, wire'[r][i], Arrived(r)' + i)
    BY <2>1, <1>5
  <2>3. QED
    BY <1>9, <2>2 DEF WireInv
<1>11. QED
  BY <1>5, <1>10

\* The place in the key stream that a cipher gives is the one of the number.
LEMMA KeyOf ==
    ASSUME NEW mode, NEW e \in Nat, NEW i \in Nat, i >= 1, NEW c \in Cipher,
           c.on => mode = "encrypted" /\ e >= 2 /\ c.sent = e - 2,
           mode = "encrypted" /\ ~c.on => e + i <= 2
    PROVE  (IF c.on THEN c.sent + i ELSE 0) = Key(mode, e + i)
BY DEF Key, Cipher

\* What a side adds is right if the cipher it uses is where the numbers say.
LEMMA SendIsSent ==
    ASSUME TypeOK, NEW p \in Peer, NEW lists \in Seq(Seq(Packet)), NEW c \in Cipher,
           Send(p, lists, c),
           \A i \in 1..Len(lists) : (compress[p] <=> encoded[p] + i > 1),
           c.on => Enc /\ encoded[p] >= 2 /\ c.sent = encoded[p] - 2,
           Enc /\ ~c.on => encoded[p] + Len(lists) <= 2,
           \A i \in 1..Len(lists) : \A j \in 1..Len(lists[i]) :
              Place(Mode, Accepted', Other(p), lists[i][j], encoded[p] + i)
    PROVE  Sent(p, Len(lists))
<1>1. /\ encoded' = [encoded EXCEPT ![p] = @ + Len(lists)]
      /\ wire' \in [Peer -> Seq(Batch)]
      /\ wire'[p] = wire[p]
      /\ Len(wire'[Other(p)]) = Len(wire[Other(p)]) + Len(lists)
      /\ \A i \in 1..Len(wire[Other(p)]) : wire'[Other(p)][i] = wire[Other(p)][i]
      /\ \A i \in 1..Len(lists) :
            wire'[Other(p)][Len(wire[Other(p)]) + i] =
               [n |-> encoded[p] + i, packets |-> lists[i], compressed |-> compress[p],
                key |-> IF c.on THEN c.sent + i ELSE 0]
  <2>1. Batched(p, lists, c)
    BY SendBatches
  <2>2. QED
    BY <2>1 DEF Batched
<1>2. ASSUME NEW i \in 1..Len(lists)
      PROVE  Good(Mode, Accepted', Other(p), wire'[Other(p)][Len(wire[Other(p)]) + i], encoded[p] + i)
  <2>1. wire'[Other(p)][Len(wire[Other(p)]) + i] =
           [n |-> encoded[p] + i, packets |-> lists[i], compressed |-> compress[p],
            key |-> IF c.on THEN c.sent + i ELSE 0]
    BY <1>1
  <2>2. encoded[p] \in Nat /\ i \in Nat /\ Len(lists) \in Nat /\ i >= 1 /\ i <= Len(lists)
        /\ c.sent \in Nat /\ c.on \in BOOLEAN
    BY SMTT(60) DEF TypeOK, Cipher
  <2>3. (IF c.on THEN c.sent + i ELSE 0) = Key(Mode, encoded[p] + i)
    <3>1. c.on => Mode = "encrypted" /\ encoded[p] >= 2 /\ c.sent = encoded[p] - 2
      BY DEF Enc
    <3>2. Mode = "encrypted" /\ ~c.on => encoded[p] + i <= 2
      BY <2>2 DEF Enc
    <3> HIDE DEF Enc
    <3>3. QED
      BY <2>2, <3>1, <3>2, KeyOf
  <2>4. QED
    BY <2>1, <2>3 DEF Good
<1>3. QED
  BY <1>1, <1>2 DEF Sent

\* A side that sends nothing.
LEMMA NothingSent ==
    ASSUME TypeOK, NEW p \in Peer, UNCHANGED <<wire, encoded>>
    PROVE  Sent(p, 0)
<1>1. encoded = [encoded EXCEPT ![p] = @ + 0]
  BY DEF TypeOK
<1>2. Len(wire[Other(p)]) \in Nat
  BY Peers DEF TypeOK
<1>3. QED
  BY <1>1, <1>2 DEF Sent, TypeOK

-----------------------------------------------------------------------------
(* What the steps of a handshake have in common.                           *)

Types ==
    /\ format \in Formats /\ dtls \in BOOLEAN
    /\ pc \in [Peer -> Step]
    /\ compress \in [Peer -> BOOLEAN] /\ closed \in [Peer -> BOOLEAN]
    /\ cipher \in [Peer -> Cipher]
    /\ radiusSent \in BOOLEAN /\ appSent \in 0..AppBound
    /\ skipped \in [Peer -> SUBSET Packet]

\* p takes the packet in front of it, or none.
Takes(p) ==
    \/ inbox' = inbox
    \/ inbox[p] # <<>> /\ inbox' = [inbox EXCEPT ![p] = Tail(@)]

\* A step of p that sends k batches and does not touch the other side.
Acts(p, k) ==
    /\ Sent(p, k) /\ Takes(p) /\ Types'
    /\ UNCHANGED <<format, dtls, decoded, refused, damaged>>
    /\ compress'[Other(p)] = compress[Other(p)] /\ cipher'[Other(p)] = cipher[Other(p)]
    /\ Accepted => Accepted'
    /\ pc[Server] = "failed" => pc'[Server] = "failed" /\ encoded'[Server] = encoded[Server]
    /\ cipher[Client].on => cipher'[Client].on
    /\ compress'[p] => Arrived(p) >= 1
    /\ CipherOk(cipher'[p], encoded'[p], Arrived(p), refused[p])

LEMMA Acting ==
    ASSUME LoginInv, NEW p \in Peer, NEW k \in Nat, Acts(p, k)
    PROVE  /\ TypeOK' /\ WireInv' /\ InboxInv' /\ CipherInv' /\ RefusedInv'
           /\ Enc' = Enc /\ \A r \in Peer : Arrived(r)' = Arrived(r) /\ Arrived(r) \in Nat
<1>1. /\ TypeOK /\ WireInv /\ InboxInv /\ CipherInv /\ RefusedInv
      /\ Mode' = Mode /\ Enc' = Enc
  BY ModeStays DEF LoginInv, Acts
<1>2. WireInv' /\ \A r \in Peer : Arrived(r)' = Arrived(r) /\ Arrived(r) \in Nat
  BY <1>1, SendingKeeps DEF Acts
<1>3. \A r \in Peer : r = p \/ r = Other(p)
  BY Peers
<1>4. inbox \in [Peer -> Seq(Packet)]
  BY <1>1 DEF TypeOK
<1>5. /\ inbox' \in [Peer -> Seq(Packet)]
      /\ \A r \in Peer :
            /\ inbox'[r] # <<>> => inbox[r] # <<>>
            /\ \A i \in 1..Len(inbox'[r]) : \E m \in 1..Len(inbox[r]) : inbox'[r][i] = inbox[r][m]
  <2>1. CASE inbox' = inbox
    BY <2>1, <1>4
  <2>2. CASE inbox[p] # <<>> /\ inbox' = [inbox EXCEPT ![p] = Tail(@)]
    <3>1. inbox[p] \in Seq(Packet) /\ inbox'[p] = Tail(inbox[p])
          /\ \A r \in Peer : r # p => inbox'[r] = inbox[r]
      BY <1>4, <2>2
    <3>2. /\ Tail(inbox[p]) \in Seq(Packet)
          /\ \A i \in 1..Len(Tail(inbox[p])) :
                Tail(inbox[p])[i] = inbox[p][i + 1] /\ i + 1 \in 1..Len(inbox[p])
      BY <2>2, <3>1, HeadTail
    <3>3. inbox' \in [Peer -> Seq(Packet)]
      BY <1>4, <2>2, <3>2
    <3>4. QED
      BY <2>2, <3>1, <3>2, <3>3
  <2>3. QED
    BY <2>1, <2>2 DEF Acts, Takes
<1>6. TypeOK'
  <2>1. encoded' \in [Peer -> Nat]
    <3>1. encoded \in [Peer -> Nat]
      BY <1>1 DEF TypeOK
    <3>2. encoded' = [encoded EXCEPT ![p] = @ + k]
      BY DEF Acts, Sent
    <3>3. encoded[p] + k \in Nat
      BY <3>1
    <3>4. QED
      BY <3>1, <3>2, <3>3
  <2>2. QED
    BY <1>1, <1>5, <2>1 DEF Acts, Sent, Types, TypeOK, Cipher
<1>7. InboxInv'
  <2>1. SUFFICES ASSUME NEW r \in Peer, inbox'[r] # <<>>
                 PROVE  /\ Arrived(r)' >= 1
                        /\ \A i \in 1..Len(inbox'[r]) :
                              /\ Place(Mode', Accepted', r, inbox'[r][i], Arrived(r)')
                              /\ r = Client /\ Enc' /\ ~cipher'[Client].on
                                    => inbox'[r][i] \notin PlayStatus
    <3>1. \A r \in Peer : inbox'[r] = <<>> => 1..Len(inbox'[r]) = {}
      BY <1>5
    <3>2. QED
      BY <2>1, <3>1 DEF InboxInv
  <2>2. Arrived(r)' >= 1
    BY <1>1, <1>2, <1>5, <2>1 DEF InboxInv
  <2>3. ASSUME NEW i \in 1..Len(inbox'[r])
        PROVE  /\ Place(Mode', Accepted', r, inbox'[r][i], Arrived(r)')
               /\ r = Client /\ Enc' /\ ~cipher'[Client].on => inbox'[r][i] \notin PlayStatus
    <3>1. PICK m \in 1..Len(inbox[r]) : inbox'[r][i] = inbox[r][m]
      BY <1>5
    <3>2. /\ Place(Mode, Accepted, r, inbox[r][m], Arrived(r))
          /\ r = Client /\ Enc /\ ~cipher[Client].on => inbox[r][m] \notin PlayStatus
      BY <1>1 DEF InboxInv
    <3>3. Place(Mode, Accepted', r, inbox[r][m], Arrived(r))
      BY <1>2, <3>2, PlaceStays DEF Acts
    <3>4. QED
      BY <1>1, <1>2, <3>1, <3>2, <3>3 DEF Acts
  <2>4. QED
    BY <2>2, <2>3
<1>8. CipherInv'
  <2>1. /\ compress'[p] => Arrived(p)' >= 1
        /\ CipherOk(cipher'[p], encoded'[p], Arrived(p)', refused'[p])
    BY <1>2 DEF Acts
  <2>2. /\ compress'[Other(p)] => Arrived(Other(p))' >= 1
        /\ CipherOk(cipher'[Other(p)], encoded'[Other(p)], Arrived(Other(p))', refused'[Other(p)])
    <3>1. encoded'[Other(p)] = encoded[Other(p)]
      BY <1>1, Peers DEF Acts, Sent, TypeOK
    <3>2. QED
      BY <1>1, <1>2, <3>1, Peers DEF Acts, CipherInv
  <2>3. QED
    BY <1>3, <2>1, <2>2 DEF CipherInv
<1>9. RefusedInv'
  <2>1. \A r \in Peer : \A n \in refused'[r] : n <= Arrived(r)'
    BY <1>1, <1>2 DEF RefusedInv, Acts
  <2>2. RefusedOnlyDamage'
    BY <1>1 DEF RefusedInv, RefusedOnlyDamage, Acts
  <2>3. Enc' /\ ~cipher'[Client].on /\ Arrived(Client)' >= 3 => refused'[Client] # {}
    BY <1>1, <1>2, Peers DEF RefusedInv, Acts
  <2>4. QED
    BY <2>1, <2>2, <2>3 DEF RefusedInv
<1>10. QED
  BY <1>1, <1>2, <1>6, <1>7, <1>8, <1>9

\* The numbers, and what is turned on.
LEMMA Numbers ==
    ASSUME LoginInv, NEW p \in Peer
    PROVE  /\ TypeOK /\ encoded[p] \in Nat /\ Len(wire[p]) \in Nat /\ Arrived(p) \in Nat
           /\ Arrived(p) = encoded[Other(p)] - Len(wire[p]) /\ Arrived(p) <= encoded[Other(p)]
           /\ encoded[Other(p)] \in Nat
           /\ cipher[p] \in Cipher /\ compress[p] \in BOOLEAN /\ pc[p] \in Step
<1>1. TypeOK /\ WireInv /\ Other(p) \in Peer
  BY Peers DEF LoginInv
<1>2. /\ encoded[p] \in Nat /\ encoded[Other(p)] \in Nat /\ Len(wire[p]) \in Nat
      /\ compress[p] \in BOOLEAN /\ pc[p] \in Step
  BY <1>1 DEF TypeOK
<1>3. cipher[p] \in Cipher
  BY <1>1 DEF TypeOK, Cipher
<1>4. Len(wire[p]) <= encoded[Other(p)]
  BY <1>1 DEF WireInv
<1>5. QED
  BY <1>1, <1>2, <1>3, <1>4 DEF Arrived

\* The cipher that a side has is where the numbers say.
LEMMA CipherStands ==
    ASSUME LoginInv, NEW p \in Peer
    PROVE  /\ cipher[p].on => Enc /\ encoded[p] >= 2 /\ cipher[p].sent = encoded[p] - 2
           /\ cipher[p].on => Arrived(p) >= 2
           /\ compress[p] => Arrived(p) >= 1
<1>1. CipherInv /\ ClientInv /\ ServerInv
  BY DEF LoginInv
<1>2. p = Client \/ p = Server
  BY Peers
<1>3. cipher[p].on => Enc
  BY <1>1, <1>2 DEF ClientInv, ServerInv
<1>4. QED
  BY <1>1, <1>3 DEF CipherInv, CipherOk

\* The packet in front of a side is in its place.
LEMMA HeadPlaced ==
    ASSUME LoginInv, NEW p \in Peer, inbox[p] # <<>>
    PROVE  /\ Head(inbox[p]) \in Packet /\ Arrived(p) >= 1
           /\ Place(Mode, Accepted, p, Head(inbox[p]), Arrived(p))
           /\ p = Client /\ Enc /\ ~cipher[Client].on => Head(inbox[p]) \notin PlayStatus
<1>1. TypeOK /\ InboxInv
  BY DEF LoginInv
<1>2. inbox[p] \in Seq(Packet)
  BY <1>1 DEF TypeOK
<1>3. Head(inbox[p]) = inbox[p][1] /\ Head(inbox[p]) \in Packet /\ 1 \in 1..Len(inbox[p])
  BY <1>2, HeadTail
<1>4. QED
  BY <1>1, <1>3 DEF InboxInv

\* One packet in one batch.
LEMMA OneBatch ==
    ASSUME NEW kind \in Packet
    PROVE  /\ <<<<kind>>>> \in Seq(Seq(Packet)) /\ Len(<<<<kind>>>>) = 1
           /\ \A i \in 1..1 : \A j \in 1..Len(<<<<kind>>>>[i]) : i = 1 /\ <<<<kind>>>>[i][j] = kind
OBVIOUS

\* What encrypting does to a cipher.
LEMMA UsedIs ==
    ASSUME NEW c \in Cipher, NEW n \in Nat
    PROVE  /\ Used(c, n) \in Cipher /\ (Used(c, n).on <=> c.on)
           /\ c.on => Used(c, n).sent = c.sent + n
           /\ Used(c, n).read = c.read /\ (Used(c, n).aligned <=> c.aligned)
<1>1. CASE c.on
  <2>1. Used(c, n) = [c EXCEPT !.sent = c.sent + n]
    BY <1>1 DEF Used
  <2>2. c.sent + n \in Nat
    BY DEF Cipher
  <2>3. Used(c, n) \in Cipher /\ Used(c, n).sent = c.sent + n /\ Used(c, n).read = c.read
    BY <2>1, <2>2 DEF Cipher
  <2>4. Used(c, n).on = c.on /\ Used(c, n).aligned = c.aligned
    BY <2>1, Zenon DEF Cipher
  <2>5. QED
    BY <2>3, <2>4
<1>2. CASE ~c.on
  BY <1>2 DEF Used, Cipher
<1>3. QED
  BY <1>1, <1>2

\* A step of the client that leaves the server alone.
LEMMA ClientActs ==
    ASSUME LoginInv, NEW k \in Nat, Acts(Client, k), ClientInv',
           pc'[Server] = pc[Server], closed'[Server] = closed[Server],
           pc'[Client] = "done" => pc[Server] = "accepted"
    PROVE  LoginInv'
<1>1. Client \in Peer /\ Other(Client) = Server
  BY Peers
<1>2. TypeOK' /\ WireInv' /\ InboxInv' /\ CipherInv' /\ RefusedInv' /\ Enc' = Enc
  BY <1>1, Acting
<1>3. /\ encoded[Client] \in Nat /\ encoded[Server] \in Nat
      /\ encoded'[Client] = encoded[Client] + k /\ encoded'[Server] = encoded[Server]
  BY Peers DEF Acts, Sent, LoginInv, TypeOK
<1>4. compress'[Server] = compress[Server] /\ cipher'[Server] = cipher[Server]
  BY <1>1 DEF Acts
<1>5. ServerInv'
  BY <1>2, <1>3, <1>4 DEF ServerInv, LoginInv
<1>6. CrossInv'
  BY <1>2, <1>3 DEF CrossInv, LoginInv
<1>7. SpawnInv'
  BY DEF SpawnInv
<1>8. QED
  BY <1>2, <1>5, <1>6, <1>7 DEF LoginInv

\* A step of the server that leaves the client alone.
LEMMA ServerActs ==
    ASSUME LoginInv, NEW k \in Nat, Acts(Server, k), ServerInv', CrossInv',
           pc'[Client] = pc[Client], closed'[Client] = closed[Client]
    PROVE  LoginInv'
<1>1. Server \in Peer /\ Other(Server) = Client
  BY Peers
<1>2. TypeOK' /\ WireInv' /\ InboxInv' /\ CipherInv' /\ RefusedInv' /\ Enc' = Enc
  BY <1>1, Acting
<1>3. encoded'[Client] = encoded[Client]
  BY Peers DEF Acts, Sent, LoginInv, TypeOK
<1>4. compress'[Client] = compress[Client] /\ cipher'[Client] = cipher[Client]
  BY <1>1 DEF Acts
<1>5. ClientInv'
  BY <1>2, <1>3, <1>4 DEF ClientInv, LoginInv
<1>6. SpawnInv'
  BY DEF SpawnInv, LoginInv, Acts, Accepted
<1>7. QED
  BY <1>2, <1>5, <1>6 DEF LoginInv

\* The cipher of a side that sends, and that of the other.
LEMMA Ciphering ==
    ASSUME NEW p \in Peer, NEW k \in Nat, cipher \in [Peer -> Cipher],
           cipher' = [cipher EXCEPT ![p] = Used(@, k)]
    PROVE  /\ cipher' \in [Peer -> Cipher] /\ cipher'[Other(p)] = cipher[Other(p)]
           /\ cipher'[p] \in Cipher /\ (cipher'[p].on <=> cipher[p].on)
           /\ cipher[p].on => cipher'[p].sent = cipher[p].sent + k
           /\ cipher'[p].read = cipher[p].read /\ (cipher'[p].aligned <=> cipher[p].aligned)
<1>1. cipher'[p] = Used(cipher[p], k) /\ cipher'[Other(p)] = cipher[Other(p)]
  BY Peers
<1>2. cipher[p] \in Cipher
  OBVIOUS
<1>3. Used(cipher[p], k) \in Cipher
  BY <1>2, UsedIs
<1>4. cipher' \in [Peer -> Cipher]
  BY <1>3
<1>5. QED
  BY <1>1, <1>2, <1>4, UsedIs

\* Batches that p may send as it is: compressed and encrypted as the other end expects them,
\* each packet where the login has it.
Suits(p, lists) ==
    /\ \A i \in 1..Len(lists) : (compress[p] <=> encoded[p] + i > 1)
    /\ Enc /\ ~cipher[p].on => encoded[p] + Len(lists) <= 2
    /\ \A i \in 1..Len(lists) : \A j \in 1..Len(lists[i]) :
          Place(Mode, Accepted', Other(p), lists[i][j], encoded[p] + i)

\* What a side does that sends with the cipher it has, and turns nothing on.
LEMMA Sending ==
    ASSUME LoginInv, NEW p \in Peer, NEW lists \in Seq(Seq(Packet)), Send(p, lists, cipher[p]),
           cipher' = [cipher EXCEPT ![p] = Used(@, Len(lists))],
           UNCHANGED <<format, dtls, decoded, refused, damaged, compress>>, Takes(p),
           pc' \in [Peer -> Step], closed' \in [Peer -> BOOLEAN], radiusSent' \in BOOLEAN,
           appSent' \in 0..AppBound, skipped' \in [Peer -> SUBSET Packet],
           Accepted => Accepted', pc[Server] = "failed" => p = Client /\ pc'[Server] = "failed",
           Suits(p, lists)
    PROVE  /\ Acts(p, Len(lists))
           /\ encoded'[p] = encoded[p] + Len(lists) /\ encoded'[Other(p)] = encoded[Other(p)]
           /\ (cipher'[p].on <=> cipher[p].on) /\ cipher'[Other(p)] = cipher[Other(p)]
<1>1. TypeOK /\ encoded[p] \in Nat /\ cipher[p] \in Cipher /\ Len(lists) \in Nat
  BY Numbers
<1>2. Sent(p, Len(lists))
  <2>1. cipher[p].on => Enc /\ encoded[p] >= 2 /\ cipher[p].sent = encoded[p] - 2
    BY CipherStands
  <2>2. QED
    BY <1>1, <2>1, SendIsSent DEF Suits
<1>3. /\ cipher \in [Peer -> Cipher] /\ encoded \in [Peer -> Nat]
      /\ Other(p) \in Peer /\ Other(p) # p /\ p \in Peer
  BY <1>1, Peers DEF TypeOK, Cipher
<1>4. /\ cipher' \in [Peer -> Cipher] /\ cipher'[Other(p)] = cipher[Other(p)]
      /\ cipher'[p] \in Cipher /\ (cipher'[p].on <=> cipher[p].on)
      /\ cipher[p].on => cipher'[p].sent = cipher[p].sent + Len(lists)
      /\ cipher'[p].read = cipher[p].read /\ (cipher'[p].aligned <=> cipher[p].aligned)
  BY <1>1, <1>3, Ciphering
<1>5. Types'
  BY <1>1, <1>4 DEF Types, TypeOK
<1>6. encoded'[p] = encoded[p] + Len(lists) /\ encoded'[Other(p)] = encoded[Other(p)]
  BY <1>2, <1>3 DEF Sent
<1>7. CipherOk(cipher'[p], encoded'[p], Arrived(p), refused[p])
  <2>1. CipherOk(cipher[p], encoded[p], Arrived(p), refused[p])
    BY DEF LoginInv, CipherInv
  <2>2. QED
    BY <1>1, <1>4, <1>6, <2>1 DEF CipherOk, Cipher
<1>8. /\ pc[Server] = "failed" => pc'[Server] = "failed" /\ encoded'[Server] = encoded[Server]
      /\ cipher[Client].on => cipher'[Client].on
  BY <1>4, <1>6, Peers
<1>9. compress'[p] => Arrived(p) >= 1
  BY CipherStands
<1>10. QED
  BY <1>2, <1>4, <1>5, <1>6, <1>7, <1>8, <1>9 DEF Acts

\* What an answer does.
LEMMA Answering ==
    ASSUME LoginInv, NEW p \in Peer, NEW from \in Step \ {"accepted", "failed"}, NEW kind,
           NEW to \in Step, NEW lists \in Seq(Seq(Packet)), Answer(p, from, kind, lists, to),
           Suits(p, lists)
    PROVE  /\ Acts(p, Len(lists))
           /\ encoded'[p] = encoded[p] + Len(lists) /\ encoded'[Other(p)] = encoded[Other(p)]
           /\ (cipher'[p].on <=> cipher[p].on) /\ cipher'[Other(p)] = cipher[Other(p)]
           /\ compress' = compress /\ closed' = closed
           /\ pc'[p] = to /\ pc'[Other(p)] = pc[Other(p)]
<1>1. TypeOK
  BY DEF LoginInv
<1>2. /\ pc[p] = from /\ inbox[p] # <<>> /\ inbox' = [inbox EXCEPT ![p] = Tail(@)]
      /\ Send(p, lists, cipher[p])
      /\ cipher' = [cipher EXCEPT ![p] = Used(@, Len(lists))]
      /\ pc' = [pc EXCEPT ![p] = to]
      /\ UNCHANGED <<format, dtls, closed, decoded, refused, damaged>>
      /\ UNCHANGED <<compress, radiusSent, appSent, skipped>>
  BY DEF Answer, Reads, Taking, Goes
<1>3. /\ pc \in [Peer -> Step] /\ pc' \in [Peer -> Step] /\ pc'[p] = to
      /\ pc'[Other(p)] = pc[Other(p)]
  BY <1>1, <1>2, Peers DEF TypeOK
<1>4. /\ Accepted => Accepted'
      /\ pc[Server] = "failed" => p = Client /\ pc'[Server] = "failed"
  BY <1>2, <1>3, Peers DEF Accepted
<1>5. Takes(p)
  BY <1>2 DEF Takes
<1>6. /\ closed' \in [Peer -> BOOLEAN] /\ radiusSent' \in BOOLEAN
      /\ appSent' \in 0..AppBound /\ skipped' \in [Peer -> SUBSET Packet]
  BY <1>1, <1>2 DEF TypeOK
<1>7. /\ Acts(p, Len(lists))
      /\ encoded'[p] = encoded[p] + Len(lists) /\ encoded'[Other(p)] = encoded[Other(p)]
      /\ (cipher'[p].on <=> cipher[p].on) /\ cipher'[Other(p)] = cipher[Other(p)]
  BY <1>2, <1>3, <1>4, <1>5, <1>6, Sending
<1>8. QED
  BY <1>2, <1>3, <1>7

\* An answer of the client.
LEMMA ClientAnswers ==
    ASSUME LoginInv, NEW from \in {"answer", "status", "packsInfo", "packStack"}, NEW kind,
           NEW to \in {"packsInfo", "packStack", "spawn"}, NEW lists \in Seq(Seq(Packet)),
           Answer(Client, from, kind, lists, to),
           from = "answer" => ~Enc /\ Len(lists) >= 1,
           \A i \in 1..Len(lists) : \A j \in 1..Len(lists[i]) :
              lists[i][j] \notin {"Login", "ClientToServerHandshake"}
    PROVE  LoginInv'
<1>1. /\ Client \in Peer /\ Other(Client) = Server /\ Server # Client
      /\ encoded[Client] \in Nat /\ Len(lists) \in Nat /\ cipher[Client] \in Cipher
      /\ compress[Client] \in BOOLEAN /\ ClientInv
  BY Numbers, Peers DEF LoginInv
<1>2. pc[Client] = from
  BY DEF Answer
<1>3. /\ encoded[Client] >= 2 /\ compress[Client]
      /\ from # "answer" => encoded[Client] >= 3
      /\ cipher[Client].on <=> Enc /\ encoded[Client] >= 3
  BY <1>1, <1>2 DEF ClientInv, ClientStep
<1>4. /\ \A i \in 1..Len(lists) : (compress[Client] <=> encoded[Client] + i > 1)
      /\ Enc => cipher[Client].on
  BY <1>1, <1>3
<1>5. \A i \in 1..Len(lists) : \A j \in 1..Len(lists[i]) :
         Place(Mode, Accepted', Server, lists[i][j], encoded[Client] + i)
  BY <1>1 DEF Place
<1>6. from \in Step \ {"accepted", "failed"} /\ to \in Step
  BY DEF Step
<1>7. /\ Acts(Client, Len(lists)) /\ encoded'[Client] = encoded[Client] + Len(lists)
      /\ (cipher'[Client].on <=> cipher[Client].on) /\ compress' = compress /\ closed' = closed
      /\ pc'[Client] = to /\ pc'[Server] = pc[Server]
  <2>1. Suits(Client, lists)
    BY <1>1, <1>4, <1>5 DEF Suits
  <2>2. QED
    BY <1>1, <1>6, <2>1, Answering
<1>8. Enc' = Enc
  BY <1>7, ModeStays DEF Acts
<1>9. ClientInv'
  <2>1. encoded'[Client] >= 3
    BY <1>1, <1>3, <1>7
  <2>2. QED
    BY <1>1, <1>3, <1>4, <1>7, <1>8, <2>1 DEF ClientInv, ClientStep
<1>10. QED
  BY <1>1, <1>7, <1>9, ClientActs

-----------------------------------------------------------------------------
(* The steps of the client.                                                *)

\* NetworkSettings: Login is the second batch of the client, and the first compressed one.
LEMMA ReadSettingsKeeps ==
    ASSUME LoginInv, ReadSettings
    PROVE  LoginInv'
<1> DEFINE login == [n |-> encoded[Client] + 1, packets |-> <<"Login">>, compressed |-> TRUE,
                     key |-> 0]
<1> HIDE DEF login
<1>1. /\ TypeOK /\ ClientInv /\ Client \in Peer /\ Server \in Peer /\ Other(Client) = Server
      /\ Server # Client /\ cipher[Client] \in Cipher
  BY Numbers, Peers DEF LoginInv
<1>2. /\ pc[Client] = "settings" /\ inbox[Client] # <<>>
      /\ inbox' = [inbox EXCEPT ![Client] = Tail(@)]
      /\ compress' = [compress EXCEPT ![Client] = TRUE]
      /\ wire' = [wire EXCEPT ![Server] = Append(@, login)]
      /\ encoded' = [encoded EXCEPT ![Client] = @ + 1]
      /\ pc' = [pc EXCEPT ![Client] = "answer"]
      /\ UNCHANGED <<format, dtls, closed, decoded, refused, damaged>>
      /\ UNCHANGED <<cipher, radiusSent, appSent, skipped>>
  BY DEF ReadSettings, Reads, Taking, Goes, login
<1>3. encoded[Client] = 1 /\ ~cipher[Client].on
  BY <1>1, <1>2 DEF ClientInv
<1>4. /\ wire \in [Peer -> Seq(Batch)] /\ encoded \in [Peer -> Nat] /\ pc \in [Peer -> Step]
      /\ compress \in [Peer -> BOOLEAN] /\ cipher \in [Peer -> Cipher]
  BY <1>1 DEF TypeOK, Cipher
<1>5. login \in Batch
  BY <1>3 DEF login, Batch, Packet
<1>6. Sent(Client, 1)
  <2>1. /\ wire[Server] \in Seq(Batch) /\ wire'[Server] = Append(wire[Server], login)
        /\ wire'[Client] = wire[Client]
    BY <1>1, <1>2, <1>4
  <2>2. /\ wire'[Server] \in Seq(Batch) /\ Len(wire[Server]) \in Nat
        /\ Len(wire'[Server]) = Len(wire[Server]) + 1
        /\ \A i \in 1..Len(wire[Server]) : wire'[Server][i] = wire[Server][i]
        /\ wire'[Server][Len(wire[Server]) + 1] = login
    BY <1>5, <2>1
  <2>3. wire' \in [Peer -> Seq(Batch)]
    BY <1>2, <1>4, <2>1, <2>2
  <2>4. Good(Mode, Accepted', Server, login, 2)
    <3>1. /\ login.n = 2 /\ login.compressed /\ login.key = 0 /\ login.packets = <<"Login">>
      BY <1>3 DEF login
    <3>2. Key(Mode, 2) = 0
      BY DEF Key
    <3>3. \A j \in 1..Len(login.packets) : login.packets[j] = "Login"
      BY <3>1
    <3>4. Place(Mode, Accepted', Server, "Login", 2)
      BY <1>1 DEF Place, PlayStatus
    <3>5. QED
      BY <3>1, <3>2, <3>3, <3>4 DEF Good
  <2>5. \A i \in 1..1 : i = 1
    OBVIOUS
  <2>6. encoded[Client] + 1 = 2
    BY <1>3
  <2>7. \A i \in 1..1 : Good(Mode, Accepted', Server, wire'[Server][Len(wire[Server]) + i],
                              encoded[Client] + i)
    BY <2>2, <2>4, <2>5, <2>6
  <2>8. QED
    BY <1>1, <1>2, <2>1, <2>2, <2>3, <2>7 DEF Sent
<1>7. /\ compress'[Client] /\ compress'[Server] = compress[Server]
      /\ compress' \in [Peer -> BOOLEAN]
      /\ pc'[Client] = "answer" /\ pc'[Server] = pc[Server] /\ pc' \in [Peer -> Step]
      /\ encoded'[Client] = 2 /\ encoded'[Server] = encoded[Server]
  BY <1>1, <1>2, <1>3, <1>4 DEF Step
<1>8. Types'
  BY <1>1, <1>2, <1>4, <1>7 DEF Types, TypeOK
<1>9. Arrived(Client) >= 1
  BY <1>1, <1>2, HeadPlaced
<1>10. Acts(Client, 1)
  BY <1>1, <1>2, <1>3, <1>6, <1>7, <1>8, <1>9 DEF Acts, Takes, Accepted, CipherOk
<1>11. Enc' = Enc
  BY <1>2, ModeStays
<1>12. ClientInv'
  BY <1>2, <1>3, <1>7, <1>11 DEF ClientInv, ClientStep
<1>13. closed'[Server] = closed[Server]
  BY <1>2
<1>14. QED
  BY <1>7, <1>10, <1>12, <1>13, ClientActs

\* ServerToClientHandshake: the answer is the third batch of the client, and the first
\* encrypted one; what the server sends from its third batch on is encrypted too.
LEMMA ReadHandshakeKeeps ==
    ASSUME LoginInv, ReadHandshake
    PROVE  LoginInv'
<1> DEFINE answer == <<<<"ClientToServerHandshake">>>>
           c == Enabled(cipher[Client])
<1>1. /\ TypeOK /\ ClientInv /\ Client \in Peer /\ Server \in Peer /\ Other(Client) = Server
      /\ Server # Client /\ cipher[Client] \in Cipher /\ Arrived(Client) \in Nat
      /\ compress[Client] \in BOOLEAN
  BY Numbers, Peers DEF LoginInv
<1>2. /\ pc[Client] = "answer" /\ inbox[Client] # <<>>
      /\ Head(inbox[Client]) = "ServerToClientHandshake"
      /\ inbox' = [inbox EXCEPT ![Client] = Tail(@)]
      /\ Send(Client, answer, c)
      /\ cipher' = [cipher EXCEPT ![Client] = Used(Enabled(@), 1)]
      /\ pc' = [pc EXCEPT ![Client] = "status"]
      /\ UNCHANGED <<format, dtls, closed, decoded, refused, damaged>>
      /\ UNCHANGED <<compress, radiusSent, appSent, skipped>>
  BY DEF ReadHandshake, Reads, Taking, Goes
<1>3. encoded[Client] = 2 /\ compress[Client] /\ ~cipher[Client].on
  BY <1>1, <1>2 DEF ClientInv
<1>4. Mode # "plain" /\ Arrived(Client) >= 2
  BY <1>1, <1>2, HeadPlaced DEF Place
<1>5. Enc <=> ~dtls
  BY <1>4 DEF Enc, Mode
<1>6. /\ c \in Cipher /\ (c.on <=> Enc)
      /\ c.on => c.sent = 0 /\ c.read = 0 /\ c.aligned
  BY <1>1, <1>3, <1>5 DEF Enabled, Fresh, Plain, Cipher
<1> HIDE DEF c
<1>7. /\ answer \in Seq(Seq(Packet)) /\ Len(answer) = 1
      /\ \A i \in 1..Len(answer) : \A j \in 1..Len(answer[i]) :
            i = 1 /\ answer[i][j] = "ClientToServerHandshake"
      /\ \A i \in 1..Len(answer) : i >= 1
  <2>1. "ClientToServerHandshake" \in Packet
    BY DEF Packet
  <2>2. QED
    BY <2>1, OneBatch
<1> HIDE DEF answer
<1>8. Sent(Client, 1)
  <2>1. \A i \in 1..Len(answer) : (compress[Client] <=> encoded[Client] + i > 1)
    BY <1>3, <1>7
  <2>2. c.on => Enc /\ encoded[Client] >= 2 /\ c.sent = encoded[Client] - 2
    BY <1>3, <1>6
  <2>3. Enc /\ ~c.on => encoded[Client] + Len(answer) <= 2
    BY <1>6
  <2>4. Place(Mode, Accepted', Server, "ClientToServerHandshake", 3)
    BY <1>1 DEF Place, PlayStatus
  <2>5. \A i \in 1..Len(answer) : \A j \in 1..Len(answer[i]) :
           Place(Mode, Accepted', Server, answer[i][j], encoded[Client] + i)
    BY <1>3, <1>7, <2>4
  <2>6. QED
    BY <1>1, <1>2, <1>6, <1>7, <2>1, <2>2, <2>3, <2>5, SendIsSent
<1>9. /\ cipher' \in [Peer -> Cipher] /\ cipher'[Server] = cipher[Server]
      /\ cipher'[Client].on <=> Enc
      /\ Enc => cipher'[Client].sent = 1 /\ cipher'[Client].read = 0 /\ cipher'[Client].aligned
  <2>1. /\ cipher \in [Peer -> Cipher]
        /\ cipher'[Client] = Used(c, 1) /\ cipher'[Server] = cipher[Server]
    BY <1>1, <1>2 DEF TypeOK, Cipher, c
  <2>2. /\ Used(c, 1) \in Cipher /\ (Used(c, 1).on <=> Enc)
        /\ Enc => Used(c, 1).sent = 1 /\ Used(c, 1).read = 0 /\ Used(c, 1).aligned
    <3>1. /\ Used(c, 1) \in Cipher /\ (Used(c, 1).on <=> c.on)
          /\ c.on => Used(c, 1).sent = c.sent + 1
          /\ Used(c, 1).read = c.read /\ (Used(c, 1).aligned <=> c.aligned)
      BY <1>6, UsedIs
    <3>2. QED
      BY <1>6, <3>1
  <2>3. cipher' \in [Peer -> Cipher]
    BY <1>2, <2>1, <2>2
  <2>4. QED
    BY <2>1, <2>2, <2>3
<1>10. /\ pc'[Client] = "status" /\ pc'[Server] = pc[Server] /\ pc' \in [Peer -> Step]
       /\ encoded'[Client] = 3
  BY <1>1, <1>2, <1>3, <1>8 DEF TypeOK, Step, Sent
<1>11. Types'
  BY <1>1, <1>2, <1>9, <1>10 DEF Types, TypeOK
<1>12. CipherOk(cipher'[Client], encoded'[Client], Arrived(Client), refused[Client])
  <2>1. Enc /\ refused[Client] = {} => Arrived(Client) = 2
    BY <1>1, <1>3, <1>4 DEF LoginInv, RefusedInv
  <2>2. QED
    BY <1>4, <1>9, <1>10, <2>1 DEF CipherOk
<1>13. Acts(Client, 1)
  <2>1. pc[Server] = "failed" => pc'[Server] = "failed" /\ encoded'[Server] = encoded[Server]
    BY <1>1, <1>8, <1>10 DEF Sent, TypeOK
  <2>2. Takes(Client) /\ compress' = compress /\ (compress'[Client] => Arrived(Client) >= 1)
    BY <1>2, <1>4, <1>1 DEF Takes
  <2>3. Accepted => Accepted'
    BY <1>10 DEF Accepted
  <2>4. QED
    BY <1>1, <1>2, <1>3, <1>8, <1>9, <1>11, <1>12, <2>1, <2>2, <2>3 DEF Acts
<1>14. ClientInv'
  <2>1. Enc' = Enc
    BY <1>2, ModeStays
  <2>2. QED
    BY <1>2, <1>3, <1>9, <1>10, <2>1 DEF ClientInv, ClientStep
<1>15. closed'[Server] = closed[Server]
  BY <1>2
<1>16. QED
  BY <1>10, <1>13, <1>14, <1>15, ClientActs

\* The status of the login is read with the cipher that the server wrote it with.
LEMMA ReadStatusKeeps ==
    ASSUME LoginInv, ReadStatus
    PROVE  LoginInv'
<1> DEFINE answer == <<<<"ClientCacheStatus">>>>
<1>1. PICK from \in {"answer", "status"}, kind \in PlayStatus :
         Answer(Client, from, kind, answer, "packsInfo")
  BY DEF ReadStatus
<1>2. /\ answer \in Seq(Seq(Packet)) /\ Len(answer) = 1
      /\ \A i \in 1..Len(answer) : \A j \in 1..Len(answer[i]) :
            answer[i][j] \notin {"Login", "ClientToServerHandshake"}
  <2>1. "ClientCacheStatus" \in Packet
    BY DEF Packet
  <2>2. QED
    BY <2>1, OneBatch
<1> HIDE DEF answer
<1>3. from = "answer" => ~Enc
  <2>1. pc[Client] = from /\ inbox[Client] # <<>> /\ Head(inbox[Client]) \in PlayStatus
    BY <1>1 DEF Answer, Reads
  <2>2. Enc => cipher[Client].on
    BY <2>1, HeadPlaced, Peers
  <2>3. from = "answer" => ~cipher[Client].on
    BY <2>1 DEF LoginInv, ClientInv
  <2>4. QED
    BY <2>2, <2>3
<1>4. from = "answer" => ~Enc /\ Len(answer) >= 1
  BY <1>2, <1>3
<1>5. "packsInfo" \in {"packsInfo", "packStack", "spawn"}
  OBVIOUS
<1>6. QED
  BY <1>1, <1>2, <1>4, <1>5, ClientAnswers

\* The resource packs.
LEMMA ReadPacksKeeps ==
    ASSUME LoginInv, ReadPacks
    PROVE  LoginInv'
<1> DEFINE one == <<<<"ResourcePackClientResponse">>>>
           two == <<<<"ResourcePackClientResponse">>, <<"ResourcePacksReadyForValidation">>>>
<1>1. /\ one \in Seq(Seq(Packet))
      /\ \A i \in 1..Len(one) : \A j \in 1..Len(one[i]) :
            one[i][j] \notin {"Login", "ClientToServerHandshake"}
  <2>1. "ResourcePackClientResponse" \in Packet
    BY DEF Packet
  <2>2. QED
    BY <2>1, OneBatch
<1>2. /\ two \in Seq(Seq(Packet))
      /\ \A i \in 1..Len(two) : \A j \in 1..Len(two[i]) :
            two[i][j] \notin {"Login", "ClientToServerHandshake"}
  BY DEF Packet
<1>3. CASE Answer(Client, "packsInfo", "ResourcePacksInfo", one, "packStack")
  <2> HIDE DEF one
  <2>1. QED
    BY <1>1, <1>3, ClientAnswers
<1>4. CASE Answer(Client, "packStack", "ResourcePackStack", two, "spawn")
  <2> HIDE DEF two
  <2>1. QED
    BY <1>2, <1>4, ClientAnswers
<1>5. QED
  BY <1>3, <1>4 DEF ReadPacks

\* PlayerSpawn ends the handshake; what the application sent before it is read past.
LEMMA WaitForSpawnKeeps ==
    ASSUME LoginInv, WaitForSpawn
    PROVE  LoginInv'
<1> DEFINE kind == Head(inbox[Client])
           answer == <<<<"RequestChunkRadius">>>>
           to == IF kind = "PlayerSpawn" THEN "done" ELSE "spawn"
<1>1. /\ TypeOK /\ ClientInv /\ Client \in Peer /\ Server \in Peer /\ Other(Client) = Server
      /\ Server # Client /\ encoded[Client] \in Nat
  BY Numbers, Peers DEF LoginInv
<1>2. /\ pc[Client] = "spawn" /\ inbox[Client] # <<>>
      /\ inbox' = [inbox EXCEPT ![Client] = Tail(@)]
      /\ pc' = [pc EXCEPT ![Client] = to]
      /\ UNCHANGED <<format, dtls, closed, decoded, refused, damaged>>
      /\ UNCHANGED <<compress, appSent, skipped>>
      /\ \/ UNCHANGED <<radiusSent, wire, encoded, cipher>>
         \/ /\ radiusSent' = TRUE
            /\ Send(Client, answer, cipher[Client])
            /\ cipher' = [cipher EXCEPT ![Client] = Used(@, 1)]
  BY DEF WaitForSpawn, Taking, Goes
<1>3. /\ encoded[Client] >= 3 /\ compress[Client] /\ (cipher[Client].on <=> Enc)
  BY <1>1, <1>2 DEF ClientInv, ClientStep
<1>4. kind = "PlayerSpawn" => pc[Server] = "accepted"
  BY <1>1, <1>2, HeadPlaced DEF Place, Accepted
<1>5. /\ pc' \in [Peer -> Step] /\ pc'[Client] \in {"spawn", "done"} /\ pc'[Server] = pc[Server]
      /\ pc'[Client] = "done" => kind = "PlayerSpawn"
  BY <1>1, <1>2 DEF TypeOK, Step
<1>6. /\ Takes(Client) /\ Enc' = Enc /\ (Accepted => Accepted')
      /\ pc[Server] = "failed" => pc'[Server] = "failed"
  BY <1>2, <1>5, ModeStays DEF Takes, Accepted
<1>7. CASE UNCHANGED <<radiusSent, wire, encoded, cipher>>
  <2>1. Sent(Client, 0)
    BY <1>1, <1>7, NothingSent
  <2>2. Types'
    BY <1>1, <1>2, <1>5, <1>7 DEF Types, TypeOK, Cipher
  <2>3. /\ compress'[Client] => Arrived(Client) >= 1
        /\ CipherOk(cipher'[Client], encoded'[Client], Arrived(Client), refused[Client])
    BY <1>1, <1>2, <1>7, CipherStands DEF LoginInv, CipherInv
  <2>4. Acts(Client, 0)
    BY <1>2, <1>6, <1>7, <2>1, <2>2, <2>3 DEF Acts
  <2>5. ClientInv'
    BY <1>1, <1>2, <1>3, <1>5, <1>6, <1>7 DEF ClientInv, ClientStep
  <2>6. QED
    BY <1>2, <1>4, <1>5, <2>4, <2>5, ClientActs
<1>8. CASE /\ radiusSent' = TRUE
           /\ Send(Client, answer, cipher[Client])
           /\ cipher' = [cipher EXCEPT ![Client] = Used(@, 1)]
  <2>1. /\ answer \in Seq(Seq(Packet)) /\ Len(answer) = 1
        /\ \A i \in 1..Len(answer) : \A j \in 1..Len(answer[i]) :
              answer[i][j] \notin {"Login", "ClientToServerHandshake"}
        /\ \A i \in 1..Len(answer) : i \in Nat /\ i >= 1
    <3>1. "RequestChunkRadius" \in Packet
      BY DEF Packet
    <3>2. QED
      BY <3>1, OneBatch
  <2> HIDE DEF answer
  <2>2. /\ \A i \in 1..Len(answer) : (compress[Client] <=> encoded[Client] + i > 1)
        /\ Enc /\ ~cipher[Client].on => encoded[Client] + Len(answer) <= 2
    BY <1>1, <1>3, <2>1
  <2>3. \A i \in 1..Len(answer) : \A j \in 1..Len(answer[i]) :
           Place(Mode, Accepted', Server, answer[i][j], encoded[Client] + i)
    BY <1>1, <2>1 DEF Place
  <2>4. /\ closed' \in [Peer -> BOOLEAN] /\ radiusSent' \in BOOLEAN
        /\ appSent' \in 0..AppBound /\ skipped' \in [Peer -> SUBSET Packet]
    BY <1>1, <1>2, <1>8 DEF TypeOK
  <2>5. /\ UNCHANGED <<format, dtls, decoded, refused, damaged, compress>>
        /\ cipher' = [cipher EXCEPT ![Client] = Used(@, Len(answer))]
        /\ Send(Client, answer, cipher[Client])
    BY <1>2, <1>8, <2>1
  <2>6. /\ Acts(Client, 1) /\ encoded'[Client] = encoded[Client] + 1
        /\ (cipher'[Client].on <=> cipher[Client].on)
    <3>1. /\ Acts(Client, Len(answer)) /\ encoded'[Client] = encoded[Client] + Len(answer)
          /\ (cipher'[Client].on <=> cipher[Client].on)
      <4>1. Suits(Client, answer)
        BY <1>1, <2>2, <2>3 DEF Suits
      <4>2. QED
        BY <1>1, <1>5, <1>6, <2>1, <2>4, <2>5, <4>1, Sending
    <3>2. QED
      BY <2>1, <3>1
  <2>7. ClientInv'
    BY <1>1, <1>2, <1>3, <1>5, <1>6, <2>6 DEF ClientInv, ClientStep
  <2>8. QED
    BY <1>2, <1>4, <1>5, <2>6, <2>7, ClientActs
<1>9. QED
  BY <1>2, <1>7, <1>8

-----------------------------------------------------------------------------
(* The steps of the server.                                                *)

\* An answer of the server: it has read, with Login or ClientToServerHandshake, that the
\* client has turned on what the answer needs.
LEMMA ServerAnswers ==
    ASSUME LoginInv, NEW from \in {"login", "ack", "response", "completed", "ready"}, NEW kind,
           NEW to \in {"response", "completed", "ready", "queued"},
           NEW lists \in Seq(Seq(Packet)), Answer(Server, from, kind, lists, to),
           from = "login" => kind = "Login" /\ ~Enc /\ Len(lists) >= 1,
           from = "ack" => kind = "ClientToServerHandshake" /\ Len(lists) >= 1,
           \A i \in 1..Len(lists) : \A j \in 1..Len(lists[i]) :
              lists[i][j] \notin {"ServerToClientHandshake", "PlayerSpawn"}
    PROVE  LoginInv'
<1>1. /\ Client \in Peer /\ Server \in Peer /\ Other(Server) = Client /\ Server # Client
      /\ Other(Client) = Server
      /\ encoded[Server] \in Nat /\ encoded[Client] \in Nat /\ Len(lists) \in Nat
      /\ Arrived(Server) \in Nat /\ Arrived(Server) <= encoded[Client]
      /\ compress[Server] \in BOOLEAN /\ ServerInv /\ CrossInv
  BY Numbers, Peers DEF LoginInv
<1>2. pc[Server] = from /\ inbox[Server] # <<>> /\ Head(inbox[Server]) = kind
  BY DEF Answer, Reads
<1>3. /\ encoded[Server] >= 1 /\ compress[Server]
      /\ from # "login" => encoded[Server] >= 2 /\ (cipher[Server].on <=> Enc)
      /\ Enc /\ from \notin {"login", "ack"} => encoded[Server] >= 3
  BY <1>1, <1>2 DEF ServerInv, ServerStep
<1>4. /\ from = "login" => Arrived(Server) >= 2
      /\ from = "ack" => Arrived(Server) >= 3
  BY <1>1, <1>2, HeadPlaced DEF Place
<1>5. encoded[Client] >= 2 /\ (Enc => encoded[Client] >= 3)
  BY <1>1, <1>2, <1>3, <1>4 DEF CrossInv
<1>6. /\ \A i \in 1..Len(lists) : (compress[Server] <=> encoded[Server] + i > 1)
      /\ Enc /\ ~cipher[Server].on => encoded[Server] + Len(lists) <= 2
  BY <1>1, <1>3
<1>7. \A i \in 1..Len(lists) : \A j \in 1..Len(lists[i]) :
         Place(Mode, Accepted', Client, lists[i][j], encoded[Server] + i)
  <2>1. \A i \in 1..Len(lists) : Enc => encoded[Server] + i >= 3
    BY <1>1, <1>3
  <2>2. QED
    BY <1>1, <2>1 DEF Place, Enc
<1>8. from \in Step \ {"accepted", "failed"} /\ to \in Step
  BY DEF Step
<1>9. /\ Acts(Server, Len(lists)) /\ encoded'[Server] = encoded[Server] + Len(lists)
      /\ encoded'[Client] = encoded[Client]
      /\ (cipher'[Server].on <=> cipher[Server].on) /\ compress' = compress /\ closed' = closed
      /\ pc'[Server] = to /\ pc'[Client] = pc[Client]
  <2>1. Suits(Server, lists)
    BY <1>1, <1>6, <1>7 DEF Suits
  <2>2. QED
    BY <1>1, <1>8, <2>1, Answering
<1>10. Enc' = Enc
  BY <1>9, ModeStays DEF Acts
<1>11. /\ encoded'[Server] >= 2 /\ (Enc => encoded'[Server] >= 3)
       /\ (cipher[Server].on <=> Enc)
  BY <1>1, <1>3, <1>9, CipherStands
<1>12. ServerInv'
  BY <1>3, <1>9, <1>10, <1>11 DEF ServerInv, ServerStep
<1>13. CrossInv'
  BY <1>1, <1>5, <1>9, <1>10 DEF CrossInv
<1>14. QED
  BY <1>1, <1>9, <1>12, <1>13, ServerActs

\* The answers that let the client go on.
LEMMA ReadAnswersKeeps ==
    ASSUME LoginInv, ReadAnswers
    PROVE  LoginInv'
<1> DEFINE stack == <<<<"ResourcePackStack">>>>
           none == <<>>
<1>1. /\ Welcome \in Seq(Seq(Packet)) /\ Len(Welcome) = 1
      /\ \A i \in 1..Len(Welcome) : \A j \in 1..Len(Welcome[i]) :
            Welcome[i][j] \notin {"ServerToClientHandshake", "PlayerSpawn"}
  BY DEF Packet, PlayStatus, Welcome
<1>2. /\ stack \in Seq(Seq(Packet))
      /\ \A i \in 1..Len(stack) : \A j \in 1..Len(stack[i]) :
            stack[i][j] \notin {"ServerToClientHandshake", "PlayerSpawn"}
  <2>1. "ResourcePackStack" \in Packet
    BY DEF Packet
  <2>2. QED
    BY <2>1, OneBatch
<1>3. /\ none \in Seq(Seq(Packet))
      /\ \A i \in 1..Len(none) : \A j \in 1..Len(none[i]) :
            none[i][j] \notin {"ServerToClientHandshake", "PlayerSpawn"}
  OBVIOUS
<1> HIDE DEF stack, none
<1>4. CASE Answer(Server, "ack", "ClientToServerHandshake", Welcome, "response")
  <2>1. "ack" = "ack" => "ClientToServerHandshake" = "ClientToServerHandshake" /\ Len(Welcome) >= 1
    BY <1>1
  <2>2. QED
    BY <1>1, <1>4, <2>1, ServerAnswers
<1>5. CASE Answer(Server, "response", "ResourcePackClientResponse", stack, "completed")
  BY <1>2, <1>5, ServerAnswers
<1>6. CASE Answer(Server, "completed", "ResourcePackClientResponse", none, "ready")
  BY <1>3, <1>6, ServerAnswers
<1>7. CASE Answer(Server, "ready", "ResourcePacksReadyForValidation", none, "queued")
  BY <1>3, <1>7, ServerAnswers
<1>8. QED
  BY <1>4, <1>5, <1>6, <1>7 DEF ReadAnswers, stack, none

\* RequestNetworkSettings: the first batch of the server is not compressed yet.
LEMMA ReadRequestKeeps ==
    ASSUME LoginInv, ReadRequest
    PROVE  LoginInv'
<1> DEFINE answer == <<<<"NetworkSettings">>>>
<1>1. /\ TypeOK /\ ServerInv /\ CrossInv /\ Client \in Peer /\ Server \in Peer
      /\ Other(Server) = Client /\ Server # Client /\ cipher[Server] \in Cipher
      /\ encoded[Client] \in Nat /\ compress[Server] \in BOOLEAN
  BY Numbers, Peers DEF LoginInv
<1>2. /\ pc[Server] = "request" /\ inbox[Server] # <<>>
      /\ inbox' = [inbox EXCEPT ![Server] = Tail(@)]
      /\ Send(Server, answer, cipher[Server])
      /\ compress' = [compress EXCEPT ![Server] = TRUE]
      /\ pc' = [pc EXCEPT ![Server] = "login"]
      /\ UNCHANGED <<format, dtls, closed, decoded, refused, damaged>>
      /\ UNCHANGED <<cipher, radiusSent, appSent, skipped>>
  BY DEF ReadRequest, Reads, Taking, Goes
<1>3. encoded[Server] = 0 /\ ~compress[Server] /\ ~cipher[Server].on
  BY <1>1, <1>2 DEF ServerInv
<1>4. /\ answer \in Seq(Seq(Packet)) /\ Len(answer) = 1
      /\ \A i \in 1..Len(answer) : \A j \in 1..Len(answer[i]) :
            i = 1 /\ answer[i][j] = "NetworkSettings"
      /\ \A i \in 1..Len(answer) : i = 1
  <2>1. "NetworkSettings" \in Packet
    BY DEF Packet
  <2>2. QED
    BY <2>1, OneBatch
<1> HIDE DEF answer
<1>5. Sent(Server, 1)
  <2>1. \A i \in 1..Len(answer) : (compress[Server] <=> encoded[Server] + i > 1)
    BY <1>3, <1>4
  <2>2. Enc /\ ~cipher[Server].on => encoded[Server] + Len(answer) <= 2
    BY <1>3, <1>4
  <2>3. Place(Mode, Accepted', Client, "NetworkSettings", 1)
    BY <1>1 DEF Place, PlayStatus
  <2>4. \A i \in 1..Len(answer) : \A j \in 1..Len(answer[i]) :
           Place(Mode, Accepted', Client, answer[i][j], encoded[Server] + i)
    BY <1>3, <1>4, <2>3
  <2>5. QED
    BY <1>1, <1>2, <1>3, <1>4, <2>1, <2>2, <2>4, SendIsSent
<1>6. /\ compress'[Server] /\ compress'[Client] = compress[Client]
      /\ compress' \in [Peer -> BOOLEAN]
      /\ pc'[Server] = "login" /\ pc'[Client] = pc[Client] /\ pc' \in [Peer -> Step]
      /\ encoded'[Server] = 1 /\ encoded'[Client] = encoded[Client]
  <2>1. encoded' = [encoded EXCEPT ![Server] = @ + 1]
    BY <1>5 DEF Sent
  <2>2. /\ encoded \in [Peer -> Nat] /\ compress \in [Peer -> BOOLEAN] /\ pc \in [Peer -> Step]
        /\ "login" \in Step
    BY <1>1 DEF TypeOK, Step
  <2>3. encoded'[Server] = 1 /\ encoded'[Client] = encoded[Client]
    BY <1>1, <1>3, <2>1, <2>2
  <2>4. QED
    BY <1>1, <1>2, <2>2, <2>3
<1>7. Types'
  BY <1>1, <1>2, <1>6 DEF Types, TypeOK, Cipher
<1>8. Arrived(Server) >= 1
  BY <1>1, <1>2, HeadPlaced
<1>9. Acts(Server, 1)
  BY <1>1, <1>2, <1>3, <1>5, <1>6, <1>7, <1>8 DEF Acts, Takes, Accepted, CipherOk
<1>10. Enc' = Enc
  BY <1>2, ModeStays
<1>11. ServerInv' /\ CrossInv'
  BY <1>1, <1>2, <1>3, <1>6, <1>10 DEF ServerInv, ServerStep, CrossInv
<1>12. closed'[Client] = closed[Client]
  BY <1>2
<1>13. QED
  BY <1>6, <1>9, <1>11, <1>12, ServerActs

\* Login with a public key: ServerToClientHandshake is not encrypted, what follows it is.
LEMMA ReadLoginKeeps ==
    ASSUME LoginInv, ReadLogin
    PROVE  LoginInv'
<1> DEFINE answer == <<<<"ServerToClientHandshake">>>>
           c == Enabled(cipher[Server])
<1>1. /\ TypeOK /\ ServerInv /\ CrossInv /\ Client \in Peer /\ Server \in Peer
      /\ Other(Server) = Client /\ Other(Client) = Server /\ Server # Client
      /\ cipher[Server] \in Cipher /\ encoded[Server] \in Nat
      /\ encoded[Client] \in Nat /\ compress[Server] \in BOOLEAN
      /\ Arrived(Server) \in Nat /\ Arrived(Server) <= encoded[Client]
  BY Numbers, Peers DEF LoginInv
<1>2. CASE ~HasPublicKey /\ Answer(Server, "login", "Login", Welcome, "response")
  <2>1. ~Enc
    BY <1>2 DEF Enc, Mode
  <2>2. /\ Welcome \in Seq(Seq(Packet)) /\ Len(Welcome) >= 1
        /\ \A i \in 1..Len(Welcome) : \A j \in 1..Len(Welcome[i]) :
              Welcome[i][j] \notin {"ServerToClientHandshake", "PlayerSpawn"}
    BY DEF Packet, PlayStatus, Welcome
  <2>3. "login" = "login" => "Login" = "Login" /\ ~Enc /\ Len(Welcome) >= 1
    BY <2>1, <2>2
  <2>4. QED
    BY <1>2, <2>2, <2>3, ServerAnswers
<1>3. CASE /\ HasPublicKey
           /\ pc[Server] = "login" /\ inbox[Server] # <<>> /\ Head(inbox[Server]) = "Login"
           /\ inbox' = [inbox EXCEPT ![Server] = Tail(@)]
           /\ Send(Server, answer, cipher[Server])
           /\ cipher' = [cipher EXCEPT ![Server] = Enabled(@)]
           /\ pc' = [pc EXCEPT ![Server] = "ack"]
           /\ UNCHANGED <<format, dtls, closed, decoded, refused, damaged>>
           /\ UNCHANGED <<compress, radiusSent, appSent, skipped>>
  <2>1. encoded[Server] = 1 /\ compress[Server] /\ ~cipher[Server].on
    BY <1>1, <1>3 DEF ServerInv
  <2>2. Arrived(Server) >= 2 /\ encoded[Client] >= 2
    BY <1>1, <1>3, HeadPlaced DEF Place
  <2>3. Mode # "plain" /\ (Enc <=> ~dtls)
    BY <1>3 DEF Enc, Mode
  <2>4. /\ c \in Cipher /\ (c.on <=> Enc)
        /\ c.on => c.sent = 0 /\ c.read = 0 /\ c.aligned
    BY <1>1, <2>1, <2>3 DEF Enabled, Fresh, Plain, Cipher
  <2> HIDE DEF c
  <2>5. /\ answer \in Seq(Seq(Packet)) /\ Len(answer) = 1
        /\ \A i \in 1..Len(answer) : \A j \in 1..Len(answer[i]) :
              i = 1 /\ answer[i][j] = "ServerToClientHandshake"
        /\ \A i \in 1..Len(answer) : i = 1
    <3>1. "ServerToClientHandshake" \in Packet
      BY DEF Packet
    <3>2. QED
      BY <3>1, OneBatch
  <2> HIDE DEF answer
  <2>6. Sent(Server, 1)
    <3>1. \A i \in 1..Len(answer) : (compress[Server] <=> encoded[Server] + i > 1)
      BY <2>1, <2>5
    <3>2. Enc /\ ~cipher[Server].on => encoded[Server] + Len(answer) <= 2
      BY <2>1, <2>5
    <3>3. Place(Mode, Accepted', Client, "ServerToClientHandshake", 2)
      BY <1>1, <2>3 DEF Place, PlayStatus
    <3>4. \A i \in 1..Len(answer) : \A j \in 1..Len(answer[i]) :
             Place(Mode, Accepted', Client, answer[i][j], encoded[Server] + i)
      BY <2>1, <2>5, <3>3
    <3>5. QED
      BY <1>1, <1>3, <2>1, <2>5, <3>1, <3>2, <3>4, SendIsSent
  <2>7. /\ cipher' \in [Peer -> Cipher] /\ cipher'[Client] = cipher[Client]
        /\ cipher'[Server] = c
    BY <1>1, <1>3, <2>4 DEF TypeOK, Cipher, c
  <2>8. /\ pc'[Server] = "ack" /\ pc'[Client] = pc[Client] /\ pc' \in [Peer -> Step]
        /\ encoded'[Server] = 2 /\ encoded'[Client] = encoded[Client]
    BY <1>1, <1>3, <2>1, <2>6 DEF TypeOK, Step, Sent
  <2>9. Types'
    BY <1>1, <1>3, <2>7, <2>8 DEF Types, TypeOK
  <2>10. CipherOk(cipher'[Server], encoded'[Server], Arrived(Server), refused[Server])
    <3>1. Enc /\ refused[Server] = {} => Arrived(Server) = 2
      <4>1. Enc => encoded[Client] < 3
        <5>1. Enc /\ encoded[Client] >= 3 => Arrived(Client) >= 2 /\ Arrived(Client) <= encoded[Server]
          BY <1>1, CipherStands, Numbers DEF LoginInv, ClientInv
        <5>2. Arrived(Client) \in Nat
          BY <1>1, Numbers
        <5>3. QED
          BY <1>1, <2>1, <5>1, <5>2
      <4>2. QED
        BY <1>1, <2>2, <4>1
    <3>2. QED
      BY <2>2, <2>4, <2>7, <2>8, <3>1 DEF CipherOk
  <2>11. Acts(Server, 1)
    <3>1. Takes(Server) /\ compress' = compress /\ (compress'[Server] => Arrived(Server) >= 1)
      BY <1>1, <1>3, <2>2 DEF Takes
    <3>2. Accepted => Accepted'
      BY <1>3 DEF Accepted
    <3>3. QED
      BY <1>1, <1>3, <2>6, <2>7, <2>9, <2>10, <3>1, <3>2 DEF Acts
  <2>12. Enc' = Enc
    BY <1>3, ModeStays
  <2>13. ServerInv' /\ CrossInv'
    BY <1>1, <1>3, <2>1, <2>2, <2>4, <2>7, <2>8, <2>12 DEF ServerInv, ServerStep, CrossInv
  <2>14. closed'[Client] = closed[Client]
    BY <1>3
  <2>15. QED
    BY <2>8, <2>11, <2>13, <2>14, ServerActs
<1>4. QED
  BY <1>2, <1>3 DEF ReadLogin, Reads, Taking, Goes

-----------------------------------------------------------------------------
(* The other steps.                                                        *)

\* A step of p that sends nothing and turns nothing on.
LEMMA Quiet ==
    ASSUME LoginInv, NEW p \in Peer, Takes(p), pc' \in [Peer -> Step],
           UNCHANGED <<format, dtls, decoded, refused, damaged, compress, cipher, wire, encoded>>,
           closed' \in [Peer -> BOOLEAN], radiusSent' \in BOOLEAN, appSent' \in 0..AppBound,
           skipped' \in [Peer -> SUBSET Packet],
           Accepted => Accepted', pc[Server] = "failed" => pc'[Server] = "failed"
    PROVE  Acts(p, 0) /\ Enc' = Enc
<1>1. TypeOK /\ CipherInv
  BY DEF LoginInv
<1>2. Sent(p, 0)
  BY <1>1, NothingSent
<1>3. Types'
  BY <1>1 DEF Types, TypeOK, Cipher
<1>4. /\ compress'[p] => Arrived(p) >= 1
      /\ CipherOk(cipher'[p], encoded'[p], Arrived(p), refused[p])
  BY <1>1 DEF CipherInv
<1>5. QED
  BY <1>2, <1>3, <1>4, ModeStays DEF Acts

\* A quiet step that leaves the handshakes where they are, or accepts a connection.
LEMMA QuietKeeps ==
    ASSUME LoginInv, NEW p \in Peer, Takes(p),
           UNCHANGED <<format, dtls, decoded, refused, damaged, compress, cipher, wire, encoded,
                       radiusSent, appSent>>,
           closed' \in [Peer -> BOOLEAN], \A r \in Peer : closed[r] => closed'[r],
           \A r \in Peer : r # p => closed'[r] = closed[r],
           skipped' \in [Peer -> SUBSET Packet],
           \/ pc' = pc
           \/ p = Server /\ pc[Server] = "queued" /\ pc' = [pc EXCEPT ![Server] = "accepted"]
    PROVE  LoginInv'
<1>1. /\ TypeOK /\ ClientInv /\ ServerInv /\ CrossInv /\ SpawnInv
      /\ Client \in Peer /\ Server \in Peer /\ Client # Server
  BY Peers DEF LoginInv
<1>2. /\ pc \in [Peer -> Step] /\ pc' \in [Peer -> Step]
      /\ pc'[Client] = pc[Client] /\ radiusSent' \in BOOLEAN /\ appSent' \in 0..AppBound
  BY <1>1 DEF TypeOK, Step
<1>3. \/ pc'[Server] = pc[Server] /\ pc' = pc
      \/ p = Server /\ pc[Server] = "queued" /\ pc'[Server] = "accepted"
  BY <1>1, <1>2
<1>4. (Accepted => Accepted') /\ (pc[Server] = "failed" => pc'[Server] = "failed")
  BY <1>3 DEF Accepted
<1>5. Acts(p, 0) /\ Enc' = Enc
  BY <1>2, <1>4, Quiet
<1>6. ClientInv'
  BY <1>1, <1>2, <1>5 DEF ClientInv
<1>7. CASE p = Client
  <2>1. pc' = pc /\ pc'[Server] = pc[Server] /\ closed'[Server] = closed[Server]
    BY <1>1, <1>3, <1>7
  <2>2. pc'[Client] = "done" => pc[Server] = "accepted"
    BY <1>1, <1>2 DEF SpawnInv
  <2>3. QED
    BY <1>5, <1>6, <1>7, <2>1, <2>2, ClientActs
<1>8. CASE p = Server
  <2>1. ServerInv' /\ CrossInv'
    BY <1>1, <1>3, <1>5 DEF ServerInv, ServerStep, CrossInv
  <2>2. closed'[Client] = closed[Client]
    BY <1>1, <1>8
  <2>3. QED
    BY <1>2, <1>5, <1>8, <2>1, <2>2, ServerActs
<1>9. QED
  BY <1>7, <1>8, Peers

\* Packets that a handshake does not wait for.
LEMMA SkipKeeps ==
    ASSUME LoginInv, NEW p \in Peer, Skip(p)
    PROVE  LoginInv'
<1>1. TypeOK
  BY DEF LoginInv
<1>2. /\ inbox[p] # <<>> /\ inbox' = [inbox EXCEPT ![p] = Tail(@)]
      /\ UNCHANGED <<format, dtls, closed, decoded, refused, damaged>>
      /\ UNCHANGED <<pc, radiusSent, appSent, compress, cipher, wire, encoded>>
      /\ skipped' = [skipped EXCEPT ![p] = @ \cup {Head(inbox[p])}]
  BY DEF Skip, Taking
<1>3. Head(inbox[p]) \in Packet
  BY <1>2, HeadPlaced
<1>4. skipped' \in [Peer -> SUBSET Packet]
  BY <1>1, <1>2, <1>3 DEF TypeOK
<1>5. Takes(p) /\ closed' \in [Peer -> BOOLEAN]
  BY <1>1, <1>2 DEF Takes, TypeOK
<1>6. QED
  BY <1>2, <1>4, <1>5, QuietKeeps

\* The application takes the connection.
LEMMA AcceptKeeps ==
    ASSUME LoginInv, Accept
    PROVE  LoginInv'
<1>1. TypeOK /\ Server \in Peer
  BY Peers DEF LoginInv
<1>2. /\ pc[Server] = "queued" /\ pc' = [pc EXCEPT ![Server] = "accepted"]
      /\ UNCHANGED <<format, dtls, radiusSent, appSent, skipped, compress, cipher, wire, inbox,
                     closed, encoded, decoded, refused, damaged>>
  BY DEF Accept, Goes
<1>3. Takes(Server) /\ closed' \in [Peer -> BOOLEAN] /\ skipped' \in [Peer -> SUBSET Packet]
  BY <1>1, <1>2 DEF Takes, TypeOK
<1>4. QED
  BY <1>1, <1>2, <1>3, QuietKeeps

\* An application closes.
LEMMA AppClosesKeeps ==
    ASSUME LoginInv, NEW p \in Peer, AppCloses(p)
    PROVE  LoginInv'
<1>1. TypeOK
  BY DEF LoginInv
<1>2. /\ closed' = [closed EXCEPT ![p] = TRUE]
      /\ UNCHANGED <<format, dtls, pc, radiusSent, appSent, skipped>>
      /\ UNCHANGED <<compress, cipher, wire, inbox, encoded, decoded, refused, damaged>>
  BY DEF AppCloses, Close, handshake
<1>3. Takes(p) /\ skipped' \in [Peer -> SUBSET Packet]
  BY <1>1, <1>2 DEF Takes, TypeOK
<1>4. /\ closed' \in [Peer -> BOOLEAN] /\ \A r \in Peer : closed[r] => closed'[r]
      /\ \A r \in Peer : r # p => closed'[r] = closed[r]
  BY <1>1, <1>2 DEF TypeOK
<1>5. QED
  BY <1>2, <1>3, <1>4, QuietKeeps

\* A batch is damaged on its way.
LEMMA DamageKeeps ==
    ASSUME LoginInv, NEW p \in Peer, Damage(p)
    PROVE  LoginInv'
<1>1. TypeOK /\ RefusedInv
  BY DEF LoginInv
<1>2. PICK i \in DOMAIN wire[p] : damaged' = [damaged EXCEPT ![p] = @ \cup {wire[p][i].n}]
  BY DEF Damage
<1>3. UNCHANGED <<format, dtls, pc, radiusSent, appSent, skipped, compress, cipher, wire, inbox,
                  closed, encoded, decoded, refused>>
  BY DEF Damage, handshake
<1>4. wire[p][i].n \in Nat
  <2>1. wire[p] \in Seq(Batch)
    BY <1>1 DEF TypeOK
  <2>2. wire[p][i] \in Batch
    BY <2>1
  <2>3. QED
    BY <2>2 DEF Batch
<1>5. damaged' \in [Peer -> SUBSET Nat] /\ \A r \in Peer : damaged[r] \subseteq damaged'[r]
  BY <1>1, <1>2, <1>4 DEF TypeOK
<1>6. TypeOK'
  BY <1>1, <1>3, <1>5 DEF TypeOK
<1>7. Mode' = Mode /\ Enc' = Enc /\ Accepted' = Accepted
  BY <1>3, ModeStays DEF Accepted
<1>8. \A r \in Peer : Arrived(r)' = Arrived(r)
  BY <1>3 DEF Arrived
<1>9. RefusedInv'
  <2>1. RefusedOnlyDamage'
    BY <1>1, <1>3, <1>5 DEF RefusedInv, RefusedOnlyDamage
  <2>2. (\A r \in Peer : \A n \in refused[r] : n <= Arrived(r))'
    BY <1>1, <1>3, <1>8 DEF RefusedInv
  <2>3. (Enc /\ ~cipher[Client].on /\ Arrived(Client) >= 3 => refused[Client] # {})'
    BY <1>1, <1>3, <1>7, <1>8, Peers DEF RefusedInv
  <2>4. QED
    BY <2>1, <2>2, <2>3 DEF RefusedInv
<1>10. WireInv' /\ InboxInv'
  BY <1>3, <1>7, <1>8 DEF LoginInv, WireInv, InboxInv
<1>11. CipherInv'
  BY <1>3, <1>8 DEF LoginInv, CipherInv
<1>12. ClientInv' /\ ServerInv' /\ CrossInv' /\ SpawnInv'
  BY <1>3, <1>7 DEF LoginInv, ClientInv, ServerInv, CrossInv, SpawnInv
<1>13. QED
  BY <1>6, <1>9, <1>10, <1>11, <1>12 DEF LoginInv

\* A packet of the application.
LEMMA AppSendsKeeps ==
    ASSUME LoginInv, AppSends
    PROVE  LoginInv'
<1>1. /\ TypeOK /\ ServerInv /\ CrossInv /\ Client \in Peer /\ Server \in Peer
      /\ Other(Server) = Client /\ Server # Client /\ cipher[Server] \in Cipher
      /\ encoded[Server] \in Nat /\ encoded[Client] \in Nat /\ compress[Server] \in BOOLEAN
  BY Numbers, Peers DEF LoginInv
<1>2. PICK kind \in GamePacket : Send(Server, <<<<kind>>>>, cipher[Server])
  BY DEF AppSends
<1>3. /\ pc[Server] = "accepted" /\ appSent < AppBound
      /\ cipher' = [cipher EXCEPT ![Server] = Used(@, 1)]
      /\ appSent' = appSent + 1
      /\ UNCHANGED <<format, dtls, pc, radiusSent, skipped, compress, inbox, closed, decoded,
                     refused, damaged>>
  BY DEF AppSends
<1> DEFINE answer == <<<<kind>>>>
<1>4. /\ answer \in Seq(Seq(Packet)) /\ Len(answer) = 1
      /\ \A i \in 1..Len(answer) : \A j \in 1..Len(answer[i]) : i = 1 /\ answer[i][j] = kind
      /\ \A i \in 1..Len(answer) : i = 1
  <2>1. kind \in Packet
    BY DEF Packet
  <2>2. QED
    BY <2>1, OneBatch
<1>5. Send(Server, answer, cipher[Server])
  BY <1>2
<1> HIDE DEF answer
<1>6. /\ encoded[Server] >= 2 /\ compress[Server] /\ (cipher[Server].on <=> Enc)
      /\ Enc => encoded[Server] >= 3
  BY <1>1, <1>3 DEF ServerInv, ServerStep
<1>7. /\ \A i \in 1..Len(answer) : (compress[Server] <=> encoded[Server] + i > 1)
      /\ Enc /\ ~cipher[Server].on => encoded[Server] + Len(answer) <= 2
  BY <1>1, <1>4, <1>6
<1>8. Accepted' /\ (Accepted => Accepted')
  BY <1>3 DEF Accepted
<1>9. Place(Mode, Accepted', Client, kind, encoded[Server] + 1)
  BY <1>1, <1>6, <1>8 DEF Place, GamePacket, Enc
<1>10. \A i \in 1..Len(answer) : \A j \in 1..Len(answer[i]) :
          Place(Mode, Accepted', Client, answer[i][j], encoded[Server] + i)
  BY <1>4, <1>9
<1>11. /\ Takes(Server) /\ pc' \in [Peer -> Step] /\ closed' \in [Peer -> BOOLEAN]
       /\ radiusSent' \in BOOLEAN /\ skipped' \in [Peer -> SUBSET Packet]
       /\ pc[Server] # "failed"
  BY <1>1, <1>3 DEF TypeOK, Takes
<1>12. appSent' \in 0..AppBound
  BY <1>1, <1>3, BoundsAssumption DEF TypeOK
<1>13. /\ UNCHANGED <<format, dtls, decoded, refused, damaged, compress>>
       /\ cipher' = [cipher EXCEPT ![Server] = Used(@, Len(answer))]
  BY <1>3, <1>4
<1>14. /\ Acts(Server, 1) /\ encoded'[Server] = encoded[Server] + 1
       /\ encoded'[Client] = encoded[Client] /\ (cipher'[Server].on <=> cipher[Server].on)
  <2>1. /\ Acts(Server, Len(answer)) /\ encoded'[Server] = encoded[Server] + Len(answer)
        /\ encoded'[Client] = encoded[Client] /\ (cipher'[Server].on <=> cipher[Server].on)
    <3>1. Suits(Server, answer)
      BY <1>1, <1>7, <1>10 DEF Suits
    <3>2. QED
      BY <1>1, <1>4, <1>5, <1>8, <1>11, <1>12, <1>13, <3>1, Sending
  <2>2. QED
    BY <1>4, <2>1
<1>15. Enc' = Enc
  BY <1>3, ModeStays
<1>16. ServerInv' /\ CrossInv'
  BY <1>1, <1>3, <1>6, <1>14, <1>15 DEF ServerInv, ServerStep, CrossInv
<1>17. QED
  BY <1>3, <1>14, <1>16, ServerActs

\* Dialing fails: the Connection is closed.
LEMMA ClientFails ==
    ASSUME LoginInv, Fail(Client)
    PROVE  LoginInv'
<1>1. /\ TypeOK /\ ClientInv /\ Client \in Peer /\ Server \in Peer /\ Client # Server
  BY Peers DEF LoginInv
<1>2. /\ pc' = [pc EXCEPT ![Client] = "failed"] /\ closed' = [closed EXCEPT ![Client] = TRUE]
      /\ UNCHANGED <<wire, encoded, cipher>>
      /\ UNCHANGED <<format, dtls, radiusSent, appSent, skipped, compress, inbox, decoded, refused,
                     damaged>>
  BY <1>1 DEF Fail, Goes, Close
<1>3. /\ pc' \in [Peer -> Step] /\ pc'[Client] = "failed" /\ pc'[Server] = pc[Server]
      /\ closed' \in [Peer -> BOOLEAN] /\ closed'[Client] /\ closed'[Server] = closed[Server]
      /\ radiusSent' \in BOOLEAN /\ appSent' \in 0..AppBound /\ skipped' \in [Peer -> SUBSET Packet]
  BY <1>1, <1>2 DEF TypeOK, Step
<1>4. Takes(Client) /\ (Accepted => Accepted')
  BY <1>2, <1>3 DEF Takes, Accepted
<1>5. Acts(Client, 0) /\ Enc' = Enc
  BY <1>1, <1>2, <1>3, <1>4, Quiet
<1>6. ClientInv'
  BY <1>1, <1>2, <1>3, <1>5 DEF ClientInv, ClientStep
<1>7. QED
  BY <1>3, <1>5, <1>6, ClientActs

\* The handshake of the server fails: the client is told in one more batch.
LEMMA ServerFails ==
    ASSUME LoginInv, Fail(Server), pc[Server] \notin {"failed", "accepted"}
    PROVE  LoginInv'
<1> DEFINE answer == <<<<"Disconnect">>>>
<1>1. /\ TypeOK /\ ServerInv /\ CrossInv /\ Client \in Peer /\ Server \in Peer
      /\ Other(Server) = Client /\ Server # Client /\ cipher[Server] \in Cipher
      /\ encoded[Server] \in Nat /\ encoded[Client] \in Nat /\ compress[Server] \in BOOLEAN
  BY Numbers, Peers DEF LoginInv
<1>2. /\ pc' = [pc EXCEPT ![Server] = "failed"] /\ closed' = [closed EXCEPT ![Server] = TRUE]
      /\ Send(Server, answer, cipher[Server])
      /\ cipher' = [cipher EXCEPT ![Server] = Used(@, 1)]
      /\ UNCHANGED <<format, dtls, radiusSent, appSent, skipped, compress, inbox, decoded, refused,
                     damaged>>
  BY <1>1 DEF Fail, Goes, Close
<1>3. /\ answer \in Seq(Seq(Packet)) /\ Len(answer) = 1
      /\ \A i \in 1..Len(answer) : \A j \in 1..Len(answer[i]) : i = 1 /\ answer[i][j] = "Disconnect"
      /\ \A i \in 1..Len(answer) : i = 1
  <2>1. "Disconnect" \in Packet
    BY DEF Packet
  <2>2. QED
    BY <2>1, OneBatch
<1> HIDE DEF answer
<1>4. /\ pc[Server] = "request" => encoded[Server] = 0 /\ ~compress[Server] /\ ~cipher[Server].on
      /\ pc[Server] # "request" => encoded[Server] >= 1 /\ compress[Server]
      /\ pc[Server] = "login" => encoded[Server] = 1 /\ ~cipher[Server].on
      /\ pc[Server] = "ack" => encoded[Server] = 2
      /\ pc[Server] \notin {"request", "login"} => encoded[Server] >= 2 /\ (cipher[Server].on <=> Enc)
      /\ Enc /\ pc[Server] \notin {"request", "login", "ack"} => encoded[Server] >= 3
      /\ cipher[Server].on => Enc
  BY <1>1 DEF ServerInv, ServerStep
<1>5. /\ \A i \in 1..Len(answer) : (compress[Server] <=> encoded[Server] + i > 1)
      /\ Enc /\ ~cipher[Server].on => encoded[Server] + Len(answer) <= 2
  BY <1>1, <1>3, <1>4
<1>6. \A i \in 1..Len(answer) : \A j \in 1..Len(answer[i]) :
         Place(Mode, Accepted', Client, answer[i][j], encoded[Server] + i)
  <2>1. Place(Mode, Accepted', Client, "Disconnect", encoded[Server] + 1)
    BY <1>1 DEF Place, PlayStatus
  <2>2. QED
    BY <1>3, <2>1
<1>7. /\ pc' \in [Peer -> Step] /\ pc'[Server] = "failed" /\ pc'[Client] = pc[Client]
      /\ closed' \in [Peer -> BOOLEAN] /\ closed'[Server] /\ closed'[Client] = closed[Client]
      /\ radiusSent' \in BOOLEAN /\ appSent' \in 0..AppBound /\ skipped' \in [Peer -> SUBSET Packet]
  BY <1>1, <1>2 DEF TypeOK, Step
<1>8. Takes(Server) /\ (Accepted => Accepted') /\ pc[Server] # "failed"
  BY <1>2 DEF Takes, Accepted
<1>9. /\ UNCHANGED <<format, dtls, decoded, refused, damaged, compress>>
      /\ cipher' = [cipher EXCEPT ![Server] = Used(@, Len(answer))]
  BY <1>2, <1>3
<1>10. /\ Acts(Server, 1) /\ encoded'[Server] = encoded[Server] + 1
       /\ encoded'[Client] = encoded[Client] /\ (cipher'[Server].on <=> cipher[Server].on)
  <2>1. /\ Acts(Server, Len(answer)) /\ encoded'[Server] = encoded[Server] + Len(answer)
        /\ encoded'[Client] = encoded[Client] /\ (cipher'[Server].on <=> cipher[Server].on)
    <3>1. Suits(Server, answer)
      BY <1>1, <1>5, <1>6 DEF Suits
    <3>2. QED
      <4>1. /\ LoginInv /\ answer \in Seq(Seq(Packet)) /\ Send(Server, answer, cipher[Server])
            /\ pc' \in [Peer -> Step] /\ closed' \in [Peer -> BOOLEAN] /\ radiusSent' \in BOOLEAN
            /\ appSent' \in 0..AppBound /\ skipped' \in [Peer -> SUBSET Packet]
            /\ Server \in Peer /\ Other(Server) = Client
        BY <1>1, <1>2, <1>3, <1>7
      <4>2. Accepted => Accepted' /\ pc[Server] # "failed"
        BY <1>8
      <4>3. QED
        BY <1>8, <1>9, <3>1, <4>1, <4>2, Sending, ZenonT(60)
  <2>2. QED
    BY <1>3, <2>1
<1>11. Enc' = Enc
  BY <1>2, ModeStays
<1>12. ServerInv'
  BY <1>4, <1>7, <1>10, <1>11 DEF ServerInv, ServerStep
<1>13. CrossInv'
  <2>1. encoded[Client] < 2 => encoded[Server] <= 1
    BY <1>1 DEF CrossInv
  <2>2. Enc /\ encoded[Client] < 3 => encoded[Server] <= 2
    BY <1>1 DEF CrossInv
  <2>3. QED
    BY <1>1, <1>7, <1>10, <1>11, <2>1, <2>2 DEF CrossInv
<1>14. QED
  BY <1>7, <1>10, <1>12, <1>13, ServerActs

\* A handshake that gives up.
LEMMA FailKeeps ==
    ASSUME LoginInv, NEW p \in Peer, Waiting(p), Fail(p)
    PROVE  LoginInv'
<1>1. pc[p] \notin {"failed", "accepted"}
  BY DEF Waiting, Expected
<1>2. QED
  BY <1>1, ClientFails, ServerFails, Peers

-----------------------------------------------------------------------------
(* The read loop.                                                          *)

\* Where a batch that is next is, and what is known of it.
LEMMA NextBatch ==
    ASSUME LoginInv, NEW p \in Peer, wire[p] # <<>>
    PROVE  /\ Arrived(p) \in Nat /\ Arrived(p) + 1 <= encoded[Other(p)]
           /\ encoded[Other(p)] \in Nat
           /\ Head(wire[p]) \in Batch
           /\ Good(Mode, Accepted, p, Head(wire[p]), Arrived(p) + 1)
<1>1. TypeOK /\ WireInv /\ Other(p) \in Peer
  BY Peers DEF LoginInv
<1>2. wire[p] \in Seq(Batch)
  BY <1>1 DEF TypeOK
<1>3. /\ Head(wire[p]) = wire[p][1] /\ Head(wire[p]) \in Batch
      /\ Len(wire[p]) \in Nat /\ Len(wire[p]) >= 1
  BY <1>2, HeadTail
<1>4. 1 \in 1..Len(wire[p])
  BY <1>3
<1>5. /\ Arrived(p) \in Nat /\ Arrived(p) = encoded[Other(p)] - Len(wire[p])
      /\ encoded[Other(p)] \in Nat
  BY Numbers
<1>6. Arrived(p) + 1 <= encoded[Other(p)]
  BY <1>3, <1>5
<1>7. QED
  BY <1>1, <1>3, <1>4, <1>5, <1>6 DEF WireInv

\* The batch that is next can be decoded with what is turned on, unless something has been
\* damaged or it is the Disconnect of a server that has given up.
LEMMA NextDecodes ==
    ASSUME LoginInv, NEW p \in Peer, wire[p] # <<>>, ~closed[p]
    PROVE  \/ Decodes(p, Head(wire[p]))
           \/ \E d \in damaged[p] : d <= Arrived(p) + 1
           \/ p = Client /\ pc[Server] = "failed" /\ Arrived(p) + 1 = encoded[Server]
<1> DEFINE b == Head(wire[p])
           n == Arrived(p) + 1
<1>1. /\ Arrived(p) \in Nat /\ n <= encoded[Other(p)] /\ n \in Nat
      /\ encoded[Other(p)] \in Nat
      /\ b \in Batch
      /\ b.n = n /\ (b.compressed <=> n > 1) /\ b.key = Key(Mode, n)
  BY NextBatch DEF Good
<1>2. /\ Client \in Peer /\ Server \in Peer /\ Client # Server /\ (p = Client \/ p = Server)
      /\ Other(Client) = Server /\ Other(Server) = Client
      /\ encoded[Client] \in Nat /\ encoded[Server] \in Nat
      /\ Arrived(Client) \in Nat /\ Arrived(Client) <= encoded[Server]
      /\ compress[p] \in BOOLEAN /\ cipher[p] \in Cipher
      /\ TypeOK /\ ClientInv /\ ServerInv /\ CrossInv /\ RefusedInv
  BY Numbers, Peers DEF LoginInv
<1>3. b \in Batch => b.compressed \in BOOLEAN /\ b.key \in Nat
  BY DEF Batch
<1> HIDE DEF b, n
<1>4. CASE refused[p] # {}
  <2>1. PICK m \in refused[p] : m <= Arrived(p)
    BY <1>2, <1>4 DEF RefusedInv
  <2>2. m \in Nat /\ damaged[p] \subseteq Nat
    BY <1>2 DEF TypeOK
  <2>3. m < n
    BY <1>1, <2>1, <2>2 DEF n
  <2>4. \/ \E d \in damaged[p] : d <= m
        \/ p = Client /\ pc[Server] = "failed" /\ m = encoded[Server]
    BY <1>2 DEF RefusedInv, RefusedOnlyDamage
  <2>5. ~(p = Client /\ m = encoded[Server])
    BY <1>1, <1>2, <2>2, <2>3
  <2>6. PICK d \in damaged[p] : d <= m
    BY <2>4, <2>5
  <2>7. d <= n
    BY <1>1, <2>2, <2>3, <2>6
  <2>8. QED
    BY <2>7 DEF n
<1>5. CASE refused[p] = {}
  <2>1. n \in damaged[p] => \E d \in damaged[p] : d <= n
    BY <1>1
  <2>2. \/ Decrypts(p, b)
        \/ p = Client /\ pc[Server] = "failed" /\ n = encoded[Server]
    <3>1. CASE cipher[p].on
      <4>1. /\ Enc /\ Arrived(p) >= 2 /\ cipher[p].aligned /\ cipher[p].read = Arrived(p) - 2
        BY <1>5, <3>1, CipherStands DEF LoginInv, CipherInv, CipherOk
      <4>2. n > 2 /\ b.key = n - 2
        BY <1>1, <4>1 DEF Key, Enc, n
      <4>3. b.key = cipher[p].read + 1
        BY <1>1, <4>1, <4>2 DEF n
      <4>4. QED
        BY <3>1, <4>1, <4>3 DEF Decrypts
    <3>2. CASE ~cipher[p].on
      <4>1. b.key = 0 => Decrypts(p, b)
        BY <3>2 DEF Decrypts
      <4>2. b.key # 0 => Enc /\ n >= 3
        BY <1>1 DEF Key, Enc
      <4>3. CASE Enc /\ n >= 3 /\ p = Client
        <5>1. encoded[Client] < 3
          BY <1>2, <3>2, <4>3 DEF ClientInv
        <5>2. encoded[Server] <= 2 \/ (pc[Server] = "failed" /\ encoded[Server] = 3)
          BY <1>2, <4>3, <5>1 DEF CrossInv
        <5>3. n <= encoded[Server]
          BY <1>1, <1>2, <4>3
        <5>4. QED
          BY <1>1, <1>2, <4>3, <5>2, <5>3
      <4>4. CASE Enc /\ n >= 3 /\ p = Server
        <5>1. n <= encoded[Client] /\ encoded[Client] >= 3
          BY <1>1, <1>2, <4>4
        <5>2. cipher[Client].on
          BY <1>2, <4>4, <5>1 DEF ClientInv
        <5>3. Arrived(Client) >= 2 /\ encoded[Server] >= 2
          BY <1>2, <5>2, CipherStands
        <5>4. pc[Server] # "failed"
          BY <1>2, <4>4 DEF ServerInv
        <5>5. cipher[Server].on
          BY <1>2, <4>4, <5>3, <5>4 DEF ServerInv, ServerStep
        <5>6. QED
          BY <3>2, <4>4, <5>5
      <4>5. QED
        BY <1>2, <4>1, <4>2, <4>3, <4>4
    <3>3. QED
      BY <3>1, <3>2
  <2>3. \/ (compress[p] <=> b.compressed)
        \/ p = Client /\ pc[Server] = "failed" /\ n = encoded[Server]
    <3>1. CASE compress[p]
      <4>1. n > 1
        BY <1>1, <3>1, CipherStands DEF n
      <4>2. QED
        BY <1>1, <3>1, <4>1
    <3>2. CASE ~compress[p] /\ n > 1 /\ p = Client
      <4>1. encoded[Client] < 2
        BY <1>2, <3>2 DEF ClientInv
      <4>2. encoded[Server] <= 1 \/ (pc[Server] = "failed" /\ encoded[Server] = 2)
        BY <1>2, <4>1 DEF CrossInv
      <4>3. n <= encoded[Server]
        BY <1>1, <1>2, <3>2
      <4>4. QED
        BY <1>1, <1>2, <3>2, <4>2, <4>3
    <3>3. CASE ~compress[p] /\ n > 1 /\ p = Server
      <4>1. encoded[Client] >= 2
        BY <1>1, <1>2, <3>3
      <4>2. compress[Client]
        BY <1>2, <4>1 DEF ClientInv
      <4>3. Arrived(Client) >= 1 /\ encoded[Server] >= 1
        BY <1>2, <4>2, CipherStands
      <4>4. pc[Server] # "failed"
        BY <1>2, <3>3 DEF ServerInv
      <4>5. compress[Server]
        BY <1>2, <4>3, <4>4 DEF ServerInv, ServerStep
      <4>6. QED
        BY <3>3, <4>5
    <3>4. QED
      BY <1>1, <1>2, <3>1, <3>2, <3>3
  <2>4. (compress[p] <=> b.compressed) => compress[p] = b.compressed
    BY <1>1, <1>2, <1>3
  <2>5. n \notin damaged[p] /\ Decrypts(p, b) /\ compress[p] = b.compressed => Decodes(p, b)
    BY <1>1 DEF Decodes
  <2>6. QED
    BY <2>1, <2>2, <2>3, <2>4, <2>5 DEF b, n
<1>6. QED
  BY <1>4, <1>5

\* What decrypting does to a cipher.
LEMMA AfterDecryptIs ==
    ASSUME NEW p \in Peer, cipher[p] \in Cipher, NEW b, NEW cut
    PROVE  /\ AfterDecrypt(p, b, cut) \in Cipher
           /\ (AfterDecrypt(p, b, cut).on <=> cipher[p].on)
           /\ AfterDecrypt(p, b, cut).sent = cipher[p].sent
           /\ cipher[p].on => /\ AfterDecrypt(p, b, cut).read = cipher[p].read + 1
                              /\ AfterDecrypt(p, b, cut).aligned
                                    <=> cipher[p].aligned /\ b.key # 0 /\ ~cut
<1>1. CASE cipher[p].on
  <2> DEFINE c == cipher[p]
             ok == c.aligned /\ b.key # 0 /\ ~cut
  <2>1. AfterDecrypt(p, b, cut) = [c EXCEPT !.read = c.read + 1, !.aligned = ok]
    BY <1>1 DEF AfterDecrypt
  <2>2. c.read + 1 \in Nat /\ ok \in BOOLEAN
    BY DEF Cipher
  <2> HIDE DEF ok
  <2>3. /\ AfterDecrypt(p, b, cut) \in Cipher
        /\ AfterDecrypt(p, b, cut).read = c.read + 1 /\ AfterDecrypt(p, b, cut).sent = c.sent
    BY <2>1, <2>2 DEF Cipher
  <2>4. AfterDecrypt(p, b, cut).on = c.on /\ AfterDecrypt(p, b, cut).aligned = ok
    BY <2>1, Zenon DEF Cipher
  <2>5. QED
    BY <2>3, <2>4 DEF ok
<1>2. CASE ~cipher[p].on
  BY <1>2 DEF AfterDecrypt
<1>3. QED
  BY <1>1, <1>2

\* A packet that a cipher lets through is where the numbers say: the key is the next one.
LEMMA ReadBatchKeeps ==
    ASSUME LoginInv, NEW p \in Peer, ReadBatch(p)
    PROVE  LoginInv'
<1> DEFINE b == Head(wire[p])
           n == Arrived(p) + 1
<1>1. /\ wire[p] # <<>> /\ ~closed[p]
      /\ wire' = [wire EXCEPT ![p] = Tail(@)]
      /\ UNCHANGED <<format, dtls, pc, radiusSent, appSent, skipped>>
      /\ UNCHANGED <<compress, closed, encoded, damaged>>
  BY DEF ReadBatch, handshake
<1>2. PICK cut \in {FALSE, b.n \in damaged[p]} : cipher' = [cipher EXCEPT ![p] = AfterDecrypt(p, b, cut)]
  BY DEF ReadBatch
<1>3. \/ /\ Decodes(p, b)
         /\ inbox' = [inbox EXCEPT ![p] = @ \o b.packets]
         /\ decoded' = [decoded EXCEPT ![p] = Append(@, b.n)]
         /\ refused' = refused
      \/ /\ ~Decodes(p, b)
         /\ refused' = [refused EXCEPT ![p] = @ \cup {b.n}]
         /\ inbox' = inbox /\ decoded' = decoded
  BY DEF ReadBatch
<1>4. /\ Arrived(p) \in Nat /\ n <= encoded[Other(p)] /\ n \in Nat
      /\ encoded[Other(p)] \in Nat /\ b \in Batch
      /\ Good(Mode, Accepted, p, b, n)
      /\ b.n = n /\ b.key = Key(Mode, n)
  BY <1>1, NextBatch DEF Good
<1>5. /\ b.n \in Nat /\ b.packets \in Seq(Packet) /\ b.key \in Nat
      /\ \A j \in 1..Len(b.packets) : Place(Mode, Accepted, p, b.packets[j], n)
  BY <1>4 DEF Batch, Good
<1>6. /\ TypeOK /\ WireInv /\ InboxInv /\ CipherInv /\ ClientInv /\ ServerInv /\ CrossInv
      /\ RefusedInv /\ SpawnInv /\ Client \in Peer /\ Other(p) \in Peer /\ Other(p) # p
      /\ cipher[p] \in Cipher
  BY Numbers, Peers DEF LoginInv
<1>7. /\ Mode' = Mode /\ Enc' = Enc /\ Accepted' = Accepted
  BY <1>1, ModeStays DEF Accepted
<1>8. \/ Decodes(p, b)
      \/ \E d \in damaged[p] : d <= n
      \/ p = Client /\ pc[Server] = "failed" /\ n = encoded[Server]
  BY <1>1, NextDecodes
<1>9. /\ wire \in [Peer -> Seq(Batch)] /\ wire[p] \in Seq(Batch)
      /\ wire' \in [Peer -> Seq(Batch)] /\ wire'[p] = Tail(wire[p])
      /\ Len(wire'[p]) = Len(wire[p]) - 1 /\ Len(wire[p]) \in Nat /\ Len(wire[p]) >= 1
      /\ \A i \in 1..Len(wire'[p]) : wire'[p][i] = wire[p][i + 1] /\ i + 1 \in 1..Len(wire[p])
      /\ \A r \in Peer : r # p => wire'[r] = wire[r]
  <2>1. wire \in [Peer -> Seq(Batch)] /\ wire[p] \in Seq(Batch)
    BY <1>6 DEF TypeOK
  <2>2. /\ Tail(wire[p]) \in Seq(Batch) /\ Len(Tail(wire[p])) = Len(wire[p]) - 1
        /\ Len(wire[p]) \in Nat /\ Len(wire[p]) >= 1
        /\ \A i \in 1..Len(Tail(wire[p])) :
              Tail(wire[p])[i] = wire[p][i + 1] /\ i + 1 \in 1..Len(wire[p])
    BY <1>1, <2>1, HeadTail
  <2>3. wire'[p] = Tail(wire[p]) /\ \A r \in Peer : r # p => wire'[r] = wire[r]
    BY <1>1, <2>1
  <2>4. wire' \in [Peer -> Seq(Batch)]
    BY <1>1, <2>1, <2>2
  <2>5. QED
    BY <2>1, <2>2, <2>3, <2>4
<1> HIDE DEF b
<1>10. Arrived(p)' = n /\ \A r \in Peer : r # p => Arrived(r)' = Arrived(r)
  <2>1. /\ Arrived(p)' = encoded[Other(p)] - (Len(wire[p]) - 1)
        /\ Arrived(p) = encoded[Other(p)] - Len(wire[p])
    BY <1>1, <1>9 DEF Arrived
  <2>2. Arrived(p)' = n
    BY <1>4, <1>9, <2>1
  <2>3. QED
    BY <1>1, <1>9, <2>2 DEF Arrived
<1> HIDE DEF n
<1>11. WireInv'
  <2>1. ASSUME NEW r \in Peer
        PROVE  /\ Len(wire'[r]) <= encoded[Other(r)]
               /\ \A i \in 1..Len(wire'[r]) : Good(Mode, Accepted, r, wire'[r][i], Arrived(r)' + i)
    <3>1. CASE r # p
      BY <1>6, <1>9, <1>10, <3>1 DEF WireInv
    <3>2. CASE r = p
      <4>1. Len(wire'[p]) <= encoded[Other(p)]
        BY <1>4, <1>6, <1>9, SMTT(60) DEF WireInv
      <4>2. ASSUME NEW i \in 1..Len(wire'[p])
            PROVE  Good(Mode, Accepted, p, wire'[p][i], n + i)
        <5>1. Good(Mode, Accepted, p, wire[p][i + 1], Arrived(p) + (i + 1))
          BY <1>6, <1>9 DEF WireInv
        <5>2. Arrived(p) + (i + 1) = n + i
          BY <1>4 DEF n
        <5>3. QED
          BY <1>9, <5>1, <5>2
      <4>3. QED
        BY <1>10, <3>2, <4>1, <4>2
    <3>3. QED
      BY <3>1, <3>2
  <2>2. QED
    BY <1>1, <1>7, <2>1 DEF WireInv
<1>12. /\ cipher' \in [Peer -> Cipher] /\ \A r \in Peer : r # p => cipher'[r] = cipher[r]
       /\ (cipher'[p].on <=> cipher[p].on) /\ cipher'[p].sent = cipher[p].sent
       /\ cipher[p].on => /\ cipher'[p].read = cipher[p].read + 1
                          /\ cipher'[p].aligned <=> cipher[p].aligned /\ b.key # 0 /\ ~cut
  <2>2. /\ AfterDecrypt(p, b, cut) \in Cipher
        /\ (AfterDecrypt(p, b, cut).on <=> cipher[p].on)
        /\ AfterDecrypt(p, b, cut).sent = cipher[p].sent
        /\ cipher[p].on => /\ AfterDecrypt(p, b, cut).read = cipher[p].read + 1
                           /\ AfterDecrypt(p, b, cut).aligned
                                 <=> cipher[p].aligned /\ b.key # 0 /\ ~cut
    BY <1>6, AfterDecryptIs
  <2>3. cipher \in [Peer -> Cipher]
    BY <1>6 DEF TypeOK, Cipher
  <2>4. /\ cipher'[p] = AfterDecrypt(p, b, cut)
        /\ \A r \in Peer : r # p => cipher'[r] = cipher[r]
    BY <1>2, <2>3 DEF b
  <2>5. cipher' \in [Peer -> Cipher]
    BY <1>2, <2>2, <2>3 DEF b
  <2>6. QED
    BY <2>2, <2>4, <2>5
<1>13. /\ inbox' \in [Peer -> Seq(Packet)]
       /\ \A r \in Peer : r # p => inbox'[r] = inbox[r]
       /\ \A i \in 1..Len(inbox'[p]) :
             \/ \E m \in 1..Len(inbox[p]) : inbox'[p][i] = inbox[p][m]
             \/ Decodes(p, b) /\ \E j \in 1..Len(b.packets) : inbox'[p][i] = b.packets[j]
  <2>1. inbox \in [Peer -> Seq(Packet)] /\ inbox[p] \in Seq(Packet)
    BY <1>6 DEF TypeOK
  <2>2. CASE inbox' = inbox
    BY <2>1, <2>2
  <2>3. CASE Decodes(p, b) /\ inbox' = [inbox EXCEPT ![p] = @ \o b.packets]
    <3>1. /\ inbox[p] \o b.packets \in Seq(Packet)
          /\ \A i \in 1..Len(inbox[p]) : (inbox[p] \o b.packets)[i] = inbox[p][i]
          /\ \A i \in 1..Len(b.packets) : (inbox[p] \o b.packets)[Len(inbox[p]) + i] = b.packets[i]
          /\ \A i \in 1..Len(inbox[p] \o b.packets) :
                i \in 1..Len(inbox[p]) \/ i - Len(inbox[p]) \in 1..Len(b.packets)
          /\ Len(inbox[p]) \in Nat /\ Len(b.packets) \in Nat
      BY <1>5, <2>1, Joined
    <3>2. /\ inbox'[p] = inbox[p] \o b.packets /\ \A r \in Peer : r # p => inbox'[r] = inbox[r]
          /\ inbox' \in [Peer -> Seq(Packet)]
      BY <2>1, <2>3, <3>1
    <3>3. ASSUME NEW i \in 1..Len(inbox'[p])
          PROVE  \/ \E m \in 1..Len(inbox[p]) : inbox'[p][i] = inbox[p][m]
                 \/ \E j \in 1..Len(b.packets) : inbox'[p][i] = b.packets[j]
      <4>1. CASE i \in 1..Len(inbox[p])
        BY <3>1, <3>2, <4>1
      <4>2. CASE i - Len(inbox[p]) \in 1..Len(b.packets)
        <5>1. Len(inbox[p]) + (i - Len(inbox[p])) = i
          BY <3>1
        <5>2. inbox'[p][i] = b.packets[i - Len(inbox[p])]
          BY <3>1, <3>2, <4>2, <5>1
        <5>3. QED
          BY <4>2, <5>2
      <4>3. QED
        BY <3>1, <3>2, <4>1, <4>2
    <3>4. QED
      BY <2>3, <3>2, <3>3
  <2>4. QED
    BY <1>3, <2>2, <2>3 DEF b
<1>14. InboxInv'
  <2>1. ASSUME NEW r \in Peer
        PROVE  /\ inbox'[r] # <<>> => Arrived(r)' >= 1
               /\ \A i \in 1..Len(inbox'[r]) :
                     /\ Place(Mode, Accepted, r, inbox'[r][i], Arrived(r)')
                     /\ r = Client /\ Enc /\ ~cipher'[Client].on => inbox'[r][i] \notin PlayStatus
    <3>1. CASE r # p
      <4>1. /\ inbox'[r] = inbox[r] /\ Arrived(r)' = Arrived(r) /\ cipher'[r] = cipher[r]
        BY <1>10, <1>12, <1>13, <3>1
      <4>2. QED
        BY <1>6, <4>1 DEF InboxInv
    <3>2. CASE r = p
      <4>1. n >= 1 /\ Arrived(p) <= n /\ n \in Int /\ Arrived(p) \in Int
        BY <1>4 DEF n
      <4>2. ASSUME NEW i \in 1..Len(inbox'[p])
            PROVE  /\ Place(Mode, Accepted, p, inbox'[p][i], n)
                   /\ p = Client /\ Enc /\ ~cipher'[p].on => inbox'[p][i] \notin PlayStatus
        <5>1. CASE \E m \in 1..Len(inbox[p]) : inbox'[p][i] = inbox[p][m]
          <6>1. PICK m \in 1..Len(inbox[p]) : inbox'[p][i] = inbox[p][m]
            BY <5>1
          <6>2. /\ Place(Mode, Accepted, p, inbox[p][m], Arrived(p))
                /\ p = Client /\ Enc /\ ~cipher[p].on => inbox[p][m] \notin PlayStatus
            BY <1>6 DEF InboxInv
          <6>3. Place(Mode, Accepted, p, inbox[p][m], n)
            BY <4>1, <6>2, PlaceStays
          <6>4. QED
            BY <1>12, <6>1, <6>2, <6>3
        <5>2. CASE Decodes(p, b) /\ \E j \in 1..Len(b.packets) : inbox'[p][i] = b.packets[j]
          <6>1. PICK j \in 1..Len(b.packets) : inbox'[p][i] = b.packets[j]
            BY <5>2
          <6>2. Place(Mode, Accepted, p, b.packets[j], n)
            BY <1>5 DEF b
          <6>3. ~cipher[p].on => b.key = 0
            BY <5>2 DEF Decodes, Decrypts
          <6>4. Enc /\ n >= 3 => b.key # 0
            BY <1>4 DEF Key, Enc, b
          <6>5. p = Client /\ Enc /\ ~cipher[p].on => ~(n >= 3)
            BY <6>3, <6>4
          <6>6. p = Client /\ Enc /\ ~(n >= 3) => b.packets[j] \notin PlayStatus
            BY <6>2 DEF Place, Enc
          <6>7. QED
            BY <1>12, <6>1, <6>2, <6>5, <6>6
        <5>3. QED
          BY <1>13, <5>1, <5>2
      <4>3. QED
        BY <1>10, <3>2, <4>1, <4>2
    <3>3. QED
      BY <3>1, <3>2
  <2>2. QED
    BY <1>7, <2>1 DEF InboxInv
<1>15. CipherInv'
  <2>1. ASSUME NEW r \in Peer, r # p
        PROVE  /\ compress'[r] => Arrived(r)' >= 1
               /\ CipherOk(cipher'[r], encoded'[r], Arrived(r)', refused'[r])
    <3>1. refused'[r] = refused[r]
      BY <1>3, <1>6, <2>1 DEF TypeOK
    <3>2. cipher'[r] = cipher[r] /\ Arrived(r)' = Arrived(r)
      BY <1>10, <1>12, <2>1
    <3>3. QED
      BY <1>1, <1>6, <3>1, <3>2 DEF CipherInv
  <2>2. /\ compress'[p] => Arrived(p)' >= 1
        /\ CipherOk(cipher'[p], encoded'[p], Arrived(p)', refused'[p])
    <3>1. n >= 1 /\ (Arrived(p) >= 2 => n >= 2) /\ n - 2 = Arrived(p) - 2 + 1
      BY <1>4 DEF n
    <3>2. CipherOk(cipher[p], encoded[p], Arrived(p), refused[p])
      BY <1>6 DEF CipherInv
    <3>3. cipher[p].on /\ refused'[p] = {} =>
             refused[p] = {} /\ Decodes(p, b) /\ b.n \notin damaged[p]
      BY <1>3, <1>6, ZenonT(60) DEF TypeOK, Decodes, b
    <3>4. b.n \notin damaged[p] => ~cut
      BY <1>2 DEF b
    <3>5. cipher[p].on /\ Decodes(p, b) => cipher[p].aligned /\ b.key = cipher[p].read + 1
      BY DEF Decodes, Decrypts
    <3>6. cipher[p].read \in Nat
      BY <1>6 DEF Cipher
    <3>7. cipher[p].on /\ refused'[p] = {} => cipher'[p].aligned /\ cipher'[p].read = n - 2
      <4>1. SUFFICES ASSUME cipher[p].on, refused'[p] = {}
                     PROVE  cipher'[p].aligned /\ cipher'[p].read = n - 2
        OBVIOUS
      <4>2. refused[p] = {} /\ cipher[p].aligned /\ b.key = cipher[p].read + 1 /\ ~cut
        BY <3>3, <3>4, <3>5, <4>1
      <4>3. b.key # 0 /\ cipher[p].read = Arrived(p) - 2
        BY <3>2, <3>6, <4>1, <4>2 DEF CipherOk
      <4>4. QED
        BY <1>12, <3>1, <4>1, <4>2, <4>3
    <3>8. QED
      BY <1>1, <1>10, <1>12, <3>1, <3>2, <3>7 DEF CipherOk
  <2>3. QED
    BY <2>1, <2>2 DEF CipherInv
<1>16. RefusedInv'
  <2>1. ~Decodes(p, b) => \/ \E d \in damaged[p] : d <= n
                          \/ p = Client /\ pc[Server] = "failed" /\ n = encoded[Server]
    BY <1>8
  <2>2. /\ refused \in [Peer -> SUBSET Nat]
        /\ \A r \in Peer : refused[r] \subseteq refused'[r]
        /\ \A r \in Peer : \A m \in refused'[r] : m \in refused[r] \/ (r = p /\ m = n /\ ~Decodes(p, b))
    <3>1. refused \in [Peer -> SUBSET Nat]
      BY <1>6 DEF TypeOK
    <3>2. CASE refused' = refused
      BY <3>1, <3>2
    <3>3. CASE ~Decodes(p, b) /\ refused' = [refused EXCEPT ![p] = @ \cup {n}]
      BY <3>1, <3>3
    <3>4. b.n = n
      BY <1>4 DEF b
    <3>5. QED
      BY <1>3, <3>1, <3>2, <3>3, <3>4 DEF b
  <2>3. (\A r \in Peer : \A m \in refused[r] : m <= Arrived(r))'
    <3>1. ASSUME NEW r \in Peer, NEW m \in refused'[r]
          PROVE  m <= Arrived(r)'
      <4>1. CASE m \in refused[r]
        <5>1. m <= Arrived(r) /\ m \in Nat
          BY <1>6, <2>2, <4>1 DEF RefusedInv
        <5>2. CASE r = p
          BY <1>4, <1>10, <5>1, <5>2 DEF n
        <5>3. CASE r # p
          BY <1>10, <5>1, <5>3
        <5>4. QED
          BY <5>2, <5>3
      <4>2. CASE r = p /\ m = n
        BY <1>4, <1>10, <4>2
      <4>3. QED
        BY <2>2, <4>1, <4>2
    <3>2. QED
      BY <3>1
  <2>4. RefusedOnlyDamage'
    <3>1. ASSUME NEW r \in Peer, NEW m \in refused'[r]
          PROVE  \/ \E d \in damaged[r] : d <= m
                 \/ r = Client /\ pc[Server] = "failed" /\ m = encoded[Server]
      BY <1>6, <2>1, <2>2 DEF RefusedInv, RefusedOnlyDamage
    <3>2. QED
      BY <1>1, <3>1 DEF RefusedOnlyDamage
  <2>5. (Enc /\ ~cipher[Client].on /\ Arrived(Client) >= 3 => refused[Client] # {})'
    <3>1. SUFFICES ASSUME Enc, ~cipher'[Client].on, Arrived(Client)' >= 3
                   PROVE  refused'[Client] # {}
      BY <1>7
    <3>2. ~cipher[Client].on
      BY <1>6, <1>12, <3>1
    <3>3. CASE Arrived(Client) >= 3
      BY <1>6, <2>2, <3>1, <3>2, <3>3 DEF RefusedInv
    <3>4. CASE ~(Arrived(Client) >= 3)
      <4>1. p = Client /\ n >= 3
        BY <1>6, <1>10, <3>1, <3>4
      <4>2. b.key # 0
        BY <1>4, <3>1, <4>1 DEF Key, Enc, b
      <4>3. ~Decodes(p, b)
        BY <3>2, <4>1, <4>2 DEF Decodes, Decrypts
      <4>4. n \in refused'[p]
        BY <1>3, <1>4, <2>2, <4>3, ZenonT(60) DEF b
      <4>5. QED
        BY <4>1, <4>4
    <3>5. QED
      BY <3>3, <3>4
  <2>6. QED
    BY <2>3, <2>4, <2>5 DEF RefusedInv
<1>17. TypeOK'
  <2>1. refused' \in [Peer -> SUBSET Nat] /\ decoded' \in [Peer -> Seq(Nat)]
    <3>1. refused \in [Peer -> SUBSET Nat] /\ decoded \in [Peer -> Seq(Nat)] /\ b.n \in Nat
      BY <1>5, <1>6 DEF TypeOK, b
    <3>2. CASE refused' = refused /\ decoded' = [decoded EXCEPT ![p] = Append(@, b.n)]
      <4>1. Append(decoded[p], b.n) \in Seq(Nat)
        BY <3>1
      <4>2. QED
        BY <3>1, <3>2, <4>1
    <3>3. CASE decoded' = decoded /\ refused' = [refused EXCEPT ![p] = @ \cup {b.n}]
      BY <3>1, <3>3
    <3>4. QED
      BY <1>3, <3>2, <3>3 DEF b
  <2>2. QED
    BY <1>1, <1>6, <1>9, <1>12, <1>13, <2>1 DEF TypeOK, Cipher
<1>18. /\ ClientInv' /\ ServerInv' /\ CrossInv' /\ SpawnInv'
  <2>1. /\ cipher'[Client].on <=> cipher[Client].on
        /\ cipher'[Server].on <=> cipher[Server].on
    BY <1>12, Peers
  <2>2. QED
    BY <1>1, <1>6, <1>7, <2>1 DEF ClientInv, ServerInv, CrossInv, SpawnInv
<1>19. QED
  BY <1>11, <1>14, <1>15, <1>16, <1>17, <1>18 DEF LoginInv

-----------------------------------------------------------------------------
(* The theorems.                                                           *)

\* The first state: the client has sent RequestNetworkSettings.
LEMMA LoginStarts == Init => LoginInv
<1> SUFFICES ASSUME Init
             PROVE  LoginInv
  OBVIOUS
<1> DEFINE first == [n |-> 1, packets |-> <<"RequestNetworkSettings">>, compressed |-> FALSE,
                     key |-> 0]
<1> HIDE DEF first
<1>1. /\ Client \in Peer /\ Server \in Peer /\ Other(Client) = Server /\ Other(Server) = Client
      /\ Client # Server /\ \A p \in Peer : p = Client \/ p = Server
  BY Peers
<1>2. /\ pc = [p \in Peer |-> IF p = Client THEN "settings" ELSE "request"]
      /\ compress = [p \in Peer |-> FALSE] /\ closed = [p \in Peer |-> FALSE]
      /\ cipher = [p \in Peer |-> Plain]
      /\ wire = [p \in Peer |-> IF p = Client THEN <<>> ELSE <<first>>]
      /\ inbox = [p \in Peer |-> <<>>]
      /\ encoded = [p \in Peer |-> IF p = Client THEN 1 ELSE 0]
      /\ decoded = [p \in Peer |-> <<>>] /\ refused = [p \in Peer |-> {}]
      /\ damaged = [p \in Peer |-> {}] /\ skipped = [p \in Peer |-> {}]
      /\ format \in Formats /\ dtls \in BOOLEAN /\ radiusSent = FALSE /\ appSent = 0
  BY DEF Init, first
<1>3. /\ pc[Client] = "settings" /\ pc[Server] = "request"
      /\ encoded[Client] = 1 /\ encoded[Server] = 0
      /\ wire[Client] = <<>> /\ wire[Server] = <<first>>
      /\ Len(wire[Client]) = 0 /\ Len(wire[Server]) = 1
  BY <1>1, <1>2
<1>4. /\ \A p \in Peer : /\ ~compress[p] /\ ~closed[p] /\ ~cipher[p].on /\ inbox[p] = <<>>
                         /\ refused[p] = {}
  BY <1>2 DEF Plain
<1>5. Arrived(Client) = 0 /\ Arrived(Server) = 0
  <2>1. /\ Arrived(Client) = encoded[Server] - Len(wire[Client])
        /\ Arrived(Server) = encoded[Client] - Len(wire[Server])
    BY <1>1 DEF Arrived
  <2>2. QED
    BY <1>3, <2>1
<1>6. /\ first.n = 1 /\ ~first.compressed /\ first.key = 0
      /\ first.packets = <<"RequestNetworkSettings">> /\ first \in Batch
  BY DEF first, Batch, Packet
<1>7. TypeOK
  <2>1. Plain \in Cipher
    BY DEF Plain, Cipher
  <2>2. wire \in [Peer -> Seq(Batch)]
    BY <1>2, <1>6
  <2>3. /\ encoded \in [Peer -> Nat] /\ pc \in [Peer -> Step] /\ inbox \in [Peer -> Seq(Packet)]
        /\ decoded \in [Peer -> Seq(Nat)]
    BY <1>2 DEF Step
  <2>4. /\ cipher \in [Peer -> Cipher] /\ 0 \in 0..AppBound
        /\ compress \in [Peer -> BOOLEAN] /\ closed \in [Peer -> BOOLEAN]
        /\ refused \in [Peer -> SUBSET Nat] /\ damaged \in [Peer -> SUBSET Nat]
        /\ skipped \in [Peer -> SUBSET Packet]
    BY <1>2, <2>1, BoundsAssumption
  <2>5. format \in Formats /\ dtls \in BOOLEAN /\ radiusSent \in BOOLEAN /\ appSent \in 0..AppBound
    BY <1>2, <2>4
  <2>6. QED
    BY <2>2, <2>3, <2>4, <2>5 DEF TypeOK, Cipher
<1>8. WireInv
  <2>1. Good(Mode, Accepted, Server, first, 1)
    <3>1. \A j \in 1..Len(first.packets) : first.packets[j] = "RequestNetworkSettings"
      BY <1>6
    <3>2. Place(Mode, Accepted, Server, "RequestNetworkSettings", 1)
      BY <1>1 DEF Place
    <3>3. Key(Mode, 1) = 0
      BY DEF Key
    <3>4. QED
      BY <1>6, <3>1, <3>2, <3>3 DEF Good
  <2>2. \A i \in 1..1 : i = 1
    OBVIOUS
  <2>3. \A i \in 1..Len(wire[Server]) : Good(Mode, Accepted, Server, wire[Server][i], Arrived(Server) + i)
    BY <1>3, <1>5, <2>1, <2>2
  <2>4. 1..Len(wire[Client]) = {}
    BY <1>3
  <2>5. QED
    <3>1. Len(wire[Client]) <= encoded[Server] /\ Len(wire[Server]) <= encoded[Client]
      BY <1>3
    <3>2. QED
      BY <1>1, <2>3, <2>4, <3>1 DEF WireInv
<1>9. InboxInv /\ CipherInv
  <2>1. \A p \in Peer : 1..Len(inbox[p]) = {}
    BY <1>4
  <2>2. QED
    BY <1>4, <2>1 DEF InboxInv, CipherInv, CipherOk
<1>10. ClientInv /\ ServerInv
  BY <1>1, <1>3, <1>4 DEF ClientInv, ServerInv, ClientStep, ServerStep
<1>11. CrossInv /\ SpawnInv
  BY <1>3 DEF CrossInv, SpawnInv
<1>12. RefusedInv
  BY <1>1, <1>4, <1>5 DEF RefusedInv, RefusedOnlyDamage
<1>13. QED
  BY <1>7, <1>8, <1>9, <1>10, <1>11, <1>12 DEF LoginInv

\* Every step keeps the invariant.
LEMMA LoginGoesOn == LoginInv /\ [Next]_vars => LoginInv'
<1> SUFFICES ASSUME LoginInv, [Next]_vars
             PROVE  LoginInv'
  OBVIOUS
<1>1. CASE Dialing
  <2>1. CASE ToldToGo
    <3>1. Fail(Client)
      BY <2>1 DEF ToldToGo
    <3>2. QED
      BY <3>1, ClientFails
  <2>2. QED
    BY <1>1, <2>1, ReadSettingsKeeps, ReadHandshakeKeeps, ReadStatusKeeps, ReadPacksKeeps,
       WaitForSpawnKeeps DEF Dialing
<1>2. CASE Listening
  BY <1>2, ReadRequestKeeps, ReadLoginKeeps, ReadAnswersKeeps DEF Listening
<1>3. CASE Accept \/ AppSends
  BY <1>3, AcceptKeeps, AppSendsKeeps
<1>4. ASSUME NEW p \in Peer,
             \/ ReadBatch(p) \/ Damage(p) \/ Skip(p) \/ Timeout(p) \/ PeerGone(p) \/ AppCloses(p)
      PROVE  LoginInv'
  <2>1. CASE Timeout(p) \/ PeerGone(p)
    <3>1. Waiting(p) /\ Fail(p)
      BY <2>1 DEF Timeout, PeerGone
    <3>2. QED
      BY <3>1, FailKeeps
  <2>2. QED
    BY <1>4, <2>1, ReadBatchKeeps, DamageKeeps, SkipKeeps, AppClosesKeeps
<1>5. CASE UNCHANGED vars
  <2>1. /\ UNCHANGED <<format, dtls, pc, radiusSent, appSent, skipped, compress, cipher, wire,
                       inbox, closed, encoded, decoded, refused, damaged>>
    BY <1>5 DEF vars, handshake
  <2>2. /\ Client \in Peer /\ TypeOK /\ Takes(Client)
    BY <2>1, Peers DEF LoginInv, Takes
  <2>3. closed' \in [Peer -> BOOLEAN] /\ skipped' \in [Peer -> SUBSET Packet]
    BY <2>1, <2>2 DEF TypeOK
  <2>4. QED
    BY <2>1, <2>2, <2>3, QuietKeeps
<1>6. QED
  BY <1>1, <1>2, <1>3, <1>4, <1>5 DEF Next

\* The inductive invariant holds in every state.
LEMMA LoginInvariant == Spec => []LoginInv
<1>1. QED
  BY LoginStarts, LoginGoesOn, PTL DEF Spec

\* Types of the variables.
THEOREM LoginTypes == Spec => []TypeOK
<1>1. LoginInv => TypeOK
  BY DEF LoginInv
<1>2. QED
  BY <1>1, LoginInvariant, PTL

\* The read loop decodes ahead of the handshake: whatever the order, and whatever the
\* application sends, a batch is refused only for damage, or because it is the Disconnect of
\* a server that has given up.
THEOREM RefusedIsDamaged == Spec => []RefusedOnlyDamage
<1>1. LoginInv => RefusedOnlyDamage
  BY DEF LoginInv, RefusedInv
<1>2. QED
  BY <1>1, LoginInvariant, PTL

\* With nothing under way the two ends of a direction are at the same place in the key stream.
THEOREM StreamsStayTogether == Spec => []StreamsAgree
<1>1. LoginInv => StreamsAgree
  <2>1. SUFFICES ASSUME LoginInv, NEW p \in Peer, wire[p] = <<>>, refused[p] = {}, cipher[p].on,
                        cipher[Other(p)].on
                 PROVE  cipher[p].read = cipher[Other(p)].sent
    BY DEF StreamsAgree
  <2>2. Other(p) \in Peer
    BY Peers
  <2>3. cipher[p].read = Arrived(p) - 2
    BY <2>1 DEF LoginInv, CipherInv, CipherOk
  <2>4. cipher[Other(p)].sent = encoded[Other(p)] - 2
    BY <2>1, <2>2, CipherStands
  <2>5. Arrived(p) = encoded[Other(p)]
    <3>1. Arrived(p) = encoded[Other(p)] - Len(wire[p]) /\ Len(wire[p]) = 0
          /\ encoded[Other(p)] \in Nat
      BY <2>1, Numbers
    <3>2. QED
      BY <3>1
  <2>6. QED
    BY <2>3, <2>4, <2>5
<1>2. QED
  BY <1>1, LoginInvariant, PTL

\* dial() returns only when the server's connection has been accepted, and with the same cipher.
THEOREM DialedIsAccepted == Spec => []DoneTogether
<1>1. LoginInv => DoneTogether
  <2>1. SUFFICES ASSUME LoginInv, pc[Client] = "done"
                 PROVE  pc[Server] = "accepted" /\ cipher[Client].on = cipher[Server].on
    BY DEF DoneTogether
  <2>2. pc[Server] = "accepted"
    BY <2>1 DEF LoginInv, SpawnInv
  <2>3. (cipher[Server].on <=> Enc) /\ (cipher[Client].on <=> Enc)
    BY <2>1, <2>2 DEF LoginInv, ServerInv, ServerStep, ClientInv, ClientStep
  <2>4. cipher[Server].on \in BOOLEAN /\ cipher[Client].on \in BOOLEAN
    BY <2>1, Numbers, Peers DEF Cipher
  <2>5. QED
    BY <2>2, <2>3, <2>4
<1>2. QED
  BY <1>1, LoginInvariant, PTL

=============================================================================
