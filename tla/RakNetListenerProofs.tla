------------------------ MODULE RakNetListenerProofs ------------------------
(***************************************************************************)
(* Proofs about RakNetListener: types, and that a client that connect()    *)
(* has returned to is served by a connection which cuts frames to its      *)
(* size, that attempts fail for a cause, and that no connection is         *)
(* forgotten; for any number of addresses, sockets and faults.             *)
(***************************************************************************)
EXTENDS RakNetListener, SequenceTheorems, FiniteSetTheorems, TLAPS

\* What a datagram says is true: a size it asks for or offers fits the path, Reply2 has the
\* size of the connection, and Accepted comes from a connection that is online.
Sound(m) ==
    /\ m.kind \in {"Request1", "Reply1", "Request2"} => m.mtu \in 1..path
    /\ m.kind = "Reply2" => m.mtu \in 1..path /\ m.mtu = conns[m.addr].mtu
    /\ m.kind = "Accepted" => conns[m.addr].online

\* The same, after a step.
SoundThen(m) ==
    /\ m.kind \in {"Request1", "Reply1", "Request2"} => m.mtu \in 1..path'
    /\ m.kind = "Reply2" => m.mtu \in 1..path' /\ m.mtu = conns'[m.addr].mtu
    /\ m.kind = "Accepted" => conns'[m.addr].online

NetInv == \A m \in net : Sound(m)

MailInv ==
    \A a \in Address : \A i \in 1..Len(mail[a]) : mail[a][i].addr = a /\ Sound(mail[a][i])

ClientInv ==
    \A a \in Address :
        /\ client[a].step \in {"accepted", "connected"} =>
              client[a].mtu \in 1..path /\ client[a].mtu = conns[a].mtu
        /\ client[a].step = "connected" => conns[a].online

ServedInv == TypeOK /\ NetInv /\ MailInv /\ ClientInv

\* Connections keep their size and stay online.
ConnsGrow ==
    /\ path' = path
    /\ \A a \in Address : /\ conns[a].mtu # 0 => conns'[a].mtu = conns[a].mtu
                          /\ conns[a].online => conns'[a].online

ClientStep(a) == StartConnect(a) \/ StartPing(a) \/ Reads(a) \/ Timeout(a) \/ Leave(a)
NetworkStep == Lose \/ ClientReceives \/ Ignore
ListenerStep ==
    \/ AcceptLoop \/ Accept \/ StartClose \/ Closing
    \/ \E a \in Address : LoginSucceeds(a) \/ LoginFails(a)

-----------------------------------------------------------------------------
(* What each part of the system leaves alone.                              *)

LEMMA ClientLeaves ==
    ASSUME NEW a \in Address, ClientStep(a)
    PROVE  UNCHANGED <<path, conns, pending, acceptQueue, loop, handshaking, incoming, accepted>>
BY DEF ClientStep, StartConnect, StartPing, Opens, Reads, ReadReply1, ReadReply2, ReadAccepted,
       ReadPong, Timeout, Leave, ClientKeeps, server, listener

LEMMA ServerLeaves ==
    ASSUME NEW a \in Address, Handles(a)
    PROVE  UNCHANGED <<path, client, mail, loop, handshaking, incoming, accepted>>
BY DEF Handles, HandlePing, HandleRequest1, HandleRequest2, HandleConnectionRequest,
       HandleDisconnect, ServerKeeps, clients, listener

LEMMA NetworkLeaves ==
    ASSUME NetworkStep
    PROVE  UNCHANGED <<path, client, conns, pending, acceptQueue, loop, handshaking, incoming,
                       accepted>>
BY DEF NetworkStep, Lose, ClientReceives, Ignore, ServerKeeps, clients, server, listener

LEMMA ListenerLeaves ==
    ASSUME ListenerStep
    PROVE  UNCHANGED <<path, net, faults, client, mail, pending>>
BY DEF ListenerStep, AcceptLoop, Accept, StartClose, Closing, LoopCancelled, FinishClose,
       LoginSucceeds, LoginFails, ListenerKeeps, clients, server

LEMMA NextParts ==
    ASSUME Next
    PROVE  NetworkStep \/ ListenerStep \/ \E a \in Address : ClientStep(a) \/ Handles(a)
BY DEF Next, NetworkStep, ListenerStep, ClientStep

-----------------------------------------------------------------------------
(* Types.                                                                  *)

Faults == faults \in 0..FaultBound /\ excused \subseteq Address
NetType == net \subseteq Datagram
ClientType ==
    client \in [Address -> [step : Step, life : 0..LifeBound, size : 0..Len(mtu_sizes),
                            mtu : Mtu \cup {0}]]
MailType == mail \in [Address -> Seq(Datagram)]
ConnsType == conns \in [Address -> Conn] /\ pending \in [Address -> Mtu \cup {0}]
QueueType ==
    /\ acceptQueue \in Seq(Address) /\ incoming \in Seq(Address)
    /\ loop \in {"running", "cancelled", "ended", "closed"}
    /\ handshaking \subseteq Address /\ accepted \subseteq Address

LEMMA TypeParts ==
    ASSUME path' \in Mtu, Faults', NetType', ClientType', MailType', ConnsType', QueueType'
    PROVE  TypeOK'
BY DEF TypeOK, Faults, NetType, ClientType, MailType, ConnsType, QueueType

LEMMA Made ==
    ASSUME NEW a \in Address, NEW kind \in Kind, NEW mtu \in Mtu \cup {0}
    PROVE  Of(a, kind, mtu) \in Datagram
BY DEF Of, Datagram

LEMMA SizesAre == Len(mtu_sizes) = 3 /\ \A i \in 1..3 : mtu_sizes[i] \in Mtu
BY DEF mtu_sizes, Mtu, MAX_MTU, DEFAULT_MTU, MIN_MTU

LEMMA ArrivesType ==
    ASSUME TypeOK, NEW m \in net, NEW ms \in SUBSET Datagram, Arrives(m, ms)
    PROVE  NetType' /\ Faults'
BY BoundsAssumption, SMTT(60) DEF TypeOK, Arrives, NetType, Faults, Datagram

LEMMA NetworkTypes ==
    ASSUME TypeOK, NetworkStep
    PROVE  TypeOK'
<1>1. UNCHANGED <<path, client, conns, pending, acceptQueue, loop, handshaking, incoming, accepted>>
  BY NetworkLeaves
<1>2. CASE Lose
  <2>1. PICK m \in net : net' = net \ {m} /\ excused' = excused \cup {m.addr}
    BY <1>2 DEF Lose
  <2>2. m \in Datagram /\ m.addr \in Address
    BY DEF TypeOK, Datagram
  <2>3. Faults' /\ NetType' /\ MailType'
    BY <1>2, <2>1, <2>2, BoundsAssumption
    DEF Lose, TypeOK, Faults, NetType, MailType, clients
  <2> QED BY <1>1, <2>3, TypeParts DEF TypeOK, ClientType, ConnsType, QueueType
<1>3. CASE ClientReceives
  <2>1. PICK m \in net : Arrives(m, {})
                         /\ mail' = IF client[m.addr].step \in Ended THEN mail
                                    ELSE [mail EXCEPT ![m.addr] = Append(@, m)]
    BY <1>3 DEF ClientReceives
  <2>2. m \in Datagram /\ m.addr \in Address
    BY DEF TypeOK, Datagram
  <2>3. MailType'
    BY <2>1, <2>2 DEF TypeOK, MailType
  <2>4. NetType' /\ Faults'
    BY <2>1, ArrivesType
  <2> QED BY <1>1, <2>3, <2>4, TypeParts DEF TypeOK, ClientType, ConnsType, QueueType
<1>4. CASE Ignore
  BY <1>1, <1>4 DEF Ignore, ServerKeeps, TypeOK, clients
<1> QED BY <1>2, <1>3, <1>4 DEF NetworkStep

LEMMA OpensTypes ==
    ASSUME TypeOK, NEW a \in Address, NEW step \in Step, NEW size \in 0..1,
           NEW ms \in SUBSET Datagram, Opens(a, step, size, ms)
    PROVE  ClientType' /\ MailType' /\ NetType' /\ Faults'
<1>1. ClientType'
  <2>1. client[a].life + 1 \in 0..LifeBound
    BY BoundsAssumption DEF Opens, TypeOK
  <2> QED BY <2>1, SizesAre DEF Opens, TypeOK, ClientType, Mtu, DEFAULT_MTU, MIN_MTU, MAX_MTU
<1>2. MailType'
  BY DEF Opens, TypeOK, MailType
<1>3. NetType'
  BY DEF Opens, TypeOK, NetType, Sends
<1>4. Faults'
  BY DEF Opens, TypeOK, Faults, ClientKeeps
<1> QED BY <1>1, <1>2, <1>3, <1>4

\* A step of the client that also settles its size.
LEMMA ClientGoesOn ==
    ASSUME TypeOK, NEW a \in Address, NEW s \in Step, NEW m \in Mtu \cup {0},
           client' = [client EXCEPT ![a].step = s, ![a].mtu = m]
    PROVE  ClientType'
<1> DEFINE Client == [step : Step, life : 0..LifeBound, size : 0..Len(mtu_sizes),
                      mtu : Mtu \cup {0}]
<1>1. client \in [Address -> Client]
  BY DEF TypeOK
<1>2. client[a] \in Client
  BY <1>1
<1>3. [client[a] EXCEPT !.step = s, !.mtu = m] \in Client
  BY <1>2
<1>4. client' = [client EXCEPT ![a] = [client[a] EXCEPT !.step = s, !.mtu = m]]
  OBVIOUS
<1> HIDE DEF Client
<1>5. client' \in [Address -> Client]
  BY <1>1, <1>3, <1>4
<1> QED BY <1>5 DEF Client, ClientType

LEMMA GoesType ==
    ASSUME TypeOK, NEW a \in Address, NEW step \in Step, Goes(a, step)
    PROVE  ClientType'
BY DEF TypeOK, ClientType, Goes

LEMMA NextSizeType ==
    ASSUME TypeOK, NEW a \in Address, NextSize(a), client[a].step = "reply1"
    PROVE  ClientType' /\ NetType'
<1>1. CASE client[a].size < Len(mtu_sizes)
  <2>a. client[a] \in [step : Step, life : 0..LifeBound, size : 0..Len(mtu_sizes),
                       mtu : Mtu \cup {0}]
    BY DEF TypeOK
  <2>b. client[a].size \in 0..3
    BY <2>a, SizesAre
  <2>1. client[a].size + 1 \in 1..3
    BY <1>1, <2>b, SizesAre
  <2>2. mtu_sizes[client[a].size + 1] \in Mtu
    BY <2>1, SizesAre
  <2>3. ClientType'
    <3>1. client' = [client EXCEPT ![a].size = client[a].size + 1]
      BY <1>1 DEF NextSize
    <3>2. client[a].size + 1 \in 0..Len(mtu_sizes)
      BY <2>1, SizesAre
    <3> QED BY <3>1, <3>2, ZenonT(60) DEF TypeOK, ClientType
  <2>4. Of(a, "Request1", mtu_sizes[client[a].size + 1]) \in Datagram
    BY <2>2, Made DEF Kind
  <2>5. NetType'
    BY <1>1, <2>4 DEF NextSize, TypeOK, NetType, Sends
  <2> QED BY <2>3, <2>5
<1>2. CASE ~(client[a].size < Len(mtu_sizes))
  BY <1>2, GoesType DEF NextSize, TypeOK, NetType, Step
<1> QED BY <1>1, <1>2

\* The first datagram of a mailbox, and the rest.
LEMMA HeadIsMail ==
    ASSUME TypeOK, NEW a \in Address, mail[a] # <<>>
    PROVE  /\ Head(mail[a]) \in Datagram /\ Head(mail[a]) = mail[a][1]
           /\ Tail(mail[a]) \in Seq(Datagram) /\ Len(mail[a]) \in Nat \ {0}
           /\ Len(Tail(mail[a])) = Len(mail[a]) - 1
           /\ \A i \in 1..Len(Tail(mail[a])) : Tail(mail[a])[i] = mail[a][i + 1]
<1>1. mail[a] \in Seq(Datagram)
  BY DEF TypeOK
<1> QED BY <1>1, HeadTailProperties

LEMMA ReadTypes ==
    ASSUME TypeOK, NEW a \in Address, Reads(a)
    PROVE  ClientType' /\ MailType' /\ NetType' /\ Faults'
<1>1. mail[a] # <<>> /\ mail' = [mail EXCEPT ![a] = Tail(@)] /\ UNCHANGED <<faults, excused>>
  BY DEF Reads, ReadReply1, ReadReply2, ReadAccepted, ReadPong, ClientKeeps
<1>2. MailType' /\ Faults'
  BY <1>1, HeadIsMail DEF TypeOK, MailType, Faults
<1>3. Head(mail[a]).mtu \in Mtu \cup {0}
  BY <1>1, HeadIsMail DEF Datagram
<1>4. CASE ReadReply1(a)
  <2>1. CASE Head(mail[a]).kind # "Reply1"
    BY <1>2, <1>4, <2>1, NextSizeType DEF ReadReply1
  <2>2. CASE Head(mail[a]).kind = "Reply1"
    <3>1. Of(a, "Request2", Head(mail[a]).mtu) \in Datagram
      BY <1>3, Made DEF Kind
    <3>2. NetType'
      BY <1>4, <2>2, <3>1 DEF ReadReply1, Sends, TypeOK, NetType
    <3>3. client' = [client EXCEPT ![a].step = "reply2", ![a].mtu = Head(mail[a]).mtu]
      BY <1>4, <2>2 DEF ReadReply1
    <3>4. ClientType'
      BY <1>3, <3>3, ClientGoesOn DEF Step
    <3> QED BY <1>2, <3>2, <3>4
  <2> QED BY <2>1, <2>2
<1>5. CASE ReadReply2(a)
  <2>1. CASE Head(mail[a]).kind # "Reply2"
    BY <1>2, <1>5, <2>1, GoesType DEF ReadReply2, TypeOK, NetType, Step
  <2>2. CASE Head(mail[a]).kind = "Reply2"
    <3>1. Of(a, "ConnectionRequest", 0) \in Datagram
      BY Made DEF Kind
    <3>2. NetType'
      BY <1>5, <2>2, <3>1 DEF ReadReply2, Sends, TypeOK, NetType
    <3>3. client' = [client EXCEPT ![a].step = "accepted", ![a].mtu = Head(mail[a]).mtu]
      BY <1>5, <2>2 DEF ReadReply2
    <3>4. ClientType'
      BY <1>3, <3>3, ClientGoesOn DEF Step
    <3> QED BY <1>2, <3>2, <3>4
  <2> QED BY <2>1, <2>2
<1>6. CASE ReadAccepted(a) \/ ReadPong(a)
  <2>1. \E step \in Step : Goes(a, step)
    BY <1>6 DEF ReadAccepted, ReadPong, Step
  <2> QED BY <1>2, <1>6, <2>1, GoesType DEF ReadAccepted, ReadPong, TypeOK, NetType
<1> QED BY <1>4, <1>5, <1>6 DEF Reads

LEMMA ClientTypes ==
    ASSUME TypeOK, NEW a \in Address, ClientStep(a)
    PROVE  TypeOK'
<1>1. UNCHANGED <<path, conns, pending, acceptQueue, loop, handshaking, incoming, accepted>>
  BY ClientLeaves
<1>2. ASSUME ClientType', MailType', NetType', Faults'
      PROVE  TypeOK'
  BY <1>1, <1>2, TypeParts DEF TypeOK, ConnsType, QueueType
<1>3. CASE StartConnect(a)
  <2>1. {Of(a, "Request1", mtu_sizes[1])} \in SUBSET Datagram
    BY SizesAre, Made DEF Kind
  <2> QED BY <1>2, <1>3, <2>1, OpensTypes DEF StartConnect, Step
<1>4. CASE StartPing(a)
  <2>1. {Of(a, "Ping", 0)} \in SUBSET Datagram
    BY Made DEF Kind
  <2> QED BY <1>2, <1>4, <2>1, OpensTypes DEF StartPing, Step
<1>5. CASE Reads(a)
  BY <1>2, <1>5, ReadTypes
<1>6. CASE Timeout(a)
  <2>1. ClientType' /\ NetType'
    BY <1>6, NextSizeType, GoesType DEF Timeout, Step, TypeOK, NetType
  <2>2. MailType' /\ Faults'
    BY <1>6, BoundsAssumption DEF Timeout, Late, TypeOK, MailType, Faults
  <2> QED BY <1>2, <2>1, <2>2
<1>7. CASE Leave(a)
  <2>1. Of(a, "Disconnect", 0) \in Datagram
    BY Made DEF Kind
  <2>2. ClientType'
    BY <1>7, GoesType DEF Leave, Step
  <2>3. MailType' /\ Faults' /\ NetType'
    BY <1>7, <2>1 DEF Leave, ClientKeeps, Sends, TypeOK, MailType, Faults, NetType
  <2> QED BY <1>2, <2>2, <2>3
<1> QED BY <1>3, <1>4, <1>5, <1>6, <1>7 DEF ClientStep

\* A connection that starts, goes online or is closed.
LEMMA ConnStarts ==
    ASSUME TypeOK, NEW a \in Address, NEW mtu \in Mtu
    PROVE  [conns EXCEPT ![a] = [NoConn EXCEPT !.mtu = mtu]] \in [Address -> Conn]
BY DEF TypeOK, Conn, NoConn

LEMMA ConnChanges ==
    ASSUME TypeOK, NEW a \in Address
    PROVE  /\ [conns EXCEPT ![a].online = TRUE] \in [Address -> Conn]
           /\ [conns EXCEPT ![a].closed = TRUE] \in [Address -> Conn]
BY DEF TypeOK, Conn

LEMMA PendingIs ==
    ASSUME TypeOK, NEW a \in Address
    PROVE  Pending(a) \in Mtu
BY DEF TypeOK, Pending, Mtu, DEFAULT_MTU, MIN_MTU, MAX_MTU

\* The size of a connection: no longer than its client asked for.
LEMMA SmallerIs ==
    ASSUME NEW m \in Mtu, NEW n \in Mtu
    PROVE  Smaller(m, n) \in Mtu /\ Smaller(m, n) <= n
BY DEF Smaller, Mtu, MIN_MTU, MAX_MTU

\* A Request2 carries a size: that is what NetInv is needed for.
LEMMA Request2Size ==
    ASSUME TypeOK, NetInv, NEW m \in net, m.kind \in {"Request1", "Request2"}
    PROVE  m.mtu \in Mtu /\ m.mtu \in 1..path
<1>1. m.mtu \in 1..path
  BY DEF NetInv, Sound
<1>2. path \in 1..3
  BY DEF TypeOK, Mtu, MIN_MTU, MAX_MTU
<1>3. m.mtu \in 1..3
  BY <1>1, <1>2
<1> QED BY <1>1, <1>3 DEF Mtu, MIN_MTU, MAX_MTU

LEMMA ServerTypes ==
    ASSUME TypeOK, NetInv, NEW a \in Address, Handles(a)
    PROVE  TypeOK'
<1>1. UNCHANGED <<path, client, mail, loop, handshaking, incoming, accepted>>
  BY ServerLeaves
<1>2. ASSUME ConnsType', acceptQueue' \in Seq(Address), NetType', Faults'
      PROVE  TypeOK'
  BY <1>1, <1>2, TypeParts DEF TypeOK, ClientType, MailType, QueueType
<1>3. CASE HandlePing(a)
  <2>1. {Of(a, "Pong", 0)} \in SUBSET Datagram
    BY Made DEF Kind
  <2> QED BY <1>2, <1>3, <2>1, ArrivesType DEF HandlePing, Takes, server, TypeOK, ConnsType
<1>4. CASE HandleRequest1(a)
  <2>1. PICK m \in net : /\ Takes(a, "Request1", m) /\ pending' = [pending EXCEPT ![a] = m.mtu]
                         /\ Arrives(m, {Of(a, "Reply1", m.mtu)})
    BY <1>4 DEF HandleRequest1
  <2>2. m.mtu \in Mtu
    BY <2>1, Request2Size DEF Takes
  <2>3. {Of(a, "Reply1", m.mtu)} \in SUBSET Datagram
    BY <2>2, Made DEF Kind
  <2>4. NetType' /\ Faults'
    BY <2>1, <2>3, ArrivesType
  <2> QED BY <1>2, <1>4, <2>1, <2>2, <2>4 DEF HandleRequest1, TypeOK, ConnsType
<1>5. CASE HandleRequest2(a)
  <2>1. PICK m \in net :
           /\ Takes(a, "Request2", m)
           /\ conns' = [conns EXCEPT ![a] = [NoConn EXCEPT !.mtu = Smaller(Pending(a), m.mtu)]]
           /\ Arrives(m, {Of(a, "Reply2", Smaller(Pending(a), m.mtu))})
           /\ pending' = [pending EXCEPT ![a] = 0]
           /\ acceptQueue' = Append(acceptQueue, a)
    BY <1>5 DEF HandleRequest2
  <2>2. m.mtu \in Mtu
    BY <2>1, Request2Size DEF Takes
  <2>3. Smaller(Pending(a), m.mtu) \in Mtu
    BY <2>2, PendingIs, SmallerIs
  <2>4. conns' \in [Address -> Conn]
    BY <2>1, <2>3, ConnStarts
  <2>5. {Of(a, "Reply2", Smaller(Pending(a), m.mtu))} \in SUBSET Datagram
    BY <2>3, Made DEF Kind
  <2>6. NetType' /\ Faults'
    BY <2>1, <2>5, ArrivesType
  <2>7. pending' \in [Address -> Mtu \cup {0}] /\ acceptQueue' \in Seq(Address)
    BY <2>1 DEF TypeOK
  <2> QED BY <1>2, <2>1, <2>4, <2>6, <2>7 DEF TypeOK, ConnsType
<1>6. CASE HandleConnectionRequest(a)
  <2>1. PICK m \in net : /\ conns' = [conns EXCEPT ![a].online = TRUE]
                         /\ Arrives(m, IF conns[a].online THEN {} ELSE {Of(a, "Accepted", 0)})
                         /\ UNCHANGED <<pending, acceptQueue>>
    BY <1>6 DEF HandleConnectionRequest
  <2>2. (IF conns[a].online THEN {} ELSE {Of(a, "Accepted", 0)}) \in SUBSET Datagram
    BY Made DEF Kind
  <2>3. NetType' /\ Faults'
    BY <2>1, <2>2, ArrivesType
  <2> QED BY <1>2, <2>1, <2>3, ConnChanges DEF TypeOK, ConnsType
<1>7. CASE HandleDisconnect(a)
  <2>1. PICK m \in net : /\ conns' = [conns EXCEPT ![a].closed = @ \/ conns[a].online]
                         /\ Arrives(m, {}) /\ UNCHANGED <<pending, acceptQueue>>
    BY <1>7 DEF HandleDisconnect
  <2>2. conns' \in [Address -> Conn]
    <3>1. conns \in [Address -> Conn] /\ conns[a] \in Conn
      BY DEF TypeOK
    <3>2. [conns[a] EXCEPT !.closed = @ \/ conns[a].online] \in Conn
      BY <3>1 DEF Conn
    <3>3. conns' = [conns EXCEPT ![a] = [conns[a] EXCEPT !.closed = @ \/ conns[a].online]]
      BY <2>1
    <3> QED BY <3>1, <3>2, <3>3
  <2>3. NetType' /\ Faults'
    BY <2>1, ArrivesType
  <2> QED BY <1>2, <2>1, <2>2, <2>3 DEF TypeOK, ConnsType
<1> QED BY <1>3, <1>4, <1>5, <1>6, <1>7 DEF Handles

\* FinishClose marks every connection.
LEMMA AllClosedType ==
    ASSUME TypeOK, FinishClose
    PROVE  conns' \in [Address -> Conn]
<1>1. conns' = [a \in Address |-> IF conns[a] = NoConn THEN NoConn
                                  ELSE [conns[a] EXCEPT !.closed = TRUE]]
  BY DEF FinishClose
<1>2. \A a \in Address : [conns[a] EXCEPT !.closed = TRUE] \in Conn
  BY DEF TypeOK, Conn
<1>3. NoConn \in Conn
  BY DEF NoConn, Conn
<1> QED BY <1>1, <1>2, <1>3

LEMMA ListenerTypes ==
    ASSUME TypeOK, ListenerStep
    PROVE  TypeOK'
<1>1. UNCHANGED <<path, net, faults, client, mail, pending>>
  BY ListenerLeaves
<1>2. ASSUME conns' \in [Address -> Conn], QueueType', excused' \subseteq Address
      PROVE  TypeOK'
  BY <1>1, <1>2, TypeParts
  DEF TypeOK, ClientType, MailType, NetType, ConnsType, Faults
<1>3. CASE AcceptLoop
  <2>1. Head(acceptQueue) \in Address /\ Tail(acceptQueue) \in Seq(Address)
    BY <1>3, HeadTailProperties DEF AcceptLoop, TypeOK
  <2> QED BY <1>2, <1>3, <2>1 DEF AcceptLoop, ListenerKeeps, TypeOK, QueueType
<1>4. CASE Accept
  <2>1. Head(incoming) \in Address /\ Tail(incoming) \in Seq(Address)
    BY <1>4, HeadTailProperties DEF Accept, TypeOK
  <2> QED BY <1>2, <1>4, <2>1 DEF Accept, ListenerKeeps, TypeOK, QueueType
<1>5. CASE StartClose
  BY <1>2, <1>5 DEF StartClose, TypeOK, QueueType, server
<1>6. CASE LoopCancelled
  BY <1>2, <1>6 DEF LoopCancelled, ListenerKeeps, TypeOK, QueueType
<1>7. CASE FinishClose
  BY <1>2, <1>7, AllClosedType DEF FinishClose, ListenerKeeps, TypeOK, QueueType
<1>8. CASE \E a \in Address : LoginSucceeds(a)
  BY <1>2, <1>8, SMTT(60) DEF LoginSucceeds, ListenerKeeps, TypeOK, QueueType
<1>9. CASE \E a \in Address : LoginFails(a)
  <2>1. PICK a \in Address : LoginFails(a)
    BY <1>9
  <2>2. conns' \in [Address -> Conn]
    <3>1. conns' = [conns EXCEPT ![a].closed = TRUE]
      BY <2>1 DEF LoginFails
    <3> QED BY <3>1, ConnChanges
  <2> QED BY <1>2, <2>1, <2>2 DEF LoginFails, ListenerKeeps, TypeOK, QueueType
<1> QED BY <1>3, <1>4, <1>5, <1>6, <1>7, <1>8, <1>9 DEF ListenerStep, Closing

-----------------------------------------------------------------------------
(* What is true of datagrams and clients.                                  *)

LEMMA ServedInit == Init => ServedInv
<1> SUFFICES ASSUME Init PROVE ServedInv
  OBVIOUS
<1>1. path \in Mtu /\ Faults /\ NetType /\ ClientType /\ MailType /\ ConnsType /\ QueueType
  BY BoundsAssumption, SizesAre
  DEF Init, Faults, NetType, ClientType, MailType, ConnsType, QueueType, Step, NoConn, Conn
<1>2. TypeOK
  BY <1>1 DEF TypeOK, Faults, NetType, ClientType, MailType, ConnsType, QueueType
<1>3. NetInv /\ MailInv /\ ClientInv
  BY DEF Init, NetInv, MailInv, ClientInv
<1> QED BY <1>2, <1>3 DEF ServedInv

\* The table only grows: what starts has not been there, and sizes are not changed.
LEMMA NextGrows ==
    ASSUME TypeOK, Next
    PROVE  ConnsGrow
<1>1. CASE UNCHANGED <<path, conns>>
  BY <1>1 DEF ConnsGrow
<1>2. ASSUME NEW a \in Address, Handles(a)
      PROVE  ConnsGrow
  <2>1. path' = path
    BY <1>2, ServerLeaves
  <2>2. CASE HandleRequest2(a)
    BY <2>1, <2>2 DEF HandleRequest2, ConnsGrow, TypeOK, NoConn
  <2>3. CASE HandleConnectionRequest(a)
    BY <2>1, <2>3 DEF HandleConnectionRequest, ConnsGrow, TypeOK, Conn
  <2>4. CASE HandleDisconnect(a)
    BY <2>1, <2>4 DEF HandleDisconnect, ConnsGrow, TypeOK, Conn
  <2>5. CASE HandlePing(a) \/ HandleRequest1(a)
    BY <1>1, <2>1, <2>5 DEF HandlePing, HandleRequest1, server
  <2> QED BY <1>2, <2>2, <2>3, <2>4, <2>5 DEF Handles
<1>3. CASE ListenerStep
  <2>1. path' = path
    BY <1>3, ListenerLeaves
  <2>2. CASE AcceptLoop \/ Accept \/ StartClose \/ LoopCancelled \/ \E a \in Address : LoginSucceeds(a)
    BY <1>1, <2>1, <2>2 DEF AcceptLoop, Accept, StartClose, LoopCancelled, LoginSucceeds, server
  <2>3. CASE FinishClose
    <3>1. conns' = [a \in Address |-> IF conns[a] = NoConn THEN NoConn
                                      ELSE [conns[a] EXCEPT !.closed = TRUE]]
      BY <2>3 DEF FinishClose
    <3>2. ASSUME NEW a \in Address
          PROVE  conns'[a].mtu = conns[a].mtu /\ (conns[a].online => conns'[a].online)
      <4>1. conns[a] \in Conn
        BY DEF TypeOK
      <4> QED BY <3>1, <4>1 DEF Conn
    <3> QED BY <2>1, <3>2 DEF ConnsGrow
  <2>4. CASE \E a \in Address : LoginFails(a)
    BY <2>1, <2>4 DEF LoginFails, ConnsGrow, TypeOK, Conn
  <2> QED BY <1>3, <2>2, <2>3, <2>4 DEF ListenerStep, Closing
<1> QED BY <1>1, <1>2, <1>3, NextParts, NetworkLeaves, ClientLeaves

LEMMA SoundStays ==
    ASSUME TypeOK, ConnsGrow, NEW m \in Datagram, Sound(m)
    PROVE  SoundThen(m)
<1>1. m.addr \in Address /\ path \in 1..3
  BY DEF TypeOK, Datagram, Mtu, MIN_MTU, MAX_MTU
<1>2. m.kind \in {"Request1", "Reply1", "Request2"} => m.mtu \in 1..path'
  BY DEF Sound, ConnsGrow
<1>3. m.kind = "Reply2" => m.mtu \in 1..path' /\ m.mtu = conns'[m.addr].mtu
  <2> SUFFICES ASSUME m.kind = "Reply2" PROVE m.mtu \in 1..path' /\ m.mtu = conns'[m.addr].mtu
    OBVIOUS
  <2>1. m.mtu \in 1..path /\ m.mtu = conns[m.addr].mtu
    BY DEF Sound
  <2>2. conns[m.addr].mtu # 0
    BY <1>1, <2>1
  <2> QED BY <1>1, <2>1, <2>2 DEF ConnsGrow
<1>4. m.kind = "Accepted" => conns'[m.addr].online
  BY <1>1 DEF Sound, ConnsGrow
<1> QED BY <1>2, <1>3, <1>4 DEF SoundThen

\* What arrives and what is sent for it.
LEMMA ArrivesSound ==
    ASSUME ServedInv, ConnsGrow, NEW m \in net, NEW ms, Arrives(m, ms), \A n \in ms : SoundThen(n)
    PROVE  NetInv'
<1>1. \A n \in net : SoundThen(n)
  BY SoundStays DEF ServedInv, NetInv, TypeOK
<1>2. net' \subseteq net \cup ms
  BY DEF Arrives
<1> QED BY <1>1, <1>2 DEF NetInv, Sound, SoundThen

\* What is sent fits: Request1 is shorter than the path, or is not sent.
LEMMA SendsSound ==
    ASSUME ServedInv, ConnsGrow, NEW m \in Datagram, Sends({m}),
           (m.kind = "Request1" /\ m.mtu # 0) \/ SoundThen(m)
    PROVE  NetInv'
<1>1. \A n \in net : SoundThen(n)
  BY SoundStays DEF ServedInv, NetInv, TypeOK
<1>2. path \in 1..3 /\ path' = path
  BY DEF ServedInv, TypeOK, ConnsGrow, Mtu, MIN_MTU, MAX_MTU
<1>3. net' \subseteq net \cup {m} /\ (m \in net' => m \in net \/ Fits(m))
  BY DEF Sends
<1>4. CASE m.kind = "Request1" /\ m.mtu # 0 /\ Fits(m)
  <2>1. m.mtu \in 1..path
    BY <1>2, <1>4 DEF Fits, Datagram, Mtu, MIN_MTU, MAX_MTU
  <2>2. SoundThen(m)
    BY <1>2, <1>4, <2>1 DEF SoundThen
  <2> QED BY <1>1, <1>3, <2>2 DEF NetInv, Sound, SoundThen
<1> QED BY <1>1, <1>3, <1>4 DEF NetInv, Sound, SoundThen

\* Mail that was there.
LEMMA MailStays ==
    ASSUME ServedInv, ConnsGrow, NEW a \in Address
    PROVE  \A i \in 1..Len(mail[a]) : mail[a][i] \in Datagram /\ mail[a][i].addr = a
                                       /\ Sound(mail[a][i]) /\ SoundThen(mail[a][i])
<1> SUFFICES ASSUME NEW i \in 1..Len(mail[a])
             PROVE  mail[a][i] \in Datagram /\ mail[a][i].addr = a
                    /\ Sound(mail[a][i]) /\ SoundThen(mail[a][i])
  OBVIOUS
<1>1. mail[a][i] \in Datagram
  BY DEF ServedInv, TypeOK
<1>2. mail[a][i].addr = a /\ Sound(mail[a][i])
  BY DEF ServedInv, MailInv
<1>3. TypeOK
  BY DEF ServedInv
<1> DEFINE m == mail[a][i]
<1>4. m \in Datagram /\ Sound(m)
  BY <1>1, <1>2
<1> HIDE DEF m
<1>5. SoundThen(m)
  BY <1>3, <1>4, SoundStays
<1> QED BY <1>1, <1>2, <1>5 DEF m

LEMMA MailKept ==
    ASSUME ServedInv, ConnsGrow, mail' = mail
    PROVE  MailInv'
BY MailStays DEF MailInv, SoundThen, Sound

LEMMA MailRead ==
    ASSUME ServedInv, ConnsGrow, NEW a \in Address, mail[a] # <<>>,
           mail' = [mail EXCEPT ![a] = Tail(@)]
    PROVE  MailInv'
<1> SUFFICES ASSUME NEW b \in Address, NEW i \in 1..Len(mail'[b])
             PROVE  mail'[b][i].addr = b /\ SoundThen(mail'[b][i])
  BY DEF MailInv, SoundThen, Sound
<1>1. TypeOK
  BY DEF ServedInv
<1>2. CASE b # a
  <2>1. mail'[b] = mail[b]
    BY <1>1, <1>2 DEF TypeOK
  <2> QED BY <2>1, MailStays
<1>3. CASE b = a
  <2>1. mail'[b] = Tail(mail[a])
    BY <1>1, <1>3 DEF TypeOK
  <2>2. i + 1 \in 1..Len(mail[a]) /\ mail'[b][i] = mail[a][i + 1]
    <3>1. /\ Len(Tail(mail[a])) = Len(mail[a]) - 1 /\ Len(mail[a]) \in Nat
          /\ \A j \in 1..Len(Tail(mail[a])) : Tail(mail[a])[j] = mail[a][j + 1]
      BY <1>1, HeadIsMail
    <3>2. i \in 1..Len(Tail(mail[a])) /\ mail'[b][i] = Tail(mail[a])[i]
      BY <2>1
    <3> HIDE <2>1
    <3>3. i \in Nat /\ i + 1 \in 1..Len(mail[a])
      BY <3>1, <3>2
    <3> QED BY <3>1, <3>2, <3>3
  <2> QED BY <1>3, <2>2, MailStays
<1> QED BY <1>2, <1>3

\* One client goes on.
LEMMA ClientMoves ==
    ASSUME ServedInv, ConnsGrow, NEW a \in Address,
           \A b \in Address : b # a => client'[b] = client[b],
           client'[a].step \in {"accepted", "connected"} =>
               client'[a].mtu \in 1..path /\ client'[a].mtu = conns[a].mtu,
           client'[a].step = "connected" => conns[a].online
    PROVE  ClientInv'
<1>1. path' = path /\ path \in 1..3
  BY DEF ServedInv, TypeOK, ConnsGrow, Mtu, MIN_MTU, MAX_MTU
<1> SUFFICES ASSUME NEW b \in Address
             PROVE  /\ client'[b].step \in {"accepted", "connected"} =>
                          client'[b].mtu \in 1..path /\ client'[b].mtu = conns'[b].mtu
                    /\ client'[b].step = "connected" => conns'[b].online
  BY <1>1 DEF ClientInv
<1>2. /\ client'[b].step \in {"accepted", "connected"} =>
            client'[b].mtu \in 1..path /\ client'[b].mtu = conns[b].mtu
      /\ client'[b].step = "connected" => conns[b].online
  BY DEF ServedInv, ClientInv
<1>3. client'[b].mtu \in 1..path /\ client'[b].mtu = conns[b].mtu => conns[b].mtu # 0
  BY <1>1
<1> QED BY <1>2, <1>3 DEF ConnsGrow

LEMMA ClientKept ==
    ASSUME ServedInv, ConnsGrow, client' = client
    PROVE  ClientInv'
<1>1. path' = path /\ path \in 1..3
  BY DEF ServedInv, TypeOK, ConnsGrow, Mtu, MIN_MTU, MAX_MTU
<1> QED BY <1>1 DEF ServedInv, ClientInv, ConnsGrow

-----------------------------------------------------------------------------

LEMMA NetworkServed ==
    ASSUME ServedInv, ConnsGrow, NetworkStep
    PROVE  NetInv' /\ MailInv' /\ ClientInv'
<1>1. ClientInv'
  BY NetworkLeaves, ClientKept
<1>2. CASE Lose \/ Ignore
  <2>1. net' \subseteq net /\ mail' = mail
    BY <1>2 DEF Lose, Ignore, ServerKeeps, clients
  <2>2. NetInv'
    BY <2>1, SoundStays DEF ServedInv, NetInv, TypeOK, Sound, SoundThen
  <2> QED BY <1>1, <2>1, <2>2, MailKept
<1>3. CASE ClientReceives
  <2>1. PICK m \in net : Arrives(m, {})
                         /\ mail' = IF client[m.addr].step \in Ended THEN mail
                                    ELSE [mail EXCEPT ![m.addr] = Append(@, m)]
    BY <1>3 DEF ClientReceives
  <2>2. NetInv'
    BY <2>1, ArrivesSound
  <2>3. m \in Datagram /\ m.addr \in Address /\ SoundThen(m)
    BY SoundStays DEF ServedInv, NetInv, TypeOK, Datagram
  <2>4. CASE mail' = [mail EXCEPT ![m.addr] = Append(@, m)]
    <3> SUFFICES ASSUME NEW b \in Address, NEW i \in 1..Len(mail'[b])
                 PROVE  mail'[b][i].addr = b /\ SoundThen(mail'[b][i])
      BY <1>1, <2>2 DEF MailInv, SoundThen, Sound
    <3>1. mail[b] \in Seq(Datagram)
      BY DEF ServedInv, TypeOK
    <3>2. CASE b # m.addr
      <4>1. mail'[b] = mail[b]
        BY <2>4, <3>2 DEF ServedInv, TypeOK
      <4> QED BY <4>1, MailStays
    <3>3. CASE b = m.addr
      <4>1. mail'[b] = Append(mail[b], m)
        BY <2>4, <3>3 DEF ServedInv, TypeOK
      <4>2. CASE i = Len(mail[b]) + 1
        BY <2>3, <3>1, <3>3, <4>1, <4>2
      <4>3. CASE i # Len(mail[b]) + 1
        <5>1. i \in 1..Len(mail[b]) /\ mail'[b][i] = mail[b][i]
          BY <2>3, <3>1, <4>1, <4>3
        <5> QED BY <5>1, MailStays
      <4> QED BY <4>2, <4>3
    <3> QED BY <3>2, <3>3
  <2>5. CASE mail' = mail
    BY <1>1, <2>2, <2>5, MailKept
  <2> QED BY <2>1, <2>4, <2>5
<1> QED BY <1>2, <1>3 DEF NetworkStep

LEMMA ListenerServed ==
    ASSUME ServedInv, ConnsGrow, ListenerStep
    PROVE  NetInv' /\ MailInv' /\ ClientInv'
<1>1. UNCHANGED <<net, mail, client>>
  BY ListenerLeaves
<1>2. NetInv'
  BY <1>1, SoundStays DEF ServedInv, NetInv, TypeOK, Sound, SoundThen
<1> QED BY <1>1, <1>2, MailKept, ClientKept

\* The answers of the listener: what a Request1 asked for, the size of the connection.
LEMMA ServerServed ==
    ASSUME ServedInv, ConnsGrow, NEW a \in Address, Handles(a)
    PROVE  NetInv' /\ MailInv' /\ ClientInv'
<1>1. UNCHANGED <<path, client, mail>> /\ TypeOK
  BY ServerLeaves DEF ServedInv
<1>2. MailInv' /\ ClientInv'
  BY <1>1, MailKept, ClientKept
<1>3. CASE HandlePing(a)
  <2>1. SoundThen(Of(a, "Pong", 0))
    BY DEF SoundThen, Of
  <2> QED BY <1>2, <1>3, <2>1, ArrivesSound DEF HandlePing
<1>4. CASE HandleRequest1(a)
  <2>1. PICK m \in net : Takes(a, "Request1", m) /\ Arrives(m, {Of(a, "Reply1", m.mtu)})
    BY <1>4 DEF HandleRequest1
  <2>2. m.mtu \in 1..path'
    BY <1>1, <2>1, Request2Size DEF Takes, ServedInv
  <2>3. SoundThen(Of(a, "Reply1", m.mtu))
    BY <2>2 DEF SoundThen, Of
  <2> QED BY <1>2, <2>1, <2>3, ArrivesSound
<1>5. CASE HandleRequest2(a)
  <2>1. PICK m \in net :
           /\ Takes(a, "Request2", m)
           /\ conns' = [conns EXCEPT ![a] = [NoConn EXCEPT !.mtu = Smaller(Pending(a), m.mtu)]]
           /\ Arrives(m, {Of(a, "Reply2", Smaller(Pending(a), m.mtu))})
    BY <1>5 DEF HandleRequest2
  <2> DEFINE mtu == Smaller(Pending(a), m.mtu)
  <2>2. m.mtu \in Mtu /\ m.mtu \in 1..path
    BY <2>1, Request2Size DEF Takes, ServedInv
  <2>3. mtu \in Mtu /\ mtu <= m.mtu
    BY <1>1, <2>2, PendingIs, SmallerIs
  <2>4. path' \in 1..3 /\ path' = path
    BY <1>1 DEF TypeOK, Mtu, MIN_MTU, MAX_MTU
  <2>5. mtu \in 1..path'
    BY <2>2, <2>3, <2>4 DEF Mtu, MIN_MTU, MAX_MTU
  <2>6. conns'[a].mtu = mtu
    BY <1>1, <2>1 DEF TypeOK, NoConn
  <2> HIDE DEF mtu
  <2>7. SoundThen(Of(a, "Reply2", mtu))
    BY <2>5, <2>6 DEF SoundThen, Of
  <2>8. Arrives(m, {Of(a, "Reply2", mtu)})
    BY <2>1 DEF mtu
  <2> QED BY <1>2, <2>7, <2>8, ArrivesSound
<1>6. CASE HandleConnectionRequest(a)
  <2>1. PICK m \in net : /\ conns' = [conns EXCEPT ![a].online = TRUE]
                         /\ Arrives(m, IF conns[a].online THEN {} ELSE {Of(a, "Accepted", 0)})
    BY <1>6 DEF HandleConnectionRequest
  <2>2. conns'[a].online
    BY <1>1, <2>1 DEF TypeOK, Conn
  <2>3. SoundThen(Of(a, "Accepted", 0))
    BY <2>2 DEF SoundThen, Of
  <2> DEFINE ms == IF conns[a].online THEN {} ELSE {Of(a, "Accepted", 0)}
  <2>4. Arrives(m, ms) /\ \A n \in ms : SoundThen(n)
    BY <2>1, <2>3
  <2> HIDE DEF ms
  <2> QED BY <1>2, <2>4, ArrivesSound
<1>7. CASE HandleDisconnect(a)
  BY <1>2, <1>7, ArrivesSound DEF HandleDisconnect
<1> QED BY <1>3, <1>4, <1>5, <1>6, <1>7 DEF Handles

\* An attempt that fails.
LEMMA FailsServed ==
    ASSUME ServedInv, ConnsGrow, NEW a \in Address, Goes(a, "failed"), net' = net
    PROVE  NetInv' /\ ClientInv'
<1>1. NetInv'
  BY SoundStays DEF ServedInv, NetInv, TypeOK, Sound, SoundThen
<1>2. /\ \A b \in Address : b # a => client'[b] = client[b]
      /\ client'[a].step = "failed"
  BY DEF Goes, ServedInv, TypeOK
<1> QED BY <1>1, <1>2, ClientMoves

\* The next size is asked for, if it fits.
LEMMA NextSizeServed ==
    ASSUME ServedInv, ConnsGrow, NEW a \in Address, NextSize(a), client[a].step = "reply1"
    PROVE  NetInv' /\ ClientInv'
<1>1. CASE client[a].size < Len(mtu_sizes)
  <2>a. client[a] \in [step : Step, life : 0..LifeBound, size : 0..Len(mtu_sizes),
                       mtu : Mtu \cup {0}]
    BY DEF ServedInv, TypeOK
  <2>b. client[a].size + 1 \in 1..3
    BY <1>1, <2>a, SizesAre
  <2> DEFINE m == Of(a, "Request1", mtu_sizes[client[a].size + 1])
  <2>1. mtu_sizes[client[a].size + 1] \in Mtu
    BY <2>b, SizesAre
  <2>c. m \in Datagram
    BY <2>1, Made DEF Kind
  <2>d. m.kind = "Request1" /\ m.mtu = mtu_sizes[client[a].size + 1]
    BY DEF Of
  <2>2. m \in Datagram /\ m.kind = "Request1" /\ m.mtu # 0
    BY <2>1, <2>c, <2>d DEF Mtu, MIN_MTU
  <2>3. Sends({m})
    BY <1>1 DEF NextSize
  <2> HIDE DEF m
  <2>4. NetInv'
    BY <2>2, <2>3, SendsSound
  <2>5. client' = [client EXCEPT ![a].size = @ + 1]
    BY <1>1 DEF NextSize
  <2>6. /\ \A b \in Address : b # a => client'[b] = client[b]
        /\ client'[a].step = "reply1"
    BY <2>5 DEF ServedInv, TypeOK
  <2> QED BY <2>4, <2>6, ClientMoves
<1>2. CASE ~(client[a].size < Len(mtu_sizes))
  BY <1>2, FailsServed DEF NextSize
<1> QED BY <1>1, <1>2

\* A client believes what it reads.
LEMMA ReadsServed ==
    ASSUME ServedInv, ConnsGrow, NEW a \in Address, Reads(a)
    PROVE  NetInv' /\ MailInv' /\ ClientInv'
<1>1. TypeOK /\ mail[a] # <<>> /\ mail' = [mail EXCEPT ![a] = Tail(@)]
  BY DEF Reads, ReadReply1, ReadReply2, ReadAccepted, ReadPong, ServedInv
<1>2. MailInv'
  BY <1>1, MailRead
<1> DEFINE m == Head(mail[a])
<1>3. m \in Datagram /\ m.addr = a /\ Sound(m)
  <2>1. m = mail[a][1] /\ 1 \in 1..Len(mail[a])
    BY <1>1, HeadIsMail
  <2> QED BY <2>1, MailStays
<1>4. path' = path /\ path \in 1..3
  BY DEF ServedInv, TypeOK, ConnsGrow, Mtu, MIN_MTU, MAX_MTU
<1>5. ASSUME net' = net PROVE NetInv'
  BY <1>1, <1>5, SoundStays DEF ServedInv, NetInv, TypeOK, Sound, SoundThen
<1>6. ASSUME NEW step \in Step \ {"accepted", "connected"}, Goes(a, step) PROVE ClientInv'
  <2>1. /\ \A b \in Address : b # a => client'[b] = client[b]
        /\ client'[a].step = step
    BY <1>1, <1>6 DEF Goes, TypeOK
  <2> QED BY <2>1, ClientMoves
<1>7. CASE ReadReply1(a)
  <2>1. CASE m.kind # "Reply1"
    BY <1>1, <1>2, <1>7, <2>1, NextSizeServed DEF ReadReply1
  <2>2. CASE m.kind = "Reply1"
    <3>1. client' = [client EXCEPT ![a].step = "reply2", ![a].mtu = m.mtu]
          /\ Sends({Of(a, "Request2", m.mtu)})
      BY <1>7, <2>2 DEF ReadReply1
    <3>2. m.mtu \in 1..path'
      BY <1>3, <1>4, <2>2 DEF Sound
    <3>3. Of(a, "Request2", m.mtu) \in Datagram
      BY <1>3, Made DEF Kind, Datagram
    <3>4. SoundThen(Of(a, "Request2", m.mtu))
      BY <3>2 DEF SoundThen, Of
    <3>5. NetInv'
      BY <3>1, <3>3, <3>4, SendsSound
    <3>6. /\ \A b \in Address : b # a => client'[b] = client[b]
          /\ client'[a].step = "reply2"
      BY <1>1, <3>1 DEF TypeOK
    <3> QED BY <1>2, <3>5, <3>6, ClientMoves
  <2> QED BY <2>1, <2>2
<1>8. CASE ReadReply2(a)
  <2>1. CASE m.kind # "Reply2"
    BY <1>2, <1>5, <1>6, <1>8, <2>1 DEF ReadReply2, Step
  <2>2. CASE m.kind = "Reply2"
    <3>1. client' = [client EXCEPT ![a].step = "accepted", ![a].mtu = m.mtu]
          /\ Sends({Of(a, "ConnectionRequest", 0)})
      BY <1>8, <2>2 DEF ReadReply2
    <3>2. m.mtu \in 1..path /\ m.mtu = conns[a].mtu
      BY <1>3, <2>2 DEF Sound
    <3>3. Of(a, "ConnectionRequest", 0) \in Datagram
      BY Made DEF Kind
    <3>4. SoundThen(Of(a, "ConnectionRequest", 0))
      BY DEF SoundThen, Of
    <3>5. NetInv'
      BY <3>1, <3>3, <3>4, SendsSound
    <3>6. /\ \A b \in Address : b # a => client'[b] = client[b]
          /\ client'[a].step = "accepted" /\ client'[a].mtu = m.mtu
      BY <1>1, <3>1 DEF TypeOK
    <3> HIDE DEF m
    <3> QED BY <1>2, <3>2, <3>5, <3>6, ClientMoves
  <2> QED BY <2>1, <2>2
<1>9. CASE ReadAccepted(a)
  <2>1. NetInv'
    BY <1>5, <1>9 DEF ReadAccepted
  <2>2. client[a].mtu \in 1..path /\ client[a].mtu = conns[a].mtu
    BY <1>9 DEF ReadAccepted, ServedInv, ClientInv
  <2>3. m.kind = "Accepted" => conns[a].online
    BY <1>3 DEF Sound
  <2>4. Goes(a, IF m.kind = "Accepted" THEN "connected" ELSE "accepted")
    BY <1>9 DEF ReadAccepted
  <2>5. /\ \A b \in Address : b # a => client'[b] = client[b]
        /\ client'[a].step = (IF m.kind = "Accepted" THEN "connected" ELSE "accepted")
        /\ client'[a].mtu = client[a].mtu
    BY <1>1, <2>4 DEF Goes, TypeOK
  <2> HIDE DEF m
  <2>6. client'[a].step = "connected" => conns[a].online
    BY <2>3, <2>5
  <2> QED BY <1>2, <2>1, <2>2, <2>5, <2>6, ClientMoves
<1>10. CASE ReadPong(a)
  <2>1. \E step \in Step \ {"accepted", "connected"} : Goes(a, step)
    BY <1>10 DEF ReadPong, Step
  <2> QED BY <1>2, <1>5, <1>6, <1>10, <2>1 DEF ReadPong
<1> QED BY <1>7, <1>8, <1>9, <1>10 DEF Reads

LEMMA ClientServed ==
    ASSUME ServedInv, ConnsGrow, NEW a \in Address, ClientStep(a)
    PROVE  NetInv' /\ MailInv' /\ ClientInv'
<1>1. CASE StartConnect(a) \/ StartPing(a)
  <2>1. PICK step \in {"reply1", "pong"}, size \in 0..1,
             m \in {Of(a, "Request1", mtu_sizes[1]), Of(a, "Ping", 0)} :
             Opens(a, step, size, {m})
    BY <1>1 DEF StartConnect, StartPing
  <2>2. m \in Datagram
    BY SizesAre, Made DEF Kind
  <2>3. (m.kind = "Request1" /\ m.mtu # 0) \/ SoundThen(m)
    BY DEF Of, SoundThen, mtu_sizes, MAX_MTU
  <2>4. NetInv'
    BY <2>1, <2>2, <2>3, SendsSound DEF Opens
  <2>5. /\ \A b \in Address : b # a => client'[b] = client[b]
        /\ client'[a].step = step
    BY <2>1 DEF Opens, ServedInv, TypeOK
  <2>6. ClientInv'
    BY <2>5, ClientMoves
  <2>7. \A b \in Address : mail'[b] = <<>> \/ mail'[b] = mail[b]
    BY <2>1 DEF Opens, ServedInv, TypeOK
  <2>8. \A b \in Address : \A i \in 1..Len(mail'[b]) : mail'[b][i].addr = b /\ SoundThen(mail'[b][i])
    BY <2>7, MailStays
  <2>9. MailInv'
    BY <2>8 DEF MailInv, Sound, SoundThen
  <2> QED BY <2>4, <2>6, <2>9
<1>2. CASE Reads(a)
  BY <1>2, ReadsServed
<1>3. CASE Timeout(a)
  <2>1. mail' = mail
    BY <1>3 DEF Timeout
  <2>2. CASE client[a].step = "reply1"
    BY <1>3, <2>1, <2>2, MailKept, NextSizeServed DEF Timeout
  <2>3. CASE client[a].step # "reply1"
    <3>1. Goes(a, "failed") /\ net' = net
      BY <1>3, <2>3 DEF Timeout
    <3> QED BY <2>1, <3>1, MailKept, FailsServed
  <2> QED BY <2>2, <2>3
<1>4. CASE Leave(a)
  <2>1. Goes(a, "left") /\ Sends({Of(a, "Disconnect", 0)}) /\ mail' = mail
    BY <1>4 DEF Leave
  <2>2. Of(a, "Disconnect", 0) \in Datagram /\ SoundThen(Of(a, "Disconnect", 0))
    BY Made DEF Kind, SoundThen, Of
  <2>3. /\ \A b \in Address : b # a => client'[b] = client[b]
        /\ client'[a].step = "left"
    BY <2>1 DEF Goes, ServedInv, TypeOK
  <2> QED BY <2>1, <2>2, <2>3, MailKept, SendsSound, ClientMoves
<1> QED BY <1>1, <1>2, <1>3, <1>4 DEF ClientStep

LEMMA ServedNext == ServedInv /\ [Next]_vars => ServedInv'
<1> SUFFICES ASSUME ServedInv, [Next]_vars PROVE ServedInv'
  OBVIOUS
<1>1. TypeOK /\ NetInv
  BY DEF ServedInv
<1>2. CASE Next
  <2>1. ConnsGrow
    BY <1>1, <1>2, NextGrows
  <2>2. CASE NetworkStep
    BY <1>1, <2>1, <2>2, NetworkTypes, NetworkServed DEF ServedInv
  <2>3. CASE ListenerStep
    BY <1>1, <2>1, <2>3, ListenerTypes, ListenerServed DEF ServedInv
  <2>4. ASSUME NEW a \in Address, ClientStep(a) PROVE ServedInv'
    BY <1>1, <2>1, <2>4, ClientTypes, ClientServed DEF ServedInv
  <2>5. ASSUME NEW a \in Address, Handles(a) PROVE ServedInv'
    BY <1>1, <2>1, <2>5, ServerTypes, ServerServed DEF ServedInv
  <2> QED BY <1>2, <2>2, <2>3, <2>4, <2>5, NextParts
<1>3. CASE UNCHANGED vars
  <2>1. UNCHANGED <<path, net, faults, client, mail, conns, pending, acceptQueue, loop, handshaking,
                    incoming, accepted, excused>>
    BY <1>3 DEF vars, clients, server, listener
  <2>2. TypeOK'
    BY <1>1, <2>1 DEF TypeOK
  <2> QED BY <2>1, <2>2 DEF ServedInv, NetInv, MailInv, ClientInv, Sound
<1> QED BY <1>2, <1>3

\* Every variable of the two handshakes, of the table and of the Listener has its type.
THEOREM ListenerTyped == Spec => []TypeOK
<1>1. ServedInv => TypeOK
  BY DEF ServedInv
<1> QED BY <1>1, ServedInit, ServedNext, PTL DEF Spec

\* RakNetNetwork.connect returns only to a client whose connection is online in the
\* listener's table, with the client's MTU, which the path carries, whatever the network
\* loses, repeats and delays.
THEOREM ClientIsServed == Spec => []ConnectedIsServed
<1>1. ServedInv => ConnectedIsServed
  <2> SUFFICES ASSUME ServedInv, NEW a \in Address, client[a].step = "connected"
               PROVE  conns[a].online /\ conns[a].mtu = client[a].mtu /\ client[a].mtu <= path
    BY DEF ConnectedIsServed
  <2>1. path \in 1..3
    BY DEF ServedInv, TypeOK, Mtu, MIN_MTU, MAX_MTU
  <2> QED BY <2>1 DEF ServedInv, ClientInv
<1> QED BY <1>1, ServedInit, ServedNext, PTL DEF Spec

-----------------------------------------------------------------------------
(* Every connection is somebody's.                                         *)

\* Where an address is in a queue.
Marks(s, a) == {i \in DOMAIN s : s[i] = a}

LEMMA CountIsNat ==
    ASSUME NEW s \in Seq(Address), NEW a
    PROVE  /\ IsFiniteSet(Marks(s, a)) /\ Count(s, a) = Cardinality(Marks(s, a))
           /\ Count(s, a) \in Nat
<1>1. DOMAIN s = 1..Len(s) /\ Len(s) \in Nat
  OBVIOUS
<1>2. IsFiniteSet(1..Len(s))
  BY <1>1, FS_Interval
<1>3. Marks(s, a) \in SUBSET (1..Len(s))
  BY <1>1 DEF Marks
<1>4. IsFiniteSet(Marks(s, a))
  BY <1>2, <1>3, FS_Subset
<1> QED BY <1>4, FS_CardinalityType DEF Count, Marks

LEMMA CountOfNone == ASSUME NEW a PROVE Count(<<>>, a) = 0
BY FS_EmptySet DEF Count

LEMMA CountAppended ==
    ASSUME NEW s \in Seq(Address), NEW b \in Address, NEW a \in Address
    PROVE  Count(Append(s, b), a) = Count(s, a) + Truth(a = b)
<1>1. IsFiniteSet(Marks(s, a)) /\ Count(s, a) = Cardinality(Marks(s, a)) /\ Count(s, a) \in Nat
  BY CountIsNat
<1>2. Append(s, b) \in Seq(Address) /\ Len(s) \in Nat
  OBVIOUS
<1>3. Count(Append(s, b), a) = Cardinality(Marks(Append(s, b), a))
  BY <1>2, CountIsNat
<1>4. CASE a = b
  <2>1. Marks(Append(s, b), a) = Marks(s, a) \cup {Len(s) + 1}
    BY <1>2, <1>4 DEF Marks
  <2>2. Len(s) + 1 \notin Marks(s, a)
    BY <1>2 DEF Marks
  <2>3. Cardinality(Marks(s, a) \cup {Len(s) + 1}) = Cardinality(Marks(s, a)) + 1
    <3> DEFINE M == Marks(s, a)
    <3>1. IsFiniteSet(M) /\ Len(s) + 1 \notin M
      BY <1>1, <2>2
    <3> HIDE DEF M
    <3>2. Cardinality(M \cup {Len(s) + 1}) = Cardinality(M) + 1
      BY <3>1, FS_AddElement, Zenon
    <3> QED BY <3>2 DEF M
  <2> QED BY <1>1, <1>3, <1>4, <2>1, <2>3 DEF Truth
<1>5. CASE a # b
  <2>1. Marks(Append(s, b), a) = Marks(s, a)
    BY <1>2, <1>5 DEF Marks
  <2> QED BY <1>1, <1>3, <1>5, <2>1 DEF Truth
<1> QED BY <1>4, <1>5

LEMMA CountOfTail ==
    ASSUME NEW s \in Seq(Address), s # <<>>, NEW a \in Address
    PROVE  Count(s, a) = Count(Tail(s), a) + Truth(a = Head(s))
<1> DEFINE t == Tail(s)
<1>1. t \in Seq(Address) /\ Len(t) = Len(s) - 1 /\ Len(s) \in Nat \ {0} /\ Head(s) = s[1]
      /\ \A i \in 1..Len(t) : t[i] = s[i + 1]
  BY HeadTailProperties
<1>2. IsFiniteSet(Marks(t, a)) /\ Count(t, a) = Cardinality(Marks(t, a)) /\ Count(t, a) \in Nat
  BY <1>1, CountIsNat
<1>3. IsFiniteSet(Marks(s, a)) /\ Count(s, a) = Cardinality(Marks(s, a)) /\ Count(s, a) \in Nat
  BY CountIsNat
<1>4. DOMAIN s = 1..Len(s) /\ DOMAIN t = 1..Len(t)
  BY <1>1
<1> HIDE DEF t
<1> DEFINE rest == Marks(s, a) \ {1}
           f == [i \in Marks(t, a) |-> i + 1]
<1>5. f \in Bijection(Marks(t, a), rest)
  <2>1. \A i \in Marks(t, a) : i \in Int /\ i + 1 \in rest
    BY <1>1, <1>4 DEF Marks
  <2>2. \A j \in rest : j \in Int /\ j - 1 \in Marks(t, a)
    BY <1>1, <1>4 DEF Marks
  <2>3. f \in [Marks(t, a) -> rest]
    BY <2>1
  <2>4. \A i, j \in Marks(t, a) : f[i] = f[j] => i = j
    BY <2>1
  <2>5. \A j \in rest : f[j - 1] = j
    BY <2>2
  <2>6. f \in Injection(Marks(t, a), rest)
    BY <2>3, <2>4 DEF Injection, IsInjective
  <2>7. f \in Surjection(Marks(t, a), rest)
    BY <2>2, <2>3, <2>5 DEF Surjection
  <2> QED BY <2>6, <2>7 DEF Bijection
<1>6. Cardinality(rest) = Cardinality(Marks(t, a))
  BY <1>2, <1>5, FS_Bijection DEF ExistsBijection
<1>7. 1 \in Marks(s, a) <=> a = Head(s)
  BY <1>1, <1>4 DEF Marks
<1>8. Cardinality(rest) = IF 1 \in Marks(s, a) THEN Cardinality(Marks(s, a)) - 1
                          ELSE Cardinality(Marks(s, a))
  BY <1>3, FS_RemoveElement
<1> QED BY <1>2, <1>3, <1>6, <1>7, <1>8 DEF Truth, t

\* How many places a connection is in.
Places(a) ==
    Count(acceptQueue, a) + Count(incoming, a) + Truth(a \in handshaking) + Truth(a \in accepted)

PlacedInv ==
    \A a \in Address :
        /\ Places(a) <= Truth(conns[a] # NoConn)
        /\ conns[a] # NoConn /\ ~conns[a].closed => Places(a) = 1 /\ loop # "closed"

LEMMA PlacesAre ==
    ASSUME TypeOK, NEW a \in Address
    PROVE  /\ Count(acceptQueue, a) \in Nat /\ Count(incoming, a) \in Nat
           /\ Truth(a \in handshaking) \in {0, 1} /\ Truth(a \in accepted) \in {0, 1}
           /\ Truth(conns[a] # NoConn) \in {0, 1} /\ Places(a) \in Nat
<1>1. acceptQueue \in Seq(Address) /\ incoming \in Seq(Address)
  BY DEF TypeOK
<1>2. Count(acceptQueue, a) \in Nat /\ Count(incoming, a) \in Nat
  BY <1>1, CountIsNat
<1> QED BY <1>2 DEF Truth, Places

\* A connection that is in one place is in no other.
LEMMA OnePlace ==
    ASSUME TypeOK, PlacedInv, NEW a \in Address
    PROVE  Places(a) <= 1
BY PlacesAre DEF PlacedInv, Truth

\* A step that leaves connections where they are, or hands them on.
LEMMA HandedOn ==
    ASSUME PlacedInv,
           \A a \in Address :
               /\ Places(a)' = Places(a)
               /\ (conns[a] # NoConn)' <=> conns[a] # NoConn
               /\ ~conns'[a].closed => ~conns[a].closed,
           loop' = "closed" => loop = "closed"
    PROVE  PlacedInv'
BY DEF PlacedInv, Truth

LEMMA NothingMoves ==
    ASSUME PlacedInv, UNCHANGED <<conns, acceptQueue, incoming, handshaking, accepted>>,
           loop' = "closed" => loop = "closed"
    PROVE  PlacedInv'
BY HandedOn DEF Places

LEMMA ServerPlaces ==
    ASSUME TypeOK, NetInv, PlacedInv, NEW a \in Address, Handles(a)
    PROVE  PlacedInv'
<1>1. UNCHANGED <<loop, handshaking, incoming, accepted>>
  BY ServerLeaves
<1>2. CASE HandlePing(a) \/ HandleRequest1(a)
  BY <1>1, <1>2, NothingMoves DEF HandlePing, HandleRequest1, server
<1>3. CASE HandleRequest2(a)
  <2>1. PICK mtu : conns' = [conns EXCEPT ![a] = [NoConn EXCEPT !.mtu = mtu]]
    BY <1>3 DEF HandleRequest2
  <2>2. acceptQueue' = Append(acceptQueue, a) /\ conns[a] = NoConn /\ loop # "closed"
    BY <1>3 DEF HandleRequest2, Takes
  <2>3. ASSUME NEW b \in Address
        PROVE  Places(b)' = Places(b) + Truth(b = a)
    <3>1. Count(acceptQueue', b) = Count(acceptQueue, b) + Truth(b = a)
      BY <2>2, CountAppended DEF TypeOK
    <3> QED BY <1>1, <3>1, PlacesAre DEF Places, Truth
  <2>4. Places(a) = 0
    BY <2>2, PlacesAre DEF PlacedInv, Truth
  <2>5. Places(a)' = 1
    BY <2>3, <2>4 DEF Truth
  <2>6. \A b \in Address : b # a => Places(b)' = Places(b) /\ conns'[b] = conns[b]
    BY <2>1, <2>3, PlacesAre, SMTT(60) DEF Truth, TypeOK
  <2>8. conns'[a] # NoConn
    <3>1. PICK m \in net : conns' = [conns EXCEPT ![a] = [NoConn EXCEPT !.mtu = Smaller(Pending(a), m.mtu)]]
                           /\ Takes(a, "Request2", m)
      BY <1>3 DEF HandleRequest2
    <3>2. m.mtu \in Mtu
      BY <3>1, Request2Size DEF Takes
    <3>3. Smaller(Pending(a), m.mtu) \in Mtu
      BY <3>2, PendingIs, SmallerIs
    <3>4. conns'[a].mtu # 0
      BY <3>1, <3>3 DEF TypeOK, NoConn, Mtu, MIN_MTU
    <3> QED BY <3>4 DEF NoConn
  <2>7. Places(a)' <= Truth(conns'[a] # NoConn)
    BY <2>5, <2>8 DEF Truth
  <2> QED BY <1>1, <2>2, <2>5, <2>6, <2>7 DEF PlacedInv
<1>4. CASE HandleConnectionRequest(a)
  <2>1. /\ conns' = [conns EXCEPT ![a].online = TRUE] /\ conns[a] # NoConn
        /\ acceptQueue' = acceptQueue
    BY <1>4 DEF HandleConnectionRequest
  <2>2. \A b \in Address : Places(b)' = Places(b)
    BY <1>1, <2>1 DEF Places
  <2>3. conns'[a].online /\ conns'[a].closed = conns[a].closed
        /\ \A b \in Address : b # a => conns'[b] = conns[b]
    BY <2>1 DEF TypeOK, Conn
  <2>4. conns'[a] # NoConn
    BY <2>3 DEF NoConn
  <2>5. ASSUME NEW b \in Address
        PROVE  /\ Places(b)' = Places(b)
               /\ (conns[b] # NoConn)' <=> conns[b] # NoConn
               /\ ~conns'[b].closed => ~conns[b].closed
    BY <2>1, <2>2, <2>3, <2>4
  <2> QED BY <1>1, <2>5, HandedOn
<1>5. CASE HandleDisconnect(a)
  <2>1. /\ conns' = [conns EXCEPT ![a].closed = @ \/ conns[a].online] /\ conns[a] # NoConn
        /\ acceptQueue' = acceptQueue
    BY <1>5 DEF HandleDisconnect
  <2>2. \A b \in Address : Places(b)' = Places(b)
    BY <1>1, <2>1 DEF Places
  <2>3. \A b \in Address : b # a => conns'[b] = conns[b]
    BY <2>1 DEF TypeOK
  <2>4. conns[a] \in Conn /\ conns'[a] = [conns[a] EXCEPT !.closed = @ \/ conns[a].online]
    BY <2>1 DEF TypeOK
  <2>5. /\ conns'[a].mtu = conns[a].mtu /\ (conns'[a].online <=> conns[a].online)
        /\ (conns'[a].closed <=> (conns[a].closed \/ conns[a].online))
    BY <2>4 DEF Conn
  <2>6. conns[a] = [mtu |-> conns[a].mtu, online |-> conns[a].online, closed |-> conns[a].closed]
    BY <2>4 DEF Conn
  <2>7. conns'[a] # NoConn
    <3> SUFFICES ASSUME conns'[a] = NoConn PROVE FALSE
      OBVIOUS
    <3>1. conns[a].mtu = 0 /\ ~conns[a].online /\ ~conns[a].closed
      BY <2>5 DEF NoConn
    <3>2. conns[a].online = FALSE /\ conns[a].closed = FALSE
      BY <2>4, <3>1 DEF Conn
    <3> QED BY <2>1, <2>6, <3>1, <3>2 DEF NoConn
  <2>8. ASSUME NEW b \in Address
        PROVE  /\ Places(b)' = Places(b)
               /\ (conns[b] # NoConn)' <=> conns[b] # NoConn
               /\ ~conns'[b].closed => ~conns[b].closed
    BY <2>1, <2>2, <2>3, <2>5, <2>7
  <2> QED BY <1>1, <2>8, HandedOn
<1> QED BY <1>2, <1>3, <1>4, <1>5 DEF Handles

LEMMA ListenerPlaces ==
    ASSUME TypeOK, PlacedInv, ListenerStep
    PROVE  PlacedInv'
<1>1. CASE AcceptLoop
  <2> DEFINE h == Head(acceptQueue)
  <2>1. /\ acceptQueue # <<>> /\ handshaking' = handshaking \cup {h}
        /\ acceptQueue' = Tail(acceptQueue)
        /\ UNCHANGED <<conns, loop, incoming, accepted>>
    BY <1>1 DEF AcceptLoop
  <2>2. ASSUME NEW b \in Address PROVE Places(b)' = Places(b)
    <3>1. Count(acceptQueue, b) = Count(acceptQueue', b) + Truth(b = h)
      BY <2>1, CountOfTail DEF TypeOK
    <3>2. Count(acceptQueue', b) \in Nat
      <4>1. Tail(acceptQueue) \in Seq(Address)
        BY <2>1, HeadTailProperties DEF TypeOK
      <4> QED BY <2>1, <4>1, CountIsNat
    <3>3. b = h => b \notin handshaking
      BY <3>1, <3>2, OnePlace, PlacesAre DEF Places, Truth
    <3>4. Truth(b \in handshaking') = Truth(b \in handshaking) + Truth(b = h)
      BY <2>1, <3>3 DEF Truth
    <3>5. Truth(b = h) \in {0, 1}
      BY DEF Truth
    <3> HIDE DEF h
    <3> QED BY <2>1, <3>1, <3>2, <3>4, <3>5, PlacesAre DEF Places
  <2> QED BY <2>1, <2>2, HandedOn
<1>2. CASE Accept
  <2> DEFINE h == Head(incoming)
  <2>1. /\ incoming # <<>> /\ accepted' = accepted \cup {h} /\ incoming' = Tail(incoming)
        /\ UNCHANGED <<conns, acceptQueue, loop, handshaking>>
    BY <1>2 DEF Accept
  <2>2. ASSUME NEW b \in Address PROVE Places(b)' = Places(b)
    <3>1. Count(incoming, b) = Count(incoming', b) + Truth(b = h)
      BY <2>1, CountOfTail DEF TypeOK
    <3>2. Count(incoming', b) \in Nat
      <4>1. Tail(incoming) \in Seq(Address)
        BY <2>1, HeadTailProperties DEF TypeOK
      <4> QED BY <2>1, <4>1, CountIsNat
    <3>3. b = h => b \notin accepted
      BY <3>1, <3>2, OnePlace, PlacesAre DEF Places, Truth
    <3>4. Truth(b \in accepted') = Truth(b \in accepted) + Truth(b = h)
      BY <2>1, <3>3 DEF Truth
    <3>5. Truth(b = h) \in {0, 1}
      BY DEF Truth
    <3> HIDE DEF h
    <3> QED BY <2>1, <3>1, <3>2, <3>4, <3>5, PlacesAre DEF Places
  <2> QED BY <2>1, <2>2, HandedOn
<1>3. CASE StartClose \/ LoopCancelled
  BY <1>3, NothingMoves DEF StartClose, LoopCancelled, server
<1>4. CASE FinishClose
  <2>1. /\ conns' = [a \in Address |-> IF conns[a] = NoConn THEN NoConn
                                       ELSE [conns[a] EXCEPT !.closed = TRUE]]
        /\ UNCHANGED <<acceptQueue, handshaking, incoming, accepted>>
    BY <1>4 DEF FinishClose
  <2>2. ASSUME NEW b \in Address
        PROVE  /\ Places(b)' = Places(b)
               /\ (conns'[b] # NoConn) <=> (conns[b] # NoConn)
               /\ conns'[b] # NoConn => conns'[b].closed
    <3>1. Places(b)' = Places(b)
      BY <2>1 DEF Places
    <3>2. CASE conns[b] = NoConn
      BY <2>1, <3>1, <3>2
    <3>3. CASE conns[b] # NoConn
      <4>1. conns'[b] = [conns[b] EXCEPT !.closed = TRUE] /\ conns[b] \in Conn
        BY <2>1, <3>3 DEF TypeOK
      <4>2. conns'[b].closed
        BY <4>1 DEF Conn
      <4> QED BY <3>1, <3>3, <4>2 DEF NoConn
    <3> QED BY <3>2, <3>3
  <2> QED BY <2>2 DEF PlacedInv, Truth
<1>5. ASSUME NEW a \in Address, LoginSucceeds(a) PROVE PlacedInv'
  <2>1. /\ a \in handshaking /\ handshaking' = handshaking \ {a}
        /\ incoming' = Append(incoming, a)
        /\ UNCHANGED <<conns, acceptQueue, loop, accepted>>
    BY <1>5 DEF LoginSucceeds
  <2>2. ASSUME NEW b \in Address PROVE Places(b)' = Places(b)
    <3>1. Count(incoming', b) = Count(incoming, b) + Truth(b = a)
      BY <2>1, CountAppended DEF TypeOK
    <3>2. Truth(b \in handshaking) = Truth(b \in handshaking') + Truth(b = a)
      BY <2>1 DEF Truth
    <3>3. Truth(b = a) \in {0, 1} /\ Truth(b \in handshaking') \in {0, 1}
      BY DEF Truth
    <3> QED BY <2>1, <3>1, <3>2, <3>3, PlacesAre DEF Places
  <2> QED BY <2>1, <2>2, HandedOn
<1>6. ASSUME NEW a \in Address, LoginFails(a) PROVE PlacedInv'
  <2>1. /\ a \in handshaking /\ handshaking' = handshaking \ {a}
        /\ conns' = [conns EXCEPT ![a].closed = TRUE]
        /\ UNCHANGED <<acceptQueue, loop, incoming, accepted>>
    BY <1>6 DEF LoginFails
  <2>2. ASSUME NEW b \in Address PROVE Places(b)' = Places(b) - Truth(b = a)
    <3>1. Truth(b \in handshaking) = Truth(b \in handshaking') + Truth(b = a)
      BY <2>1 DEF Truth
    <3>2. Truth(b = a) \in {0, 1} /\ Truth(b \in handshaking') \in {0, 1}
      BY DEF Truth
    <3> QED BY <2>1, <3>1, <3>2, PlacesAre DEF Places
  <2>3. conns'[a].closed /\ \A b \in Address : b # a => conns'[b] = conns[b]
    BY <2>1 DEF TypeOK, Conn
  <2>4. conns'[a] # NoConn
    BY <2>3 DEF NoConn
  <2>5. Places(a)' <= 1
    BY <2>2, OnePlace, PlacesAre DEF Truth
  <2>6. \A b \in Address : b # a => Places(b)' = Places(b)
    BY <2>2, PlacesAre DEF Truth
  <2> QED BY <2>1, <2>3, <2>4, <2>5, <2>6 DEF PlacedInv, Truth
<1> QED BY <1>1, <1>2, <1>3, <1>4, <1>5, <1>6 DEF ListenerStep, Closing

LEMMA PlacedInit == Init => PlacedInv
<1> SUFFICES ASSUME Init, NEW a \in Address
             PROVE  Places(a) = 0 /\ conns[a] = NoConn
  BY DEF PlacedInv, Truth
<1> QED BY CountOfNone DEF Init, Places, Truth

LEMMA PlacedNext == ServedInv /\ PlacedInv /\ [Next]_vars => PlacedInv'
<1> SUFFICES ASSUME ServedInv, PlacedInv, [Next]_vars PROVE PlacedInv'
  OBVIOUS
<1>1. TypeOK /\ NetInv
  BY DEF ServedInv
<1>2. CASE NetworkStep
  BY <1>2, NetworkLeaves, NothingMoves
<1>3. CASE ListenerStep
  BY <1>1, <1>3, ListenerPlaces
<1>4. ASSUME NEW a \in Address, ClientStep(a) PROVE PlacedInv'
  BY <1>4, ClientLeaves, NothingMoves
<1>5. ASSUME NEW a \in Address, Handles(a) PROVE PlacedInv'
  BY <1>1, <1>5, ServerPlaces
<1>6. CASE UNCHANGED vars
  BY <1>6, NothingMoves DEF vars, server, listener
<1> QED BY <1>2, <1>3, <1>4, <1>5, <1>6, NextParts

\* Listener and RakNetListener: a connection is in one queue, one login or with the
\* application; in none only once it is closed; and close() closes them all.
THEOREM ConnectionsArePlaced == Spec => []NoConnectionForgotten
<1>1. PlacedInv => NoConnectionForgotten
  BY DEF PlacedInv, NoConnectionForgotten, Places
<1> QED BY <1>1, ServedInit, ServedNext, PlacedInit, PlacedNext, PTL DEF Spec

-----------------------------------------------------------------------------
(* Failing for a cause.                                                   *)

\* The datagrams of an address that are under way.
Mine(a) == {m \in net : m.addr = a}

\* One question and its answer: exactly one of them is there, under way or in the mailbox.
Turn(mine, box, question, answer) ==
    \/ \E m \in mine : mine = {m} /\ box = <<>> /\ m.kind \in {question, answer}
    \/ mine = {} /\ Len(box) = 1 /\ box[1].kind = answer

There(a) == conns[a] # NoConn

\* What an attempt may find at its step when nothing has gone wrong for it: a Request1 that
\* is too long for the path is the only datagram that does not arrive.
Clean(a) ==
    LET step == client[a].step IN
    /\ step # "failed"
    /\ step = "reply1" =>
          /\ ~There(a) /\ client[a].size \in 1..3
          /\ \/ Turn(Mine(a), mail[a], "Request1", "Reply1")
             \/ Mine(a) = {} /\ mail[a] = <<>> /\ mtu_sizes[client[a].size] > path
    /\ step = "reply2" =>
          /\ Turn(Mine(a), mail[a], "Request2", "Reply2") /\ ~conns[a].online
          /\ There(a) <=> \A m \in Mine(a) : m.kind = "Reply2"
    /\ step = "accepted" =>
          /\ There(a) /\ Turn(Mine(a), mail[a], "ConnectionRequest", "Accepted")
          /\ \A m \in Mine(a) : m.kind = "ConnectionRequest" => ~conns[a].online
    /\ step = "pong" => ~There(a) /\ Turn(Mine(a), mail[a], "Ping", "Pong")

CauseInv ==
    /\ loop # "running" => excused = Address
    /\ \A a \in Address : a \notin excused => Clean(a)

-----------------------------------------------------------------------------
(* What goes wrong.                                                        *)

\* The one of a question and its answer that is there.
LEMMA TurnIs ==
    ASSUME NEW mine, NEW box, NEW question, NEW answer, question # answer,
           Turn(mine, box, question, answer)
    PROVE  /\ \A m \in mine : mine = {m} /\ box = <<>> /\ m.kind \in {question, answer}
           /\ box # <<>> => mine = {} /\ Len(box) = 1 /\ box[1].kind = answer
           /\ mine # {} \/ box # <<>>
BY DEF Turn

LEMMA TurnTakes ==
    ASSUME NEW m, NEW question, NEW answer, m.kind \in {question, answer}
    PROVE  Turn({m}, <<>>, question, answer)
BY DEF Turn

LEMMA TurnArrives ==
    ASSUME NEW m \in Datagram, NEW answer, m.kind = answer, NEW question
    PROVE  Turn({}, Append(<<>>, m), question, answer)
<1>1. Append(<<>>, m) = <<m>> /\ Len(<<m>>) = 1 /\ <<m>>[1] = m
  OBVIOUS
<1>2. QED
  BY <1>1 DEF Turn

\* Nothing has happened to an attempt.
LEMMA CleanStays ==
    ASSUME NEW a, Clean(a), path' = path, client'[a] = client[a], mail'[a] = mail[a],
           Mine(a)' = Mine(a), (There(a)' <=> There(a)), conns'[a].online = conns[a].online
    PROVE  Clean(a)'
BY DEF Clean

\* A datagram arrives, and what is sent for it goes to the same address.
LEMMA ArrivesCause ==
    ASSUME NEW m \in net, NEW ms, \A r \in ms : r.addr = m.addr, Arrives(m, ms), NEW a,
           a \notin excused'
    PROVE  /\ a \notin excused /\ excused \subseteq excused'
           /\ m.addr # a => Mine(a)' = Mine(a)
           /\ m.addr = a => Mine(a)' = (Mine(a) \ {m}) \cup ms
BY DEF Arrives, Mine

\* So it is when a client sends.
LEMMA SendsCause ==
    ASSUME NEW b, NEW ms, \A r \in ms : r.addr = b, Sends(ms), NEW a
    PROVE  /\ a # b => Mine(a)' = Mine(a)
           /\ a = b => Mine(a)' = Mine(a) \cup {m \in ms : Fits(m)}
BY DEF Sends, Mine

\* A datagram that does not ask for a size is never too long.
LEMMA OneFits ==
    ASSUME NEW a, NEW kind, NEW mtu
    PROVE  /\ Of(a, kind, mtu).addr = a /\ Of(a, kind, mtu).kind = kind
           /\ kind # "Request1" => {m \in {Of(a, kind, mtu)} : Fits(m)} = {Of(a, kind, mtu)}
           /\ kind = "Request1" /\ mtu <= path =>
                 {m \in {Of(a, kind, mtu)} : Fits(m)} = {Of(a, kind, mtu)}
           /\ kind = "Request1" /\ ~(mtu <= path) => {m \in {Of(a, kind, mtu)} : Fits(m)} = {}
<1>1. Of(a, kind, mtu).addr = a /\ Of(a, kind, mtu).kind = kind /\ Of(a, kind, mtu).mtu = mtu
  BY DEF Of
<1>2. QED
  BY <1>1 DEF Fits

\* Once the listener has begun to close, everything is excused.
LEMMA LoopCause ==
    ASSUME TypeOK, CauseInv, [Next]_vars
    PROVE  loop' # "running" => excused' = Address
<1> SUFFICES ASSUME loop' # "running"
             PROVE  excused' = Address
  OBVIOUS
<1>1. CASE StartClose
  BY <1>1 DEF StartClose
<1>2. ASSUME loop = "running", loop' = loop
      PROVE  FALSE
  BY <1>2
<1>3. CASE NetworkStep
  <2>1. loop' = loop
    BY <1>3, NetworkLeaves
  <2>2. excused = Address
    BY <2>1 DEF CauseInv
  <2>3. excused \subseteq excused' /\ excused' \subseteq Address
    BY <1>3, <2>2 DEF NetworkStep, Lose, ClientReceives, Ignore, Arrives, TypeOK, Datagram
  <2>4. QED
    BY <2>2, <2>3
<1>4. CASE ListenerStep /\ ~StartClose
  <2>1. excused' = excused /\ (loop = "running" => loop' = "running")
    BY <1>4 DEF ListenerStep, AcceptLoop, Accept, Closing, LoopCancelled, FinishClose,
       LoginSucceeds, LoginFails, ListenerKeeps
  <2>2. QED
    BY <2>1 DEF CauseInv
<1>5. ASSUME NEW b \in Address, ClientStep(b)
      PROVE  excused' = Address
  <2>1. loop' = loop
    BY <1>5, ClientLeaves
  <2>2. excused = Address
    BY <2>1 DEF CauseInv
  <2>3. excused' = excused \cup {b} \/ excused' = excused
    BY <1>5, <2>1 DEF ClientStep, StartConnect, StartPing, Opens, Reads, ReadReply1, ReadReply2,
       ReadAccepted, ReadPong, Timeout, Late, Leave
  <2>4. QED
    BY <2>2, <2>3
<1>6. ASSUME NEW b \in Address, Handles(b)
      PROVE  excused' = Address
  <2>1. loop' = loop
    BY <1>6, ServerLeaves
  <2>2. excused = Address
    BY <2>1 DEF CauseInv
  <2>3. PICK m \in net : excused' = excused \/ excused' = excused \cup {m.addr}
    BY <1>6 DEF Handles, HandlePing, HandleRequest1, HandleRequest2, HandleConnectionRequest,
       HandleDisconnect, Arrives
  <2>4. m.addr \in Address
    BY DEF TypeOK, Datagram
  <2>5. QED
    BY <2>2, <2>3, <2>4
<1>7. CASE UNCHANGED vars
  BY <1>7 DEF vars, listener, CauseInv
<1>8. QED
  BY <1>1, <1>3, <1>4, <1>5, <1>6, <1>7, NextParts

-----------------------------------------------------------------------------
(* One step after the other.                                               *)

\* The network.
LEMMA NetworkCause ==
    ASSUME TypeOK, CauseInv, NetworkStep, NEW a \in Address, a \notin excused'
    PROVE  Clean(a)'
<1>1. UNCHANGED <<path, client, conns>>
  BY NetworkLeaves
<1>2. (There(a)' <=> There(a)) /\ conns'[a].online = conns[a].online /\ client'[a] = client[a]
  BY <1>1 DEF There
<1>3. ASSUME a \notin excused, Mine(a)' = Mine(a), mail'[a] = mail[a]
      PROVE  Clean(a)'
  BY <1>1, <1>2, <1>3, CleanStays DEF CauseInv
<1>4. CASE Lose
  <2>1. PICK m \in net : net' = net \ {m} /\ excused' = excused \cup {m.addr} /\ mail' = mail
    BY <1>4 DEF Lose, clients
  <2>2. Mine(a)' = Mine(a)
    BY <2>1 DEF Mine
  <2>3. QED
    BY <1>3, <2>1, <2>2
<1>5. CASE Ignore
  <2>1. PICK m \in net :
           /\ m.kind \in ToServer /\ net' = net \ {m} /\ excused' = excused /\ mail' = mail
           /\ \/ loop = "closed"
              \/ There(m.addr) = (m.kind \in {"Ping", "Request1", "Request2"})
    BY <1>5 DEF Ignore, ServerKeeps, clients, There
  <2>2. a \notin excused /\ Clean(a) /\ loop = "running"
    BY <2>1 DEF CauseInv
  <2>3. CASE m.addr # a
    <3>1. Mine(a)' = Mine(a)
      BY <2>1, <2>3 DEF Mine
    <3>2. QED
      BY <1>3, <2>1, <2>2, <3>1
  <2>4. CASE m.addr = a
    <3>1. m \in Mine(a) /\ Mine(a)' = Mine(a) \ {m}
      BY <2>1, <2>4 DEF Mine
    <3>2. There(a) <=> m.kind \in {"Ping", "Request1", "Request2"}
      BY <2>1, <2>2, <2>4
    <3>3. client[a].step \notin {"reply1", "reply2", "accepted", "pong"}
      BY <2>1, <2>2, <3>1, <3>2, TurnIs DEF Clean, ToServer
    <3>4. QED
      BY <1>1, <1>2, <2>2, <3>3 DEF Clean
  <2>5. QED
    BY <2>3, <2>4
<1>6. CASE ClientReceives
  <2>1. PICK m \in net :
           /\ m.kind \notin ToServer /\ Arrives(m, {})
           /\ mail' = IF client[m.addr].step \in Ended THEN mail
                      ELSE [mail EXCEPT ![m.addr] = Append(@, m)]
    BY <1>6 DEF ClientReceives
  <2>2. /\ a \notin excused
        /\ m.addr # a => Mine(a)' = Mine(a)
        /\ m.addr = a => Mine(a)' = Mine(a) \ {m}
    BY <2>1, ArrivesCause
  <2>3. Clean(a) /\ loop = "running" /\ mail \in [Address -> Seq(Datagram)] /\ m \in Datagram
    BY <2>2 DEF CauseInv, TypeOK
  <2>4. CASE m.addr # a
    <3>1. mail'[a] = mail[a]
      BY <2>1, <2>3, <2>4
    <3>2. QED
      BY <1>3, <2>2, <2>4, <3>1
  <2>5. CASE m.addr = a
    <3>1. m \in Mine(a) /\ Mine(a)' = Mine(a) \ {m}
      BY <2>2, <2>5 DEF Mine
    <3>2. CASE client[a].step \notin {"reply1", "reply2", "accepted", "pong"}
      BY <1>1, <1>2, <2>3, <3>2 DEF Clean
    <3>3. CASE client[a].step \in {"reply1", "reply2", "accepted", "pong"}
      <4>1. mail'[a] = Append(mail[a], m)
        BY <2>1, <2>3, <2>5, <3>3 DEF Ended
      <4>2. ASSUME NEW question \in ToServer, NEW answer \in Kind \ ToServer,
                   Turn(Mine(a), mail[a], question, answer)
            PROVE  /\ Turn(Mine(a)', mail'[a], question, answer)
                   /\ Mine(a) = {m} /\ m.kind = answer /\ Mine(a)' = {}
        <5>1. Mine(a) = {m} /\ mail[a] = <<>> /\ m.kind = answer
          BY <2>1, <3>1, <4>2, TurnIs
        <5>2. Mine(a)' = {} /\ mail'[a] = Append(<<>>, m)
          BY <3>1, <4>1, <5>1
        <5>3. QED
          BY <2>3, <5>1, <5>2, TurnArrives
      <4>3. ~(Mine(a) = {})
        BY <3>1
      <4>4. QED
        BY <1>1, <1>2, <2>3, <4>2, <4>3 DEF Clean, ToServer, Kind
    <3>4. QED
      BY <3>2, <3>3
  <2>6. QED
    BY <2>4, <2>5
<1>7. QED
  BY <1>4, <1>5, <1>6 DEF NetworkStep

\* A connection whose login runs is there.
LEMMA HandshakeThere ==
    ASSUME TypeOK, PlacedInv, NEW b \in handshaking
    PROVE  There(b)
<1>1. b \in Address
  BY DEF TypeOK
<1>2. Places(b) <= Truth(conns[b] # NoConn)
  BY <1>1 DEF PlacedInv
<1>3. Truth(b \in handshaking) = 1 /\ Truth(b \in accepted) \in {0, 1}
  BY DEF Truth
<1>4. Places(b) >= 1
  BY <1>1, <1>3, PlacesAre DEF Places
<1>5. QED
  BY <1>1, <1>2, <1>4, PlacesAre DEF Truth, There

\* One that is closed stays there, as online as it was.
LEMMA ClosedThere ==
    ASSUME NEW b \in Address, conns \in [Address -> Conn], There(b),
           conns' = [conns EXCEPT ![b].closed = TRUE], NEW a \in Address
    PROVE  (There(a)' <=> There(a)) /\ conns'[a].online = conns[a].online
<1>1. CASE a # b
  BY <1>1 DEF There
<1>2. CASE a = b
  <2>1. conns'[a] = [conns[a] EXCEPT !.closed = TRUE] /\ conns[a] \in Conn
    BY <1>2
  <2>2. conns'[a].closed = TRUE /\ conns'[a].online = conns[a].online
    BY <2>1 DEF Conn
  <2>3. NoConn.closed = FALSE
    BY DEF NoConn
  <2>4. There(a)' /\ There(a)
    BY <1>2, <2>2, <2>3 DEF There
  <2>5. QED
    BY <2>2, <2>4
<1>3. QED
  BY <1>1, <1>2

\* The Listener.
LEMMA ListenerCause ==
    ASSUME TypeOK, CauseInv, PlacedInv, ListenerStep, NEW a \in Address, a \notin excused'
    PROVE  Clean(a)'
<1>1. UNCHANGED <<path, net, client, mail>>
  BY ListenerLeaves
<1>2. Mine(a)' = Mine(a) /\ client'[a] = client[a] /\ mail'[a] = mail[a]
  BY <1>1 DEF Mine
<1>3. CASE StartClose
  BY <1>3 DEF StartClose
<1>4. CASE Closing
  BY <1>4 DEF Closing, LoopCancelled, FinishClose, ListenerKeeps, CauseInv
<1>5. CASE AcceptLoop \/ Accept \/ \E b \in Address : LoginSucceeds(b)
  <2>1. conns' = conns /\ excused' = excused
    BY <1>5 DEF AcceptLoop, Accept, LoginSucceeds, ListenerKeeps
  <2>2. (There(a)' <=> There(a)) /\ conns'[a].online = conns[a].online /\ Clean(a)
    BY <2>1 DEF There, CauseInv
  <2>3. QED
    BY <1>1, <1>2, <2>2, CleanStays
<1>6. ASSUME NEW b \in Address, LoginFails(b)
      PROVE  Clean(a)'
  <2>1. /\ b \in handshaking /\ conns' = [conns EXCEPT ![b].closed = TRUE]
        /\ excused' = excused
    BY <1>6 DEF LoginFails, ListenerKeeps
  <2>2. There(b)
    BY <2>1, HandshakeThere
  <2>3. conns \in [Address -> Conn] /\ Clean(a)
    BY <2>1 DEF TypeOK, CauseInv
  <2>4. (There(a)' <=> There(a)) /\ conns'[a].online = conns[a].online
    BY <2>1, <2>2, <2>3, ClosedThere
  <2>5. QED
    BY <1>1, <1>2, <2>3, <2>4, CleanStays
<1>7. QED
  BY <1>3, <1>4, <1>5, <1>6 DEF ListenerStep


\* What a datagram that is under way tells of the attempt.
LEMMA Whose ==
    ASSUME NEW a, Clean(a), NEW m \in Mine(a), NEW step, step = client[a].step
    PROVE  /\ step \in {"reply1", "reply2", "accepted", "pong"} =>
                 Mine(a) = {m} /\ mail[a] = <<>>
           /\ step = "reply1" =>
                 m.kind \in {"Request1", "Reply1"} /\ ~There(a) /\ client[a].size \in 1..3
           /\ step = "reply2" =>
                 m.kind \in {"Request2", "Reply2"} /\ ~conns[a].online
           /\ step = "accepted" =>
                 /\ There(a) /\ m.kind \in {"ConnectionRequest", "Accepted"}
                 /\ m.kind = "ConnectionRequest" => ~conns[a].online
           /\ step = "pong" => m.kind \in {"Ping", "Pong"} /\ ~There(a)
           /\ step # "failed"
<1>1. ~(Mine(a) = {})
  OBVIOUS
<1>2. step # "failed"
  BY DEF Clean
<1>3. ASSUME step = "reply1"
      PROVE  /\ Mine(a) = {m} /\ mail[a] = <<>>
             /\ m.kind \in {"Request1", "Reply1"} /\ ~There(a) /\ client[a].size \in 1..3
  BY <1>1, <1>3, TurnIs DEF Clean
<1>4. ASSUME step = "reply2"
      PROVE  /\ Mine(a) = {m} /\ mail[a] = <<>>
             /\ m.kind \in {"Request2", "Reply2"} /\ ~conns[a].online
  BY <1>4, TurnIs DEF Clean
<1>5. ASSUME step = "accepted"
      PROVE  /\ Mine(a) = {m} /\ mail[a] = <<>> /\ There(a)
             /\ m.kind \in {"ConnectionRequest", "Accepted"}
             /\ m.kind = "ConnectionRequest" => ~conns[a].online
  BY <1>5, TurnIs DEF Clean
<1>6. ASSUME step = "pong"
      PROVE  /\ Mine(a) = {m} /\ mail[a] = <<>>
             /\ m.kind \in {"Ping", "Pong"} /\ ~There(a)
  BY <1>6, TurnIs DEF Clean
<1>7. QED
  BY <1>2, <1>3, <1>4, <1>5, <1>6

\* The table of the listener.
LEMMA ServerCause ==
    ASSUME TypeOK, NetInv, CauseInv, NEW b \in Address, Handles(b), NEW a \in Address,
           a \notin excused'
    PROVE  Clean(a)'
<1>1. UNCHANGED <<path, client, mail>>
  BY ServerLeaves
<1>2. PICK m \in net, ms \in SUBSET Datagram :
         /\ m.addr = b /\ Arrives(m, ms) /\ \A r \in ms : r.addr = b
         /\ \A c \in Address : c # b => conns'[c] = conns[c]
         /\ \/ m.kind = "Ping" /\ ms = {Of(b, "Pong", 0)} /\ conns' = conns
            \/ /\ m.kind = "Request1" /\ ms = {Of(b, "Reply1", m.mtu)} /\ conns' = conns
            \/ /\ m.kind = "Request2"
               /\ \E mtu \in Mtu : /\ ms = {Of(b, "Reply2", mtu)}
                                   /\ conns' = [conns EXCEPT ![b] = [NoConn EXCEPT !.mtu = mtu]]
            \/ /\ m.kind = "ConnectionRequest" /\ conns' = [conns EXCEPT ![b].online = TRUE]
               /\ ~conns[b].online => ms = {Of(b, "Accepted", 0)}
            \/ m.kind = "Disconnect"
  <2>1. \A kind, mtu : Of(b, kind, mtu).addr = b
    BY DEF Of
  <2>2. CASE HandlePing(b)
    <3>1. {Of(b, "Pong", 0)} \in SUBSET Datagram
      BY Made DEF Kind
    <3>2. QED
      BY <2>1, <2>2, <3>1 DEF HandlePing, Takes, server
  <2>3. CASE HandleRequest1(b)
    <3>1. PICK n \in net : /\ Takes(b, "Request1", n) /\ conns' = conns
                           /\ Arrives(n, {Of(b, "Reply1", n.mtu)})
      BY <2>3 DEF HandleRequest1
    <3>2. {Of(b, "Reply1", n.mtu)} \in SUBSET Datagram
      BY <3>1, Made, SMTT(60) DEF Kind, TypeOK, Datagram
    <3>3. QED
      BY <2>1, <3>1, <3>2 DEF Takes
  <2>4. CASE HandleRequest2(b)
    <3>1. PICK n \in net :
             /\ Takes(b, "Request2", n)
             /\ conns' = [conns EXCEPT ![b] = [NoConn EXCEPT !.mtu = Smaller(Pending(b), n.mtu)]]
             /\ Arrives(n, {Of(b, "Reply2", Smaller(Pending(b), n.mtu))})
      BY <2>4 DEF HandleRequest2
    <3>2. Smaller(Pending(b), n.mtu) \in Mtu
      BY <3>1, PendingIs, SmallerIs, Request2Size DEF Takes
    <3>3. PICK mtu \in Mtu : /\ conns' = [conns EXCEPT ![b] = [NoConn EXCEPT !.mtu = mtu]]
                             /\ Arrives(n, {Of(b, "Reply2", mtu)})
      BY <3>1, <3>2
    <3>4. {Of(b, "Reply2", mtu)} \in SUBSET Datagram
      BY Made DEF Kind
    <3>5. \A c \in Address : c # b => conns'[c] = conns[c]
      BY <3>3 DEF TypeOK
    <3>6. n.addr = b /\ n.kind = "Request2" /\ \A r \in {Of(b, "Reply2", mtu)} : r.addr = b
      BY <2>1, <3>1 DEF Takes
    <3>7. QED
      BY <3>3, <3>4, <3>5, <3>6
  <2>5. CASE HandleConnectionRequest(b)
    <3>1. PICK n \in net :
             /\ Takes(b, "ConnectionRequest", n) /\ conns' = [conns EXCEPT ![b].online = TRUE]
             /\ Arrives(n, IF conns[b].online THEN {} ELSE {Of(b, "Accepted", 0)})
      BY <2>5 DEF HandleConnectionRequest
    <3>2. {Of(b, "Accepted", 0)} \in SUBSET Datagram
      BY Made DEF Kind
    <3>3. PICK ms \in SUBSET Datagram :
             /\ Arrives(n, ms) /\ \A r \in ms : r.addr = b
             /\ ~conns[b].online => ms = {Of(b, "Accepted", 0)}
      BY <2>1, <3>1, <3>2
    <3>4. \A c \in Address : c # b => conns'[c] = conns[c]
      BY <3>1 DEF TypeOK
    <3>5. QED
      BY <3>1, <3>3, <3>4 DEF Takes
  <2>6. CASE HandleDisconnect(b)
    <3>1. PICK n \in net : /\ Takes(b, "Disconnect", n) /\ Arrives(n, {})
                           /\ conns' = [conns EXCEPT ![b].closed = @ \/ conns[b].online]
      BY <2>6 DEF HandleDisconnect
    <3>2. \A c \in Address : c # b => conns'[c] = conns[c]
      BY <3>1 DEF TypeOK
    <3>3. {} \in SUBSET Datagram /\ \A r \in {} : r.addr = b
      OBVIOUS
    <3>4. QED
      BY <3>1, <3>2, <3>3 DEF Takes
  <2>7. QED
    BY <2>2, <2>3, <2>4, <2>5, <2>6 DEF Handles
<1>3. /\ a \notin excused
      /\ b # a => Mine(a)' = Mine(a)
      /\ b = a => Mine(a)' = (Mine(a) \ {m}) \cup ms
  BY <1>2, ArrivesCause
<1>4. Clean(a)
  BY <1>3 DEF CauseInv
<1>5. CASE a # b
  <2>1. (There(a)' <=> There(a)) /\ conns'[a].online = conns[a].online
    BY <1>2, <1>5 DEF There
  <2>2. QED
    BY <1>1, <1>3, <1>4, <1>5, <2>1, CleanStays
<1>6. CASE a = b
  <2> DEFINE step == client[a].step
  <2>1. m \in Mine(a) /\ client'[a] = client[a] /\ mail'[a] = mail[a] /\ path' = path
    BY <1>1, <1>2, <1>6 DEF Mine
  <2>2. CASE step \notin {"reply1", "reply2", "accepted", "pong"}
    BY <1>4, <2>1, <2>2 DEF Clean
  <2>3. ASSUME step \in {"reply1", "reply2", "accepted", "pong"}, NEW r, ms = {r}
        PROVE  Mine(a)' = {r} /\ mail'[a] = <<>>
    BY <1>3, <1>4, <1>6, <2>1, <2>3, Whose
  <2>4. CASE step = "reply1"
    <3>1. m.kind = "Request1" /\ ~There(a) /\ client[a].size \in 1..3
      BY <1>2, <1>4, <2>1, <2>4, Whose
    <3>2. ms = {Of(a, "Reply1", m.mtu)} /\ conns' = conns
      BY <1>2, <1>6, <3>1
    <3>3. Mine(a)' = {Of(a, "Reply1", m.mtu)} /\ mail'[a] = <<>>
      BY <2>3, <2>4, <3>2
    <3>4. Turn(Mine(a)', mail'[a], "Request1", "Reply1")
      BY <3>3, OneFits, TurnTakes
    <3>5. QED
      BY <2>1, <2>4, <3>1, <3>2, <3>4 DEF Clean, There
  <2>5. CASE step = "reply2"
    <3>1. m.kind = "Request2"
      BY <1>2, <1>4, <2>1, <2>5, Whose
    <3>2. PICK mtu \in Mtu : /\ ms = {Of(a, "Reply2", mtu)}
                             /\ conns' = [conns EXCEPT ![a] = [NoConn EXCEPT !.mtu = mtu]]
      BY <1>2, <1>6, <3>1
    <3>3. Mine(a)' = {Of(a, "Reply2", mtu)} /\ mail'[a] = <<>>
      BY <2>3, <2>5, <3>2
    <3>4. conns'[a].mtu = mtu /\ ~conns'[a].online
      BY <3>2 DEF NoConn, TypeOK
    <3>5. There(a)'
      BY <3>4 DEF There, NoConn, Mtu, MIN_MTU, MAX_MTU
    <3>6. Turn(Mine(a)', mail'[a], "Request2", "Reply2") /\ \A r \in Mine(a)' : r.kind = "Reply2"
      BY <3>3, OneFits, TurnTakes
    <3>7. QED
      BY <2>1, <2>5, <3>4, <3>5, <3>6 DEF Clean
  <2>6. CASE step = "accepted"
    <3>1. m.kind = "ConnectionRequest" /\ ~conns[a].online
      BY <1>2, <1>4, <2>1, <2>6, Whose
    <3>2. ms = {Of(a, "Accepted", 0)} /\ conns' = [conns EXCEPT ![a].online = TRUE]
      BY <1>2, <1>6, <3>1
    <3>3. Mine(a)' = {Of(a, "Accepted", 0)} /\ mail'[a] = <<>>
      BY <2>3, <2>6, <3>2
    <3>4. conns[a] \in Conn /\ conns'[a] = [conns[a] EXCEPT !.online = TRUE]
      BY <3>2 DEF TypeOK
    <3>5. conns'[a].online = TRUE /\ NoConn.online = FALSE
      BY <3>4 DEF Conn, NoConn
    <3>6. There(a)'
      BY <3>5 DEF There
    <3>7. /\ Turn(Mine(a)', mail'[a], "ConnectionRequest", "Accepted")
          /\ \A r \in Mine(a)' : r.kind = "Accepted"
      BY <3>3, OneFits, TurnTakes
    <3>8. QED
      BY <2>1, <2>6, <3>6, <3>7 DEF Clean
  <2>7. CASE step = "pong"
    <3>1. m.kind = "Ping" /\ ~There(a)
      BY <1>2, <1>4, <2>1, <2>7, Whose
    <3>2. ms = {Of(a, "Pong", 0)} /\ conns' = conns
      BY <1>2, <1>6, <3>1
    <3>3. Mine(a)' = {Of(a, "Pong", 0)} /\ mail'[a] = <<>>
      BY <2>3, <2>7, <3>2
    <3>4. Turn(Mine(a)', mail'[a], "Ping", "Pong")
      BY <3>3, OneFits, TurnTakes
    <3>5. QED
      BY <2>1, <2>7, <3>1, <3>2, <3>4 DEF Clean, There
  <2>8. QED
    BY <2>2, <2>4, <2>5, <2>6, <2>7
<1>7. QED
  BY <1>5, <1>6

\* A Request1 arrives, or it is too long.
LEMMA AsksCause ==
    ASSUME TypeOK, NEW a \in Address, NEW size \in 1..3, Mine(a) = {}, ~There(a),
           UNCHANGED <<path, conns>>, Sends({Of(a, "Request1", mtu_sizes[size])}),
           mail'[a] = <<>>, client'[a].step = "reply1", client'[a].size = size
    PROVE  Clean(a)'
<1> DEFINE r == Of(a, "Request1", mtu_sizes[size])
<1>1. r.addr = a /\ r.kind = "Request1"
  BY OneFits
<1>2. Mine(a)' = {m \in {r} : Fits(m)}
  BY <1>1, SendsCause
<1>3. mtu_sizes[size] \in Nat /\ path \in Nat
  BY SizesAre DEF TypeOK, Mtu, MIN_MTU, MAX_MTU
<1>4. CASE mtu_sizes[size] <= path
  <2>1. Mine(a)' = {r}
    BY <1>2, <1>4, OneFits
  <2>2. Turn(Mine(a)', mail'[a], "Request1", "Reply1")
    BY <1>1, <2>1, TurnTakes
  <2>3. QED
    BY <2>2 DEF Clean, There
<1>5. CASE ~(mtu_sizes[size] <= path)
  <2>1. Mine(a)' = {}
    BY <1>2, <1>5, OneFits
  <2>2. (mtu_sizes[size] > path)'
    BY <1>3, <1>5 DEF mtu_sizes, MIN_MTU, DEFAULT_MTU, MAX_MTU
  <2>3. QED
    BY <2>1, <2>2 DEF Clean, There
<1>6. QED
  BY <1>4, <1>5

\* A new attempt begins.
LEMMA OpensCause ==
    ASSUME TypeOK, NEW a \in Address, StartConnect(a) \/ StartPing(a), a \notin excused'
    PROVE  Clean(a)'
<1>1. UNCHANGED <<path, conns>>
  BY DEF StartConnect, StartPing, Opens, ClientKeeps, server
<1>2. ~There(a) /\ Mine(a) = {} /\ mail'[a] = <<>>
  BY DEF StartConnect, StartPing, Opens, There, UnderWay, Mine, TypeOK
<1>3. CASE StartConnect(a)
  <2>1. /\ client'[a].step = "reply1" /\ client'[a].size = 1
        /\ Sends({Of(a, "Request1", mtu_sizes[1])})
    BY <1>3 DEF StartConnect, Opens, TypeOK
  <2>2. QED
    BY <1>1, <1>2, <2>1, 1 \in 1..3, AsksCause
<1>4. CASE StartPing(a)
  <2>1. client'[a].step = "pong" /\ Sends({Of(a, "Ping", 0)})
    BY <1>4 DEF StartPing, Opens, TypeOK
  <2>2. Mine(a)' = {Of(a, "Ping", 0)}
    BY <1>2, <2>1, OneFits, SendsCause
  <2>3. Turn(Mine(a)', mail'[a], "Ping", "Pong")
    BY <1>2, <2>2, OneFits, TurnTakes
  <2>4. QED
    BY <1>1, <1>2, <2>1, <2>3 DEF Clean, There
<1>5. QED
  BY <1>3, <1>4

\* What was waited for is read.
LEMMA ReadsCause ==
    ASSUME TypeOK, NEW a \in Address, Clean(a), Reads(a)
    PROVE  Clean(a)'
<1> DEFINE step == client[a].step
           head == Head(mail[a])
<1>1. /\ mail[a] # <<>> /\ mail' = [mail EXCEPT ![a] = Tail(@)] /\ UNCHANGED <<path, conns>>
      /\ step \in {"reply1", "reply2", "accepted", "pong"}
  BY DEF Reads, ReadReply1, ReadReply2, ReadAccepted, ReadPong, ClientKeeps, server
<1>2. There(a)' <=> There(a)
  BY <1>1 DEF There
<1>3. ASSUME NEW question \in ToServer, NEW answer \in Kind \ ToServer,
             Turn(Mine(a), mail[a], question, answer)
      PROVE  Mine(a) = {} /\ head.kind = answer /\ mail'[a] = <<>>
  <2>1. Mine(a) = {} /\ Len(mail[a]) = 1 /\ mail[a][1].kind = answer
    BY <1>1, <1>3, TurnIs
  <2>2. mail[a] \in Seq(Datagram) /\ Tail(mail[a]) \in Seq(Datagram) /\ Len(Tail(mail[a])) = 0
        /\ head = mail[a][1]
    BY <1>1, <2>1, HeadIsMail DEF TypeOK
  <2>3. Tail(mail[a]) = <<>> /\ mail'[a] = Tail(mail[a])
    BY <1>1, <2>2, EmptySeq DEF TypeOK
  <2>4. QED
    BY <2>1, <2>2, <2>3
<1>4. CASE ReadReply1(a)
  <2>1. step = "reply1"
    BY <1>4 DEF ReadReply1
  <2>2. ~There(a) /\ Turn(Mine(a), mail[a], "Request1", "Reply1")
    BY <1>1, <2>1 DEF Clean
  <2>3. Mine(a) = {} /\ head.kind = "Reply1" /\ mail'[a] = <<>>
    BY <1>3, <2>2 DEF ToServer, Kind
  <2>4. client'[a].step = "reply2" /\ Sends({Of(a, "Request2", head.mtu)})
    BY <1>4, <2>3 DEF ReadReply1, TypeOK
  <2>5. Mine(a)' = {Of(a, "Request2", head.mtu)}
    BY <2>3, <2>4, OneFits, SendsCause
  <2>6. Turn(Mine(a)', mail'[a], "Request2", "Reply2") /\ ~(\A r \in Mine(a)' : r.kind = "Reply2")
    BY <2>3, <2>5, OneFits, TurnTakes
  <2>7. ~conns'[a].online
    BY <1>1, <2>2 DEF There, NoConn
  <2>8. QED
    BY <1>2, <2>2, <2>4, <2>6, <2>7 DEF Clean
<1>5. CASE ReadReply2(a)
  <2>1. step = "reply2"
    BY <1>5 DEF ReadReply2
  <2>2. /\ Turn(Mine(a), mail[a], "Request2", "Reply2") /\ ~conns[a].online
        /\ There(a) <=> \A m \in Mine(a) : m.kind = "Reply2"
    BY <2>1 DEF Clean
  <2>3. Mine(a) = {} /\ head.kind = "Reply2" /\ mail'[a] = <<>>
    BY <1>3, <2>2 DEF ToServer, Kind
  <2>4. There(a)
    BY <2>2, <2>3
  <2>5. client'[a].step = "accepted" /\ Sends({Of(a, "ConnectionRequest", 0)})
    BY <1>5, <2>3 DEF ReadReply2, TypeOK
  <2>6. Mine(a)' = {Of(a, "ConnectionRequest", 0)}
    BY <2>3, <2>5, OneFits, SendsCause
  <2>7. Turn(Mine(a)', mail'[a], "ConnectionRequest", "Accepted")
    BY <2>3, <2>6, OneFits, TurnTakes
  <2>8. QED
    BY <1>1, <1>2, <2>2, <2>4, <2>5, <2>7 DEF Clean
<1>6. CASE ReadAccepted(a)
  <2>1. step = "accepted"
    BY <1>6 DEF ReadAccepted
  <2>2. Turn(Mine(a), mail[a], "ConnectionRequest", "Accepted")
    BY <2>1 DEF Clean
  <2>3. head.kind = "Accepted"
    BY <1>3, <2>2 DEF ToServer, Kind
  <2>4. client'[a].step = "connected"
    BY <1>6, <2>3 DEF ReadAccepted, Goes, TypeOK
  <2>5. QED
    BY <2>4 DEF Clean
<1>7. CASE ReadPong(a)
  <2>1. step = "pong"
    BY <1>7 DEF ReadPong
  <2>2. Turn(Mine(a), mail[a], "Ping", "Pong")
    BY <2>1 DEF Clean
  <2>3. head.kind = "Pong"
    BY <1>3, <2>2 DEF ToServer, Kind
  <2>4. client'[a].step = "ponged"
    BY <1>7, <2>3 DEF ReadPong, Goes, TypeOK
  <2>5. QED
    BY <2>4 DEF Clean
<1>8. QED
  BY <1>4, <1>5, <1>6, <1>7 DEF Reads

\* A timer expires: only a Request1 that was too long has nothing under way.
LEMMA TimeoutCause ==
    ASSUME TypeOK, CauseInv, NEW a \in Address, Timeout(a), a \notin excused'
    PROVE  Clean(a)'
<1>1. /\ client[a].step \in {"reply1", "reply2", "accepted", "pong"} /\ mail[a] = <<>>
      /\ mail' = mail /\ UNCHANGED <<path, conns>>
  BY DEF Timeout, server
<1>2. Mine(a) = {} /\ excused' = excused
  BY DEF Timeout, Late, UnderWay, Mine
<1>3. Clean(a)
  BY <1>2 DEF CauseInv
<1>4. /\ client[a].step = "reply1" /\ ~There(a) /\ client[a].size \in 1..3
      /\ mtu_sizes[client[a].size] > path
  <2>1. \A question, answer : ~Turn(Mine(a), mail[a], question, answer)
    BY <1>1, <1>2 DEF Turn
  <2>2. QED
    BY <1>1, <1>3, <2>1 DEF Clean
<1>5. client[a].size \in 1..2
  BY <1>4 DEF mtu_sizes, MIN_MTU, DEFAULT_MTU, MAX_MTU, Mtu, TypeOK
<1>6. NextSize(a) /\ client[a].size < Len(mtu_sizes)
  BY <1>4, <1>5, SizesAre DEF Timeout
<1>7. /\ client'[a].step = "reply1" /\ client'[a].size = client[a].size + 1
      /\ Sends({Of(a, "Request1", mtu_sizes[client[a].size + 1])})
  BY <1>4, <1>6 DEF NextSize, TypeOK
<1>8. client[a].size + 1 \in 1..3 /\ mail'[a] = <<>>
  BY <1>1, <1>5
<1>9. QED
  BY <1>1, <1>2, <1>4, <1>7, <1>8, AsksCause

\* The client.
LEMMA ClientCause ==
    ASSUME TypeOK, CauseInv, NEW b \in Address, ClientStep(b), NEW a \in Address, a \notin excused'
    PROVE  Clean(a)'
<1>1. UNCHANGED <<path, conns, loop>>
  BY ClientLeaves
<1>2. CASE a # b
  <2>1. /\ a \notin excused /\ client'[a] = client[a] /\ mail'[a] = mail[a]
    BY <1>2 DEF ClientStep, StartConnect, StartPing, Opens, Reads, ReadReply1, ReadReply2,
       ReadAccepted, ReadPong, Timeout, Late, Leave, Goes, NextSize, TypeOK
  <2>2. net' = net \/ \E kind, mtu : Sends({Of(b, kind, mtu)})
    <3>1. CASE StartConnect(b) \/ StartPing(b)
      BY <3>1 DEF StartConnect, StartPing, Opens
    <3>2. CASE Leave(b)
      BY <3>2 DEF Leave
    <3>3. CASE ReadReply1(b) \/ ReadReply2(b)
      BY <3>3 DEF ReadReply1, ReadReply2, NextSize
    <3>4. CASE ReadAccepted(b) \/ ReadPong(b) \/ Timeout(b)
      BY <3>4 DEF ReadAccepted, ReadPong, Timeout, NextSize
    <3>5. QED
      BY <3>1, <3>2, <3>3, <3>4 DEF ClientStep, Reads
  <2>3. Mine(a)' = Mine(a)
    <3>1. CASE net' = net
      BY <3>1 DEF Mine
    <3>2. ASSUME NEW kind, NEW mtu, Sends({Of(b, kind, mtu)})
          PROVE  Mine(a)' = Mine(a)
      <4>1. \A r \in {Of(b, kind, mtu)} : r.addr = b
        BY OneFits
      <4>2. QED
        BY <1>2, <3>2, <4>1, SendsCause
    <3>3. QED
      BY <2>2, <3>1, <3>2
  <2>4. Clean(a) /\ (There(a)' <=> There(a)) /\ conns'[a].online = conns[a].online
    BY <1>1, <2>1 DEF There, CauseInv
  <2>5. QED
    BY <1>1, <2>1, <2>3, <2>4, CleanStays
<1>3. CASE a = b
  <2>1. CASE StartConnect(a) \/ StartPing(a)
    BY <2>1, OpensCause
  <2>2. CASE Reads(a)
    <3>1. Clean(a)
      BY <2>2 DEF Reads, ReadReply1, ReadReply2, ReadAccepted, ReadPong, CauseInv
    <3>2. QED
      BY <2>2, <3>1, ReadsCause
  <2>3. CASE Timeout(a)
    BY <2>3, TimeoutCause
  <2>4. CASE Leave(a)
    <3>1. client'[a].step = "left"
      BY <2>4 DEF Leave, Goes, TypeOK
    <3>2. QED
      BY <3>1 DEF Clean
  <2>5. QED
    BY <1>3, <2>1, <2>2, <2>3, <2>4 DEF ClientStep
<1>4. QED
  BY <1>2, <1>3

LEMMA CauseInit == Init => CauseInv
<1> SUFFICES ASSUME Init PROVE CauseInv
  OBVIOUS
<1>1. loop = "running" /\ \A a \in Address : client[a].step = "idle"
  BY DEF Init
<1>2. QED
  BY <1>1 DEF CauseInv, Clean

LEMMA CauseNext == ServedInv /\ PlacedInv /\ CauseInv /\ [Next]_vars => CauseInv'
<1> SUFFICES ASSUME ServedInv, PlacedInv, CauseInv, [Next]_vars
             PROVE  CauseInv'
  OBVIOUS
<1>1. TypeOK /\ NetInv
  BY DEF ServedInv
<1>2. loop' # "running" => excused' = Address
  BY <1>1, LoopCause
<1>3. ASSUME NEW a \in Address, a \notin excused'
      PROVE  Clean(a)'
  <2>1. CASE UNCHANGED vars
    <3>1. UNCHANGED <<path, net, client, mail, conns, excused>>
      BY <2>1 DEF vars, clients, server
    <3>2. Mine(a)' = Mine(a) /\ (There(a)' <=> There(a)) /\ Clean(a)
      BY <1>3, <3>1 DEF Mine, There, CauseInv
    <3>3. QED
      BY <3>1, <3>2, CleanStays
  <2>2. CASE Next
    BY <1>1, <1>3, <2>2, NextParts, NetworkCause, ListenerCause, ClientCause, ServerCause
  <2>3. QED
    BY <2>1, <2>2
<1>4. QED
  BY <1>2, <1>3 DEF CauseInv

\* connect() and ping() fail only for a cause: a datagram that was lost, repeated or late, the
\* end of the listener, or a connection of an earlier socket of the address.
THEOREM FailsOnlyForCause == Spec => []FailsForCause
<1>1. CauseInv => FailsForCause
  BY DEF CauseInv, FailsForCause, Clean
<1>2. QED
  BY <1>1, ServedInit, ServedNext, PlacedInit, PlacedNext, CauseInit, CauseNext, PTL DEF Spec

=============================================================================
