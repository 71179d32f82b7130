--------------------------- MODULE RakNetListener ---------------------------
(***************************************************************************)
(* How a client gets to a server (raknet/network.py, listener.py): the     *)
(* offline handshake of RakNetNetwork.connect, RakNetNetwork.ping, the     *)
(* table of the RakNetListener, and the Listener that takes connections    *)
(* from it, runs the login of each in a task of its own and hands them to  *)
(* accept().  What follows on a connection is in RakNetChannel, Connection *)
(* and LoginHandshake.                                                     *)
(*                                                                         *)
(* UDP loses, repeats and delays datagrams, and those too long for the     *)
(* path never arrive.  An address is a host and a port: sockets come and   *)
(* go, and one may get the port of an earlier one.                         *)
(***************************************************************************)
EXTENDS Integers, Sequences, SequencesExt, FiniteSets

CONSTANTS
    Address,     \* the addresses clients have
    LifeBound,   \* sockets opened at each address
    FaultBound   \* datagrams lost, delivered twice, or late for a timeout

ASSUME BoundsAssumption == LifeBound \in Nat /\ FaultBound \in Nat

MIN_MTU == 1
DEFAULT_MTU == 2
MAX_MTU == 3
Mtu == MIN_MTU..MAX_MTU

\* Mutant: the shortest is left out.
TwoSizes == <<MAX_MTU, DEFAULT_MTU>>
mtu_sizes == <<MAX_MTU, DEFAULT_MTU, MIN_MTU>>

VARIABLES
    path,         \* the longest datagram the path carries
    net,          \* datagrams under way
    faults,       \* datagrams lost, delivered twice or late
    client,       \* what connect() or ping() is waiting for at each address
    mail,         \* RakNetClientProtocol._recv_queue
    conns,        \* RakNetListener._connections
    pending,      \* RakNetListener._pending
    acceptQueue,  \* RakNetListener._accept_queue
    loop,         \* Listener._accept_loop and, after it, Listener.close()
    handshaking,  \* connections whose _handle_connection is running
    incoming,     \* Listener._incoming
    accepted,     \* connections the application has got
    excused       \* attempts that something has gone wrong for that no client can help

clients == <<client, mail>>
server == <<conns, pending, acceptQueue>>
listener == <<loop, handshaking, incoming, accepted>>
vars == <<path, net, faults, clients, server, listener, excused>>

Kind == {"Request1", "Reply1", "Request2", "Reply2", "ConnectionRequest", "Accepted",
         "Ping", "Pong", "Disconnect"}
ToServer == {"Request1", "Request2", "ConnectionRequest", "Ping", "Disconnect"}

\* mtu is 0 where the datagram does not carry one.
Datagram == [addr : Address, kind : Kind, mtu : Mtu \cup {0}]
Of(a, kind, mtu) == [addr |-> a, kind |-> kind, mtu |-> mtu]

Ended == {"idle", "failed", "left", "ponged"}
NoConn == [mtu |-> 0, online |-> FALSE, closed |-> FALSE]

\* A padded Request1 is as long as the MTU it asks for.
Fits(m) == m.kind = "Request1" => m.mtu <= path
Sends(ms) == net' = net \cup {m \in ms : Fits(m)}
UnderWay(a) == \E m \in net : m.addr = a

Init ==
    /\ path \in Mtu
    /\ net = {} /\ faults = 0
    /\ client = [a \in Address |-> [step |-> "idle", life |-> 0, size |-> 0, mtu |-> 0]]
    /\ mail = [a \in Address |-> <<>>]
    /\ conns = [a \in Address |-> NoConn]
    /\ pending = [a \in Address |-> 0]
    /\ acceptQueue = <<>> /\ incoming = <<>>
    /\ loop = "running" /\ handshaking = {} /\ accepted = {}
    /\ excused = {}

-----------------------------------------------------------------------------
(* UDP.                                                                    *)

Lose ==
    /\ faults < FaultBound /\ faults' = faults + 1
    /\ \E m \in net : net' = net \ {m} /\ excused' = excused \cup {m.addr}
    /\ UNCHANGED <<path, clients, server, listener>>

\* m arrives and ms are sent; the network may keep a copy of m.
Arrives(m, ms) ==
    \/ net' = (net \ {m}) \cup ms /\ UNCHANGED <<faults, excused>>
    \/ /\ faults < FaultBound /\ faults' = faults + 1
       /\ net' = net \cup ms
       /\ excused' = excused \cup {m.addr}

\* datagram_received of the client, or nobody: a closed socket.
ClientReceives ==
    \E m \in net :
        /\ m.kind \notin ToServer
        /\ Arrives(m, {})
        /\ mail' = IF client[m.addr].step \in Ended THEN mail
                   ELSE [mail EXCEPT ![m.addr] = Append(@, m)]
        /\ UNCHANGED <<path, client, server, listener>>

-----------------------------------------------------------------------------
(* RakNetNetwork: connect and ping.                                        *)

ClientKeeps == UNCHANGED <<path, faults, server, listener>>

\* create_datagram_endpoint and the first datagram.
Opens(a, step, size, ms) ==
    /\ client[a].step \in Ended /\ client[a].life < LifeBound
    /\ client' = [client EXCEPT ![a] =
                    [step |-> step, life |-> @.life + 1, size |-> size, mtu |-> DEFAULT_MTU]]
    /\ mail' = [mail EXCEPT ![a] = <<>>]
    /\ Sends(ms)
    /\ excused' = IF conns[a] # NoConn \/ loop # "running" \/ UnderWay(a)
                  THEN excused \cup {a} ELSE excused \ {a}
    /\ ClientKeeps

StartConnect(a) == Opens(a, "reply1", 1, {Of(a, "Request1", mtu_sizes[1])})
StartPing(a) == Opens(a, "pong", 0, {Of(a, "Ping", 0)})

Goes(a, step) == client' = [client EXCEPT ![a].step = step]

\* Request1 once more, shorter; after the shortest, no more.
NextSize(a) ==
    IF client[a].size < Len(mtu_sizes)
    THEN /\ client' = [client EXCEPT ![a].size = @ + 1]
         /\ Sends({Of(a, "Request1", mtu_sizes[client[a].size + 1])})
    ELSE Goes(a, "failed") /\ UNCHANGED net

\* _offline_handshake: a reply that is not Reply1 costs a size as a timeout does.
ReadReply1(a) ==
    /\ client[a].step = "reply1" /\ mail[a] # <<>>
    /\ mail' = [mail EXCEPT ![a] = Tail(@)]
    /\ LET m == Head(mail[a]) IN
       IF m.kind # "Reply1" THEN NextSize(a)
       ELSE /\ client' = [client EXCEPT ![a].step = "reply2", ![a].mtu = m.mtu]
            /\ Sends({Of(a, "Request2", m.mtu)})
    /\ UNCHANGED excused /\ ClientKeeps

\* One that is not Reply2 ends connect(): the answer to an earlier Request1 does.
ReadReply2(a) ==
    /\ client[a].step = "reply2" /\ mail[a] # <<>>
    /\ mail' = [mail EXCEPT ![a] = Tail(@)]
    /\ LET m == Head(mail[a]) IN
       IF m.kind # "Reply2" THEN Goes(a, "failed") /\ UNCHANGED net
       ELSE /\ client' = [client EXCEPT ![a].step = "accepted", ![a].mtu = m.mtu]
            /\ Sends({Of(a, "ConnectionRequest", 0)})
    /\ UNCHANGED excused /\ ClientKeeps

\* _recv_loop: other kinds are logged and dropped.
ReadAccepted(a) ==
    /\ client[a].step = "accepted" /\ mail[a] # <<>>
    /\ mail' = [mail EXCEPT ![a] = Tail(@)]
    /\ Goes(a, IF Head(mail[a]).kind = "Accepted" THEN "connected" ELSE "accepted")
    /\ UNCHANGED <<net, excused>> /\ ClientKeeps

ReadPong(a) ==
    /\ client[a].step = "pong" /\ mail[a] # <<>>
    /\ mail' = [mail EXCEPT ![a] = Tail(@)]
    /\ Goes(a, IF Head(mail[a]).kind = "Pong" THEN "ponged" ELSE "failed")
    /\ UNCHANGED <<net, excused>> /\ ClientKeeps

\* A timeout before all that is under way has arrived is a fault of the network.
Late(a) ==
    IF UnderWay(a)
    THEN faults < FaultBound /\ faults' = faults + 1 /\ excused' = excused \cup {a}
    ELSE UNCHANGED <<faults, excused>>

\* Mutant: nothing limits the wait for ConnectionRequestAccepted.
TimeoutOffline(a) ==
    /\ client[a].step \in {"reply1", "reply2", "pong"} /\ mail[a] = <<>>
    /\ IF client[a].step = "reply1" THEN NextSize(a) ELSE Goes(a, "failed") /\ UNCHANGED net
    /\ Late(a)
    /\ UNCHANGED <<path, mail, server, listener>>

\* wait_for: 3 s for Reply1, 5 s for the others.  The network may be slower.
Timeout(a) ==
    /\ client[a].step \in {"reply1", "reply2", "accepted", "pong"} /\ mail[a] = <<>>
    /\ IF client[a].step = "reply1" THEN NextSize(a) ELSE Goes(a, "failed") /\ UNCHANGED net
    /\ Late(a)
    /\ UNCHANGED <<path, mail, server, listener>>

\* RakNetClientConnection.close.
Leave(a) ==
    /\ client[a].step = "connected" /\ Goes(a, "left")
    /\ Sends({Of(a, "Disconnect", 0)})
    /\ UNCHANGED <<mail, excused>> /\ ClientKeeps

-----------------------------------------------------------------------------
(* RakNetListener._handle_datagram: an address in the table goes to its    *)
(* connection, closed or not, and offline packets of it are ignored there. *)

Takes(a, kind, m) ==
    /\ m \in net /\ m.addr = a /\ m.kind = kind
    /\ loop # "closed"

ServerKeeps == UNCHANGED <<path, clients, listener>>

HandlePing(a) ==
    \E m \in net :
        /\ Takes(a, "Ping", m) /\ conns[a] = NoConn
        /\ Arrives(m, {Of(a, "Pong", 0)})
        /\ UNCHANGED server /\ ServerKeeps

HandleRequest1(a) ==
    \E m \in net :
        /\ Takes(a, "Request1", m) /\ conns[a] = NoConn
        /\ pending' = [pending EXCEPT ![a] = m.mtu]
        /\ Arrives(m, {Of(a, "Reply1", m.mtu)})
        /\ UNCHANGED <<conns, acceptQueue>> /\ ServerKeeps

Smaller(m, n) == IF m < n THEN m ELSE n
Pending(a) == IF pending[a] = 0 THEN DEFAULT_MTU ELSE pending[a]

\* Mutant: the answer repeats the client's MTU, the connection gets the listener's.
HandleRequest2Unsettled(a) ==
    \E m \in net :
        /\ Takes(a, "Request2", m) /\ conns[a] = NoConn
        /\ pending' = [pending EXCEPT ![a] = 0]
        /\ conns' = [conns EXCEPT ![a] = [NoConn EXCEPT !.mtu = Pending(a)]]
        /\ acceptQueue' = Append(acceptQueue, a)
        /\ Arrives(m, {Of(a, "Reply2", m.mtu)})
        /\ ServerKeeps

HandleRequest2(a) ==
    \E m \in net :
        /\ Takes(a, "Request2", m) /\ conns[a] = NoConn
        /\ LET mtu == Smaller(Pending(a), m.mtu) IN
           /\ conns' = [conns EXCEPT ![a] = [NoConn EXCEPT !.mtu = mtu]]
           /\ Arrives(m, {Of(a, "Reply2", mtu)})
        /\ pending' = [pending EXCEPT ![a] = 0]
        /\ acceptQueue' = Append(acceptQueue, a)
        /\ ServerKeeps

\* The first frame set of a connection; the second client at an address starts
\* with the same numbers, and its frames are taken for repeated ones.
HandleConnectionRequest(a) ==
    \E m \in net :
        /\ Takes(a, "ConnectionRequest", m) /\ conns[a] # NoConn
        /\ conns' = [conns EXCEPT ![a].online = TRUE]
        /\ Arrives(m, IF conns[a].online THEN {} ELSE {Of(a, "Accepted", 0)})
        /\ UNCHANGED <<pending, acceptQueue>> /\ ServerKeeps

HandleDisconnect(a) ==
    \E m \in net :
        /\ Takes(a, "Disconnect", m) /\ conns[a] # NoConn
        /\ conns' = [conns EXCEPT ![a].closed = @ \/ conns[a].online]
        /\ Arrives(m, {})
        /\ UNCHANGED <<pending, acceptQueue>> /\ ServerKeeps

\* What nobody handles: offline packets of a connection, online packets without
\* one, and everything once the socket is closed.
Ignore ==
    \E m \in net :
        /\ m.kind \in ToServer
        /\ \/ loop = "closed"
           \/ (conns[m.addr] # NoConn) = (m.kind \in {"Ping", "Request1", "Request2"})
        /\ net' = net \ {m}
        /\ UNCHANGED <<faults, excused, server>> /\ ServerKeeps

-----------------------------------------------------------------------------
(* Listener.                                                               *)

ListenerKeeps == UNCHANGED <<path, net, faults, clients, pending, excused>>

\* _accept_loop: accept() and a task for the login.
AcceptLoop ==
    /\ loop = "running" /\ acceptQueue # <<>>
    /\ handshaking' = handshaking \cup {Head(acceptQueue)}
    /\ acceptQueue' = Tail(acceptQueue)
    /\ UNCHANGED <<conns, loop, incoming, accepted>> /\ ListenerKeeps

\* _server_handshake has read all that it waits for, from a client that may have left since,
\* on a connection that may have been closed since.
LoginSucceeds(a) ==
    /\ a \in handshaking /\ conns[a].online
    /\ handshaking' = handshaking \ {a}
    /\ incoming' = Append(incoming, a)
    /\ UNCHANGED <<conns, acceptQueue, loop, accepted>> /\ ListenerKeeps

\* An error or a timeout of _server_handshake: the connection is closed.  The Disconnect that
\* tells the client is in LoginHandshake.
LoginFails(a) ==
    /\ a \in handshaking
    /\ handshaking' = handshaking \ {a}
    /\ conns' = [conns EXCEPT ![a].closed = TRUE]
    /\ UNCHANGED <<acceptQueue, loop, incoming, accepted>> /\ ListenerKeeps

Accept ==
    /\ incoming # <<>>
    /\ accepted' = accepted \cup {Head(incoming)}
    /\ incoming' = Tail(incoming)
    /\ UNCHANGED <<conns, acceptQueue, loop, handshaking>> /\ ListenerKeeps

\* close(): _accept_task.cancel(), and the loop is awaited.
StartClose ==
    /\ loop = "running" /\ loop' = "cancelled"
    /\ excused' = Address
    /\ UNCHANGED <<path, net, faults, clients, server, handshaking, incoming, accepted>>

\* Mutant: the cancelled loop takes the connection its queue has just given it along.
LoopCancelledTaking ==
    /\ loop = "cancelled" /\ loop' = "ended"
    /\ acceptQueue' = IF acceptQueue = <<>> THEN <<>> ELSE Tail(acceptQueue)
    /\ UNCHANGED <<conns, handshaking, incoming, accepted>> /\ ListenerKeeps

\* CancelledError in the loop: a connection in the queue stays there.
LoopCancelled ==
    /\ loop = "cancelled" /\ loop' = "ended"
    /\ UNCHANGED <<conns, acceptQueue, handshaking, incoming, accepted>> /\ ListenerKeeps

\* RakNetListener.close: every connection of the table, then the socket.
FinishClose ==
    /\ loop = "ended" /\ loop' = "closed"
    /\ conns' = [a \in Address |-> IF conns[a] = NoConn THEN NoConn
                                   ELSE [conns[a] EXCEPT !.closed = TRUE]]
    /\ UNCHANGED <<acceptQueue, handshaking, incoming, accepted>> /\ ListenerKeeps

-----------------------------------------------------------------------------

Reads(a) == ReadReply1(a) \/ ReadReply2(a) \/ ReadAccepted(a) \/ ReadPong(a)
Handles(a) ==
    HandlePing(a) \/ HandleRequest1(a) \/ HandleRequest2(a) \/ HandleConnectionRequest(a)
    \/ HandleDisconnect(a)
Closing == LoopCancelled \/ FinishClose

Next ==
    \/ Lose \/ ClientReceives \/ Ignore \/ AcceptLoop \/ Accept \/ StartClose \/ Closing
    \/ \E a \in Address :
          \/ StartConnect(a) \/ StartPing(a) \/ Reads(a) \/ Timeout(a) \/ Leave(a)
          \/ Handles(a) \/ LoginSucceeds(a) \/ LoginFails(a)

Spec == Init /\ [][Next]_vars

\* Tasks run, timers expire, and a datagram arrives or is lost; nobody has to connect, to accept or to close.
Fairness ==
    /\ WF_vars(AcceptLoop) /\ WF_vars(Closing)
    /\ WF_vars(ClientReceives) /\ WF_vars(Ignore)
    /\ \A a \in Address : /\ WF_vars(Reads(a)) /\ WF_vars(Handles(a))
                          /\ WF_vars(Timeout(a)) /\ WF_vars(LoginFails(a))

FairSpec == Spec /\ Fairness

-----------------------------------------------------------------------------
(* Properties.                                                             *)

Step == {"idle", "reply1", "reply2", "accepted", "connected", "pong", "ponged", "failed", "left"}
Conn == [mtu : Mtu \cup {0}, online : BOOLEAN, closed : BOOLEAN]

\* Types of the variables.
TypeOK ==
    /\ path \in Mtu /\ net \subseteq Datagram
    /\ faults \in 0..FaultBound
    /\ client \in [Address -> [step : Step, life : 0..LifeBound, size : 0..Len(mtu_sizes),
                               mtu : Mtu \cup {0}]]
    /\ mail \in [Address -> Seq(Datagram)]
    /\ conns \in [Address -> Conn] /\ pending \in [Address -> Mtu \cup {0}]
    /\ acceptQueue \in Seq(Address) /\ incoming \in Seq(Address)
    /\ loop \in {"running", "cancelled", "ended", "closed"}
    /\ handshaking \subseteq Address /\ accepted \subseteq Address /\ excused \subseteq Address

\* Whatever is lost, repeated or late, a client that connect() has returned to is in the
\* listener's table, has been answered by that connection, and both cut their
\* frames to one size, which the path carries.
ConnectedIsServed ==
    \A a \in Address : client[a].step = "connected" =>
        /\ conns[a].online
        /\ conns[a].mtu = client[a].mtu /\ client[a].mtu <= path

\* connect() and ping() fail only because a datagram was lost, repeated or late, the
\* listener has closed, or the table still holds a connection of an earlier socket of that
\* address: the sizes that are tried reach every path.
FailsForCause == \A a \in Address : client[a].step = "failed" => a \in excused

Count(s, a) == Cardinality({i \in DOMAIN s : s[i] = a})
Truth(b) == IF b THEN 1 ELSE 0

\* A connection is always in one place: the queue of the network, its login, the queue
\* of the application, the application.  One that is in none has been closed, and once the
\* listener is closed all are, those its close() found in a queue or in a login included.
NoConnectionForgotten ==
    \A a \in Address :
        LET places == Count(acceptQueue, a) + Count(incoming, a)
                        + Truth(a \in handshaking) + Truth(a \in accepted)
        IN /\ places <= Truth(conns[a] # NoConn)
           /\ conns[a] # NoConn /\ ~conns[a].closed => places = 1 /\ loop # "closed"

\* connect() and ping() return, whatever the network does, and so does every login of
\* the listener, also of a client that has gone and after close().
AttemptsEnd ==
    \A a \in Address :
        /\ client[a].step \in {"reply1", "reply2", "accepted", "pong"}
              ~> client[a].step \in {"connected", "ponged", "failed"}
        /\ a \in handshaking ~> a \notin handshaking
=============================================================================
