# mcbe in TLA+

Specifications of [mcbe](../src), a Python library that speaks the Minecraft
Bedrock protocol: models of its components in TLA+, instances of them that TLC
checks, and theorems that the TLA+ proof system checks for every value of the
constants. Paths below are relative to `src/` of the repository, and
`src/mcbe/` is left out in front of module names.

## The system

An application dials a server or listens for clients. A `Connection` reads and
writes packets over a *transport*: RakNet (UDP), NetherNet (WebRTC data
channels) or TCP.

    application
      | write_packet / read_packet / flush / close
    Dialer, Listener            login handshake            dial.py, listener.py
      |
    Connection                  buffers, batches, loops    conn.py
      |  encryption, batches                               proto/encryption.py, proto/pool.py
      |
    RakNet | NetherNet | TCP    transports                 raknet/, nethernet/, network.py
      |
    UDP    | WebRTC + signaling web socket

Everything runs on one asyncio event loop, except the callbacks of
libdatachannel, which run in its own threads. So the interleavings that matter
are those of messages with each other, of tasks at their `await`s, and of
timeouts and cancellations with what they were waiting for.

| Component | State | Operations | What makes it correct |
|---|---|---|---|
| RakNet reliability layer, `raknet/connection.py` | counters, `_recovery`, `_ack_queue`, `_nack_queue`, `_fragments`, `_ordered_queue`, read index, `_closed`, game packets | `_send_frame`, `handle_datagram`, tick, `read_packet`, `write_packet`, `close` | every payload processed whole, once, in order; gaps repaired; a close reaches the peer |
| RakNet wire protocol, `raknet/protocol.py` | none | encode and decode frames, frame sets, ACKs, NACKs | decoding inverts encoding within the widths |
| RakNet handshake, listener, ping, `raknet/network.py` | the client's receive queue; the listener's `_connections`, `_pending`, accept queue | `connect`, `ping`, `listen`, `accept`, requests 1 and 2, `close` | a connection on one side has one on the other; a failed attempt leaves nothing behind |
| Connection, `conn.py` | send buffer, receive queue, `_closed`, `_close_event`, two tasks, compression and encryption | `write_packet`, `flush`, `read_packet`, `close`, flush and read loops | no packet lost or overtaken between the buffer and the transport; queued packets first, then an error; nobody waits forever after the end |
| Encryption, `proto/encryption.py` | key stream position and packet counter of each direction | `encrypt`, `decrypt_and_verify` | both ends at the same position |
| Batches and pools, `proto/pool.py` | none | encode and decode batches | inverse of each other, limits |
| Dialer and Listener, `dial.py`, `listener.py` | the step of the handshake, the accept queue | the login sequence | both ends turn compression and encryption on between the same two packets; the handshake ends |
| NetherNet, `nethernet/` | segment buffer, packet queue, peer connection, signaling queues and pending calls | `connect` with retries, `signal`, `receive`, callbacks, `close` | packets reassembled; a late answer never joins another offer; every waiter woken |
| Authentication, Realms, query | token cache, sessions | HTTP requests with fallbacks and retries | a valid token is never refreshed; retries end |
| Codecs: NBT, chunks, `proto/io.py`, packet definitions, text, resource packs | none | encode, decode | inverse of each other |

`PROJECT.json` lists each component with what is and is not modelled, and the
hazards: the places in this code where a test would hardly reach, with the
properties that would notice.

## Modules

| Module | What it is |
|---|---|
| `OrderedChannel` | What a transport promises: in each direction a queue |
| `PacketStream` | What a `Connection` promises the application: reading, with an end, and writing |
| `RakNetChannel` | The reliability layer: a client connection, the server connection made for it, and the network between them |
| `RakNetListener` | How a client gets there: the offline handshake, ping, the listener's table, the `Listener` that logs clients in and hands them to `accept()` |
| `NetherNetConn` | A connection over a WebRTC data channel: segments, callbacks, close |
| `NetherNetNetwork` | How that connection comes about: attempts, signaling; composed with `NetherNetConn` |
| `Connection` | `conn.py` over the end of a transport of any of the three kinds |
| `LoginHandshake` | `Dialer` and `Listener` over two `Connection`s, with compression and encryption |
| `SignIn` | Tokens from the cache to the login chain, and the Realm |
| `PacketIO`, `PacketBatch`, `RakNetWire`, `Nbt`, `BlockHashes`, `Chunk`, `PacketLayouts`, `ServerQuery`, `Formatting`, `ResourcePack` | The pure code, as operators |
| `Codecs` | Their properties; each step hands one of them an input |
| `MC*` | The instances for TLC: constants that a `.cfg` file cannot write, and state constraints |
| `RakNetChannelProofs`, `RakNetChannelOrderProofs`, `ConnectionProofs`, `RakNetListenerProofs`, `LoginHandshakeProofs`, `LoginSkipProofs`, `NetherNetProofs`, `SignInProofs` | Theorems |

`NetherNetNetwork` extends `NetherNetConn` and lets it run once `connect()` has
returned. `RakNetChannel` implements `OrderedChannel`, and `Connection` and
`LoginHandshake` are written over such a queue: what they assume of a
transport is what the refinement shows of RakNet. `Connection` in turn implements
`PacketStream`. `Codecs` extends the modules
of pure code; among them `Chunk` extends `BlockHashes`, and that `Nbt`. The modules are otherwise separate, because what passes between
the layers is narrow: packets in order, an end, a refusal.

### RakNetChannel

The state of each connection object is a variable indexed by peer: `sendSeq`,
`compoundId`, `recovery`, `expectedSeq`, `ackQueue`, `nackQueue`, `fragments`,
`orderedQueue`, `closed` are the attributes of the same names. Two of the code's
counters are lengths of histories: `_ordered_index` is `Len(sent[p])` and
`_ordered_read_index[0]` is `Len(processed[p])`. `net[p]` is the bag of
datagrams on their way to `p`. `crashed` records that an exception ended the
client's `_recv_loop`.

Each action is one synchronous piece of the code, for nothing else runs on the
event loop in between: a call of `write_packet` or `close`, a tick, the handling
of one datagram with all it sends. `ReceiveFragment`, `ReceiveMisfit`,
`ReceiveEarly`, `ReceiveStale` and `ReceiveInOrder` are the branches of
`_handle_frame_set` down through `_handle_frame`, `_FragmentBuffer.add`,
`_handle_ordered` and `_process_payload`; `ReceiveAck` and `ReceiveNack` the
other two kinds of datagram. `Lose` and `Copy` are the network's; reordering
needs no action, since any datagram of the bag may be next.

The data are abstract. A payload is its kind (what its first byte tells
`_process_payload`) and the number of frames it takes; a frame is its packet and
its place in it; the receiver reads from it only what the wire carries: `Seq24`,
`Ord24` and `Cid16` cut the sender's counters to their width. What is assembled
is the sequence of the frames whose bodies were joined, so a mixture of two
packets is visible as one. An ACK or NACK is a set of numbers; the queues behind
it are sets because `_encode_ack_nack` sorts and removes duplicates.

Things the code does that are easy to overlook, and are modelled:
* every frame set is acknowledged by number before its content is looked at,
  even if it then fails;
* a number is asked for once, when a later one arrives; there is no timer;
* a completed fragment buffer stays, and a late duplicate completes it again;
* a join of fragments that do not fit is an exception: it ends the receive loop
  of a client, while a server's event loop logs it and goes on;
* the client stops receiving once closed, the server's object does not: the
  listener gives it every datagram from its address;
* a reply inside an in-order run (pong, Accepted, NewIncomingConnection) is sent
  before the next payload of the run is processed, and a DisconnectionNotification
  in the middle of a run does not stop it.

Outside the module: the queue behind `read_packet` (in `Connection`), the offline
handshake, and
frame sets of several frames or frames of other reliabilities (mcbe sends
neither). `SendPing` is the one thing a foreign peer does here, for mcbe answers
ConnectedPings without ever sending one. `RequestBound = 0` starts from a
connection whose handshake has not been sent: only the server may write then,
which keeps the instances about transport small.

### Connection

Four tasks share the state of a `Connection`: the application, the flush loop,
the read loop, and the `queue.get()` that a waiting `read_packet` starts. The
variables are the attributes of the same names and, for each task, the place
where it is suspended (`readPc`, `flushPc`, `closePc`, `getTask`). A step is what
a task does between two suspensions. Where that depends on the data, as in the
read loop, which goes through every batch that is ready and every packet that
fits, the step is divided and `readPc = "running"` keeps the others out.

`asyncio.Queue` is modelled by what it does: a packet put into the queue wakes the
first `get()` in line but stays in the queue until that task runs, so somebody
else may take it first; a `get()` that is cancelled leaves the line and passes a
wake-up on. `asyncio.wait` does not cancel what it waits for: `CancelRead` leaves
the `get()` behind, and `GetRuns` of a task that is nobody's swallows a packet.

The transport is a queue of batches, an end, and what a write may do. The three
kinds differ where the code does (`EndIsNext`, `EndWakes`, `MayFail`, the
drain): RakNet looks at the end before its queue and does not wake a waiting
reader; NetherNet puts a sentinel behind the last packet and refuses large
batches; TCP suspends in `drain()` and may fail there. Packets are numbers, in the order of arrival or of the calls.
A batch that fails to decode has no packets: the loop goes on.

A flush empties the buffer and hands the batch to the transport in one step,
because `_send_lock` is never held across a suspension and no `await` before the
transport's write suspends.

`PacketStream` is what all this amounts to: a read returns the next packet, except those that went to reads that were
given up, no more than one each; it raises when the application has closed or nothing is left, and afterwards nothing is
returned; a packet that is written waits until all that wait go together, or goes at once, or is among those that the transport did
not take. Two concessions are in its text: over RakNet the end may come with packets in the connection's hands (`short`), and after
its own `close()` an application may be given an error and then a packet.

Outside the module: what the transport's close releases, compression and
encryption (in `LoginHandshake`), several tasks reading at once, and a connection
without a flush loop. There is one flush loop and one read loop. The guides write
`async with await dialer.dial(...)`, and that starts both twice: `dial()` calls
`start()` (`dial.py:123`), and so does `__aenter__` (`conn.py:103`). The handles of
the first two tasks are lost, so `close()` cancels and awaits the second two
only. What the runs and theorems say of a connection they say of one that
is started once, as the `Listener` starts it, or that is used without `async with`.

### RakNetListener

Clients are addresses; `client[a]` is what `connect()` or `ping()` waits for there,
`mail[a]` its `_recv_queue`. A client may leave, or fail, and a new socket may get
the same address (`life` counts them). On the server's side `conns`, `pending` and
`acceptQueue` are `_connections`, `_pending` and `_accept_queue` of the
`RakNetListener`; `handshaking`, `incoming` and `loop` belong to the `Listener`
above it: the tasks of `_handle_connection`, the queue behind `accept()`, and how
far `close()` has got.

The three MTUs are three sizes, of which the path carries some (`path`): a padded
Request1 that is too long never arrives. `Lose`, and the copy that `Arrives` may
leave behind, are the network's. Waiting has a limit everywhere, but a timer may
expire before a datagram that is slow: that costs one of the `FaultBound` faults as
well, so that the runs can tell a client that failed for no reason from one whose
network was bad. `excused` is that account: it also notes sockets that start at an
address the listener still has in its table, or finds datagrams for an earlier
socket under way.

`ReadReply1` and `ReadReply2` differ as the code does: a datagram of the wrong kind
costs one size in the first and the whole attempt in the second.

### LoginHandshake

`pc[p]` names the packet that a side waits for. A side is three tasks: the
handshake, which reads `inbox[p]` (`_recv_queue`); the read loop (`ReadBatch`),
which decodes `wire[p]` with what is turned on when it gets there; and the timeouts.
That a batch may be decoded before the handshake has read the packet in front
of it is the point of the module: turning compression or encryption on is
only right because the protocol keeps the other side quiet. A batch records what was turned on
when it was encoded: `compressed`, and `key`, its place in the sender's key stream. So
`Decrypts` says what the checksum tells without modelling AES: the receiver's place
and counter must be the sender's. `aligned` turns false for good where the key
stream or the counter has lost its place: after a batch that arrived cut (the
key stream moved by fewer bytes) or unencrypted.

The format of the login (`EncodeOffline`, `EncodeAuthenticated`) decides whether the
listener finds a public key, and so whether encryption is turned on at all: only
the legacy format has its chain where `parse_request` looks for it.
With `dtls` the client's `Connection` has encryption disabled, as `dial()` makes it
over NetherNet. The server at the other end of such a transport is another
program, since `listen()` of both NetherNet networks raises `NotImplementedError`
(`nethernet/network.py:247`, `nethernet/ldc_network.py:346`); the model has it not
encrypt either, as the DTLS underneath does.

### NetherNetConn, NetherNetNetwork

`NetherNetConn` follows one direction: `Write` cuts a packet into segments (`Cut`),
`OnMessage` joins them. A segment is known by its packet and place as well as by
what it carries, so that a mixture would be seen. `threads` chooses between the two
implementations: callbacks of aiortc run in the event loop, those of libdatachannel
in its threads, where `_closed` is set at once while packets and the end go through
`call_soon_threadsafe` (`calls`); and there the channel may close between two
segments of a packet (`WriteCutShort`). `Lost` is the network's.

In `NetherNetNetwork`, `step` is where `connect()` is suspended, `attempt` the turn of
its loop. `ws` is the web socket of the attempt, `inbound` what the server has sent,
`futures`, `pending` and `queue` what `_recv_loop` makes of it. Both signaling
protocols are there (`rpc`). The server answers calls once, sends signals for this
offer or an earlier one and errors of its own accord (`MessageBound` of them in an
attempt), and may go away. `receive()` waits on two queues at once; when both have something, it has taken
both, raises the error and drops the signal (`Receives`). `post` is the task
that goes on reading signals after the answer.

Session descriptions, ICE and DTLS are the libraries': an answer is taken or is an
error (`TakesAnswer`), the channel opens or it does not. Not followed is a signaling
message that is no JSON object: it ends `_recv_loop` with an exception that
nobody sees until `close()` awaits the task, which raises it again before it closes the web
socket (`nethernet/signaling.py:207-217`).

### SignIn

Each program is the chain of `examples/place_block.py`: the Live token from the cache, by
refresh or by the device flow, Xbox tokens for one relying party after another, the
Realm, the services of a NetherNet Realm, the login chain. `at[p]` is the
request or the file operation under way. The cache file is shared, and emptied before
it is written (`Save`, `Write`): a program that is ended between the two, or one that
reads then, finds `Torn`. The services refuse what they like. Tokens are
known by their expiry. `wrong[p]` counts the requests signed with the
machine's own, wrong time.

### The pure code

Functions become operators on sequences of bytes; a reader returns a value and
the rest, or `Error`. The width of a byte is a constant (`ByteBits`), so that every
edge of a varint or of a 32-bit number lies within reach; layouts, sizes and limits are the code's.

`PacketLayouts` has the 21 packet classes whose layout depends on their values. Each
is three definitions, side by side: the attributes of the class, what `write()`
writes of an object (`WriteText(p)`), and what `read()` reads into which variable, given
what it has read so far (`ReadText(a)`). `Made` is the object that the reader
constructs. They are translated one by one, and differ where the code does: the writer of a
text derives its category from its type, the reader drops it; names of swings and
debug shapes become numbers by a table, and unknown ones a default; a
setting is written by its Python type; the reader of an inventory transaction
or of a map takes several raw fields for one. `PacketsRelay` compares not with the
object that was written but with what its layout can express (`Expressed`), also for streams
of another program (`Synonyms`, `Unknowns`).

`Nbt` has the untyped codec and the typed reader of `chunk.py`, which differ (one byte
without a sign here, a long that is dropped in an array there): `NbtReadersAgree` compares them, on damaged
streams too. `BlockHashes` is the way from a block to its number: sorted little
endian NBT, FNV-1a, computed from states with their tags, from states without
tags, from the shipped file and from the palettes of a server. In `BlocksAreNamed` the server's
block is written, with or without its version, by a definition of its own (`Wire`), and hashed by
one (`ServerHash`) that neither sorts nor infers: it is given the order and the tags. `Chunk` has
block storages, sub-chunks of each version, level chunks and sub-chunk entries, over
cubes of `Side` blocks, with palettes of numbers, of hashes and of NBT.

`RakNetWire` reads addresses of both families, though mcbe writes IPv4 only. In
`PacketBatch`, a batch of more than `MAX_BATCH_SIZE` packets is refused;
`max_decompressed` limits nothing, as `zlib.decompress` takes it for the first size
of its buffer (`proto/pool.py:205`). Of `Formatting` the inputs have unknown tags, tags that are
not closed and a `<` without `>`. Floats are model values.

### Fairness

Everywhere: the event loop runs what can run and timers expire; users,
applications, peers and services need not do anything, and networks need neither
lose nor repeat.

* `RakNetChannel`: `SendConnectionRequest`, `Tick(p)` and `Receive(p)`: `connect()`
  goes on by itself, the tick loops run every 50 ms, and the event loop hands over
  each datagram that is not lost. `Receive(p)` as a whole is fair, not
  each datagram; the histories are finite, so every datagram that stays is
  received in the end.
* `Connection`: every task that can run does, drains included (a peer that never
  reads keeps a TCP drain waiting; the model assumes that it reads or the socket
  fails). `close()`, reads and writes are not fair.
* `RakNetListener`: the reads and timeouts of each client, what the listener does with
  datagrams, its accept loop and its closing, and the end of each login (`LoginFails`
  stands for the timeout that `HandshakesEnd` shows of it; the Disconnect that a failed login
  sends is `Fail` of `LoginHandshake`). Connecting, accepting, leaving and closing
  are not.
* `LoginHandshake`: read loops, handshake steps, `Skip` and `Timeout`. `Timeout` is only
  enabled when the inbox is empty, as `wait_for` around `read_packet` is.
* `NetherNetNetwork`: the steps of `connect()`, its timeouts, the dispatch of messages,
  the task after the answer; in the connection the callbacks and the reader. Not
  the server, and not `Opened`.
* `SignIn`: `Step(p)`, a request that is answered or fails. Not `PollPending`: the
  device flow waits for the user, and the model lets that end by a limit of the
  service. Not `Crash`.

## What is checked

| Run | Instance | Checks | Shows |
|---|---|---|---|
| `channel_faults` | two packets of one or two frames, one loss, one duplicate of any kind | `InOrderExactlyOnce`, `ReleasedWasReceived`, `WaitsOnlyForMissing`, `ImplementsChannel` | neither loss, duplication nor reordering changes what is processed, an ACK releases only what has arrived, and nothing that is complete waits |
| `channel_live` | the connection handshake, a packet of the server, either or both may close, one frame set lost | `SentIsProcessed`, `CloseReachesPeer`, `GapsAreRepaired` | without loss everything sent is processed and a close is noticed, also when both close at once; what a receiver knows it missed, it gets |
| `channel_width` | two packets of one to three frames under one compound id, indices wrap after two, one loss, a ping instead of packets | `StaleIsDuplicate` | duplicates are told from new payloads until the wrap, also when packets meet in one buffer and a join fails |
| `connection` | all transports, a queue of one, two batches of none, one or two packets, three packets written, one read cancelled, one batch too large | `ImplementsStream`, `WaitsForNews`, `CloseFlushes`, `NothingVanishes`, `CloseReturns`, `ReaderWoken`, `FlushedAutomatically` | that it is a `PacketStream`, which has the order and completeness of what is read and written; that a read waits only for what has not come yet; what `close()` owes, and that nobody waits for ever but a reader over RakNet |
| `listener` | one address, two sockets on it, two faults | `ConnectedIsServed`, `FailsForCause`, `NoConnectionForgotten`, `AttemptsEnd` | a client that is connected is served and cuts frames to the server's size; attempts fail for a cause; every connection is somebody's until it is closed |
| `login` | every format of login, encrypted transport or not, one damaged batch, three packets of the application | `RefusedOnlyDamage`, `StreamsAgree`, `NothingNeededIsSkipped`, `DoneTogether`, `NeverBothWait`, `HandshakesEnd` | both ends change to compression and encryption at the same batch; neither waits for the other; both end, together if nothing fails |
| `nethernet` | both signaling protocols, both libraries, three attempts, two messages of the server in each; two packets of up to two segments | `AttemptsKeptApart`, `SignalingReleased`, `ReadAsWritten`, `ErrorAfterPackets`, `ConnectEnds`, `ReaderIsTold` | late answers do not join another offer; failures leave nothing open; packets come out whole, all that an open channel was given, then the error |
| `signin` | two programs, one ended once, tokens of two minutes | `AskedForCause`, `WrongTimeOnce`, `SignInEnds` | who has to sign in by hand, and why; the retries end |
| `codecs` | bytes of four bits, varints of three bits a byte, hashes of 16 bits; sub-chunks of 2×2×2, two blocks with states besides air | `ProtocolReadsBack`, `WireReadsBack`, `NbtIsOneFormat`, `ChunksAreRead`, `PacketsRelay`, `TextsAndAnswers` | readers and writers agree, with each other and with reference definitions |
| `connection_hang` | RakNet | `EndWakesReader` violated | a reader waits for ever |
| `connection_swallow` | one cancelled read | `ReadsNext` violated | a packet is lost |
| `codecs_nbt` | as `codecs` | `NbtLeavesTheRest` violated | the rest of a packet is read from the wrong place |

`CHECK_DEADLOCK FALSE` in every configuration: a connection with nothing to say
rests, and a sign-in that has ended stays ended.

### Bounds

`LossBound`, `CopyBound`, `FaultBound`, `DamageBound` and `FailBound` count faults;
`WriteBound`, `PingBound`, `BatchBound`, `PacketBound` and `AppBound` what is sent;
`CancelBound`, `CrashBound` and `LifeBound` reads cancelled, programs ended and
sockets opened; `MessageBound` what the signaling server sends of its own accord;
`IndexMod` and `CompoundMod` are 2^24 and 2^16 in the code, `QueueSize` 128,
`MAX_SEGMENTS` 256, `max_retries` 5.

Why they are enough:

* *Channel.* The mechanisms look at one number, one index or one buffer at a time. Two
  packets of two frames give every order of fragments of two packets, gaps of one and
  of several numbers, and runs of two; one loss and one duplicate reach every place
  of the exchange (a frame, its ACK, its NACK, its repetition). Wrapping after two
  is as good as after 2^24, since the code compares the cut number with the uncut
  one and nothing else.
* *Connection.* A queue of one and a batch of two fill the queue with a packet in hand,
  the only thing the capacity is about; a cancelled read leaves an orphan in
  line before the next reader; three packets give a buffer, a flush under way and an
  immediate packet. `MCConnection` cuts products that do not interact (`OneWay`): reading and writing share only
  the close, so three writes or a failed one are not explored together with reads, nor a
  cancelled read with writes. `PingsAlone`, in `channel_width`, keeps
  pings and packets in different behaviours: `channel_live` has both kinds of traffic.
* *Listener.* Addresses do not interact but in the listener's queues, so one address opened twice has what matters: a
  second socket that meets the connection of the first. Two faults make a request late and its repetition lost.
* *Login.* The handshake is a fixed exchange; three application packets are one in front of
  each wait that could be confused by one. One damaged batch is enough, since a
  side that has refused a batch refuses the rest.
* *NetherNet.* Three attempts have a first, a middle and a last; two messages of the server are
  a late signal and an error, in either order. `OneAtATime` explores packets behind one successful attempt
  only: the connection does not know how it came about.
* *Sign-in.* Two programs are a writer of the cache and a reader or second writer; tokens of two minutes are
  valid, expire while a program runs, or have expired before. What follows
  the Live token is not shared, and explored for one program (`OneBeyond`).
* *Codecs.* Four bits to a byte put the edges of every width, and of its
  sign, among the inputs. The layout of chunks and packets does not
  depend on the size of what is in them. The hash has the 16 bits of an int, an
  odd multiplier and an offset. What is compared is the bytes that are hashed: FNV-1a itself is the
  same for the server and the library, and the few blocks of the instance do not collide. One of their states is a byte whose name does
  not end in `_bit`, which `compute_block_hash` takes for an int.

What matters most is not left to bounds: it is proved.

A property that is meant to hold until a counter wraps says so: `Unwrapped(q)`
is part of it. `WaitsForNews` and `ReaderWoken` exempt the end of a RakNet peer, `SentIsProcessed`
is stated for runs without a loss, `FlushedAutomatically` until a write has failed,
`SignInEnds` for a Realm that does not go on starting: what the code does outside
these conditions is under Findings. So some hazards of `PROJECT.json` have no property, as
the code does what they warn of: the loss of the last datagram, the two wraps of
the channel, the tasks that a failed `connect()` leaves, the batch of a failed write and the
flush loop that ends with it. Two are caught in part, as their notes say: a login that a server
prolongs for ever with other packets is beyond `AppBound`, and the branch for a NetherNet segment out of order is not
reached over an ordered channel.

### Findings

Each of the three is a run that TLC finds violated:

1. *A RakNet disconnect does not wake a reader* (`raknet/connection.py:411`), in
   spite of `conn.py:287`, "so they don't hang forever" (`connection_hang`).
2. *A cancelled `read_packet` swallows a packet* (`conn.py:191`): the inner tasks
   are cancelled only when `asyncio.wait` returns. `docs/guides/client.md:84`
   recommends `asyncio.wait_for` around it (`connection_swallow`).
3. *`PacketReader.nbt()` moves by the length of its own encoding* (`proto/io.py:253`), which
   is not the length of what it read when another program wrote the value in another
   form, a root name for example. `proto/io.py:248`: "We need to figure out how many bytes were consumed." (`codecs_nbt`).

Seen in the code while modelling, without a run. Reliability:

* a frame set lost at the end stays lost (`raknet/connection.py:239`): a number is asked for
  when a later one arrives, and once, and the sender has no timer;
* fragment buffers are never removed (`raknet/connection.py:254`) while the compound id
  wraps at 2^16: from then on `_FragmentBuffer.add` hands out mixtures, or raises;
* indices are 24 bits wide on the wire only (`raknet/connection.py:286`): after 2^24
  payloads each new one is dropped as a duplicate.

What is left open or undone:

* one failed flush ends the flush loop (`conn.py:259`), while `write_packet`
  promises "It will be flushed automatically" (`conn.py:132`);
* `close()` releases nothing when the peer was first (`nethernet/conn.py:185`,
  `raknet/connection.py:421`);
* `accept()` is not woken by `close()` (`raknet/network.py:361`);
* `async with await dialer.dial(...)` starts the flush and the read loop twice, and `close()` cancels only the second
  pair (`conn.py:103`, `dial.py:123`);
* a signaling message that is no JSON object ends the loop that reads them, and then makes `close()` raise before the web socket is
  closed (`nethernet/signaling.py:213`);
* a `connect()` over RakNet that times out after the offline handshake leaves its tasks running (`raknet/network.py:84`);
* the task that reads signals after the answer does not see the application close the
  connection, and keeps the web socket open (`nethernet/network.py:230`).

What is read or answered differently than it looks:

* only the legacy format of the login has its chain where the listener looks for a public key, so
  with the other formats nothing is encrypted (`proto/login/request.py`, `listener.py`);
* a signal that arrives together with an error is dropped (`nethernet/signaling.py`, `receive`);
* `request_xbl_token` tries the next device type after any `RuntimeError`, not only for
  the account errors its docstring names (`auth/xbox.py:298`);
* `compute_block_hash` takes an int for a byte when its key ends in `_bit` (`chunk.py:241`), and its docstring says
  "This matches the server's hash computation" (`chunk.py:231`): not for a byte with another name, which
  `BlocksAreNamed` says (`IsInferred`);
* the hash that `_read_nbt_block` learns is of all fields (`chunk.py:483`), the version too where the server writes
  it, while the shipped table and both `compute_block_hash` functions have only name and states: such a palette
  teaches a hash that no palette of hashes uses;
* the older codec that `_read_nbt_block` turns to when the typed reader fails (`chunk.py:490`) never reads what that could not
  (`NbtReadersAgree`);
* a `CameraInstruction` with raw bytes cannot be read: the first raw field takes all that follows, and the next
  optional one finds no flag (`camera_instruction.py:43`);
* a map with decorations and a texture is read as decorations only, the texture among them, but with both flags: each relay
  writes a texture more (`client_bound_map_item_data.py:88`);
* an unknown swing source is relayed as none (`animate.py:67`), an unknown debug shape as `cleardebugmarkers`
  (`client_bound_debug_renderer.py:49`), a pack setting of another type as the float 0.0 (`server_bound_pack_setting_change.py:44`).

## What is proved

For every value of the constants that the assumptions of the modules allow:

| Theorem | States |
|---|---|
| `RakNetChannelProofs!TypeCorrect` | `Spec => []TypeOK` |
| `RakNetChannelOrderProofs!Invariant` | `Spec => []ChannelInv` |
| `OrderedDelivery` | `Spec => []InOrderExactlyOnce` |
| `OnlyDuplicatesDropped` | `Spec => []StaleIsDuplicate` |
| `ReleasedHaveArrived` | `Spec => []ReleasedWasReceived` |
| `NothingCompleteWaits`, `AllArrivedIsProcessed` | `Spec => []WaitsOnlyForMissing`, `Spec => []QuietIsDone` |
| `PassedOverIsRepaired` | `Spec => []RepairIsUnderWay` |
| `Refinement` | `Spec /\ [](\A q \in Peer : Unwrapped(q)) => ImplementsChannel` |
| `ConnectionProofs!TypeCorrect` | `Spec => []TypeOK` |
| `Inbound`, `ReadOrder` | `Spec => []InboundInv`, `Spec => []ReadInOrder` |
| `Outbound`, `WireOrder`, `Accounted` | `Spec => []OutboundInv`, `Spec => []OnlyImmediateOvertakes`, `Spec => []NothingVanishes` |
| `CloseFlushesFirst`, `OnlyCancelsLose`, `ErrorIsLast` | `Spec => []CloseFlushes`, `Spec => []OnlyCancelsSkip`, `Spec => []ErrorComesLast` |
| `ReaderMissesNothing` | `Spec => []WaitsForNews` |
| `StreamKept` | `Spec => ImplementsStream` |
| `RakNetListenerProofs!ListenerTyped`, `ClientIsServed` | `Spec => []TypeOK`, `Spec => []ConnectedIsServed` |
| `FailsOnlyForCause`, `ConnectionsArePlaced` | `Spec => []FailsForCause`, `Spec => []NoConnectionForgotten` |
| `LoginHandshakeProofs!LoginTypes`, `RefusedIsDamaged` | `Spec => []TypeOK`, `Spec => []RefusedOnlyDamage` |
| `StreamsStayTogether`, `DialedIsAccepted` | `Spec => []StreamsAgree`, `Spec => []DoneTogether` |
| `LoginSkipProofs!OnlyUselessIsSkipped`, `HandshakesFit` | `Spec => []NothingNeededIsSkipped`, `Spec => []NeverBothWait` |
| `NetherNetProofs!AttemptsStayApart`, `SignalingIsReleased` | `Spec => []AttemptsKeptApart`, `Spec => []SignalingReleased` |
| `ErrorComesAfterPackets`, `ReadIsWritten` | `Spec => []ErrorAfterPackets`, `Spec => []ReadAsWritten` |
| `SignInProofs!AskedOnlyForCause`, `WrongTimeAtMostOnce` | `Spec => []AskedForCause`, `Spec => []WrongTimeOnce` |

The type invariants and the inductive invariants are proved, and not run again as properties of an instance.

**RakNetChannel** (two different peers, positive widths and sizes, natural bounds).
`InOrderExactlyOnce` is not inductive: it says nothing of payloads that wait in
the queue or in buffers, nor of frames that are still on the way. `ChannelInv`
adds what it needs: a sender's indices count up and its compound ids are distinct
(`Numbered`); every frame in `recovery` or in flight was sent (`OnlySent`); and
each buffer holds fragments of the one packet that has its compound id, each
queued payload is the one sent under its index (`Faithful`). The last part is
conditional: while the sender's counters fit the wire, the numbers the receiver
reads are the sender's, and this is the only place where the widths enter.

The argument follows from the shape of a step (`StepShape`): one peer acts; its
sending side appends (`SenderStep`), what it gives the network are frames it
keeps (`NetStep`), and its receiving side takes one frame in one of three ways
(`ReceiverStep`). Sending keeps the numbering (`SenderKeepsNumbers`) and the
other end's faithfulness (`SenderKeepsFaithful`); receiving keeps one's own
(`ReceiverKeepsFaithful`). The refinement is then a matter of reading off
that histories only grow and that what is processed is a prefix of what was sent.

`ReleasedWasReceived` needs the sequence numbers as well (`ReleaseInv`): the payloads of a sender take disjoint ranges of them
(`Spaced`), so a number names one frame; and what a receiver has acknowledged, in its queue or in an ACK on its way, it has
(`AcksTrue`). A second shape of the same step says that frames leave `_recovery` only for such an ACK and that new
acknowledgements are of a frame just taken in (`ReleaseShape`). That a receiver keeps what it has (`HasKept`) is where the
faithfulness of its buffers enters: a fragment is overwritten only by itself.

The theorems above would hold of a receiver that keeps everything back. That it does not is `NothingCompleteWaits`: once every
frame of the first n payloads has arrived, n are processed. `HandInv` has the reason: the queue holds only indices beyond the one
that is expected, because the run `_handle_ordered` releases stops at a hole (`InOrder` with `next` not in the queue); and a packet whose
buffer is complete has been handed on, because a frame goes no further than its buffer only while a fragment is missing or
when its packet has been processed (`HandsOn`). `AllArrivedIsProcessed` adds the network: without a loss every frame of what was sent is
on its way or with the receiver (`TravelInv`, by the shape `Travels`), so when nothing is on its way all of it has been processed. This
is the state part of `SentIsProcessed`; the rest of it is that a datagram arrives, which is fairness.

`PassedOverIsRepaired` is the same for `GapsAreRepaired`, with one loss of whatever kind. What a receiver passes over goes on its list for a
NACK, and what answers the NACK is in `_recovery`, since only what has arrived leaves it (`Released`). So before the loss a frame that was
passed over is on its way, and besides asked for, or on its way twice (`Coming`; the network is a bag, and `CopiesMove` counts); whichever
datagram is lost, one of the two is left. With a second loss it fails, as a number is asked for once.

**Connection** (any capacity of the queue, any batches, any number of cancellations
and failures, any set of transports). `ReadInOrder` speaks of the last of five stages (the transport's batches, the rest
of a batch, the queue, the task's answer, what was returned). `InboundInv` says
that each is in order and ahead of the one before it; a step takes the first
packet of a stage, adds it to the end of the next, or drops it. That the answer
is empty when no read is under way is what keeps a queued packet from overtaking
it. `OutboundInv` does the same for the buffer and the wire: a packet on the wire
precedes every buffered one unless it was immediate.

What the end of a connection may cost: `CloseInv` says that a packet is lost for a cause only, so with no
failed write `NothingVanishes` puts every accepted packet on the wire or in the buffer that `close()` flushes. `TasksInv` counts:
each cancelled read leaves at most one task behind, and that task swallows at most one packet (`Orphans`). `FoundInv`
says where every packet that arrived is, and `LoopInv` that the loop signals its end only when nothing more is to come; so an
error is raised only with every stage empty, except over RakNet, which raises before it has handed over what it holds.

`StreamKept` reads the refinement off these. Most steps of the four tasks are steps of nobody's: a packet that moves from one stage to the next has
neither been read nor lost. That `Return` takes the least packet still to be read is `OnlyCancelsSkip` after the step; that a
packet is swallowed once, and a failed one not sent later, is `ApartInv`. `ReadInOrder`, `OnlyCancelsSkip`, `ErrorComesLast` and
`OnlyImmediateOvertakes` say what an application may rely on, one at a time; `PacketStream` promises all of it, so they are theorems, and
TLC runs the refinement.

`WaitsForNews` is the safety core of `ReaderWoken`. `WakeInv` counts: while a task is in the line of the queue, the queue holds no more
packets than there are tasks woken, since `put` wakes one for each packet, and a task that is woken takes one or goes back to the end of
the line. So if none is woken and a read waits, the queue is empty, and a suspended loop is not one that waits for room; it waits for the
transport with nothing in its hands, or has ended, which sets the close event (the last conjunct). Then `FoundInv` says where the packets are.

**RakNetListener** (any set of addresses, any number of sockets and faults). `ConnectedIsServed`
follows from what datagrams say: `Sound(m)` holds of all that are under way or in a client's queue. A size asked
for or offered fits the path, because a Request1 that does not is never delivered and every other size is copied from
one; a Reply2 has the size of the connection; Accepted comes from a connection that is online. These stay true
because the table only grows (`ConnsGrow`): nothing replaces a connection, changes its size, or takes it offline.
`FailsForCause` is about an address where nothing has gone wrong yet (`CauseInv`): there, exactly one datagram is under way at a time, the
question that the client's step calls for or its answer (`Turn`), unless a Request1 was too long for the path; and the listener has a connection,
online or not, just when that datagram says so (`Clean`). So each answer that comes is of the kind the client waits for, and the only timer
that expires is the one that makes it try a smaller size.

For `NoConnectionForgotten`, `PlacedInv` counts the places a connection is in (its setup, the two queues, the caller of
`accept()`): never more than one, and one as long as it is not closed. Each step hands a connection on from one place to the next.

**LoginHandshake** (any number of application packets and damaged batches). A batch's number decides what was turned on when it was
encoded. From the client, batch 1 is RequestNetworkSettings, plain; batch 2 the Login, compressed; from batch 3 on
batch n is encrypted with place n - 2 of the key stream. From the server, 1 is NetworkSettings and 2
ServerToClientHandshake. `Good` says that of every batch under way, and `Place` adds the earliest batch in which each packet
that changes something can be. So a read loop that decodes ahead of its handshake meets an encrypted batch
only when its side has the cipher, unless the other side has sent more than the handshake allows; `CrossInv`
says that the server is ahead of the client only with the Disconnect of a handshake that has failed, which is the exception in
`RefusedOnlyDamage`. `CipherInv` counts: an end that has refused nothing has read as many places as batches have come.

`OnlyUselessIsSkipped` needs all of the exchange, and holds of it as long as nothing is damaged (`SkipInv`). The packet in the client's n-th batch, and the n-th
packet of the server, are known (`ToServer`, `ToClient`; `StreamInv` for batches under way, `ServerReads` and `ClientReads` for the
inboxes); `CountInv` says how far each step of a handshake has written. So the packet that a step takes from its inbox
is the one it waits for, but for the client's ClientCacheStatus and the Disconnect of a server that has failed (`SkipsFew`).
`NeverBothWait` follows by counting: with nothing under way each end has read all that the other has written (`NothingToRead`), and then
`CountInv` leaves no pair of waiting steps that fit together. What remains of `HandshakesEnd` is that a step that can run does.

**NetherNetNetwork** and **NetherNetConn** (any number of attempts, messages and segments). `ConnectInv` says when an answer may have been taken (`AttemptInv`) and that nothing
is open in the places between attempts (`ReleaseInv`); the task after the answer exists only once there is an answer.
`EndComesLast` follows the end of a data channel through the library's callbacks and the queue: it is put once, when the channel
closes, behind everything that came before. `ReadInv` reads what has come out in any of three places (returned, queued, or waiting to be
called) as one sequence, `Delivered`, and says of the stream of segments where its reader stands: d packets received, k segments of the
next in the buffer, the rest ahead (`Stands`). `ReadAsWritten` reads that off; its last part, `QuietIsRead`, is that nothing is left of an open channel in which nothing is under way
(`NothingStaysBehind`).

**SignIn** (any programs, lifetimes and crashes). `AskInv` traces the question back: a program that asks has a cause; a token being saved was
renewed or asked for; a file that is not whole is being written, or was left so by a program that was ended or could not write. `ClockInv`:
every answer sets the clock, and one request at most is under way before the first.

Only model-checked, then: liveness under fairness, which is out of the prover's reach, and the codecs. Of the codecs `Nbt`, `BlockHashes`, `Chunk` and `Codecs` are
recursive, and what a recursive definition or a fold computes for every input takes induction over data, which is out of reach as well.

## What is left

* `NetherNetConn` shown to implement one direction of `OrderedChannel`, with an end.
* The safety cores of the other liveness properties, as `QuietIsDone` is that of `SentIsProcessed`, `RepairIsUnderWay` of `GapsAreRepaired`,
  `WaitsForNews` of `ReaderWoken` and `NeverBothWait` of `HandshakesEnd`: of `AttemptsEnd`, `ConnectEnds` and `SignInEnds`.
* The sockets and tasks that a failed or closed connection leaves behind, as state.

## Not modelled

* `nethernet/aiortc_patch.py`: it replaces internals of a library, and means nothing without them.
* Ciphers, signatures, JWTs, HTTP, JSON, zip files, ICE and DTLS are libraries'. The models have what the code
  does with their results.
* The text of pong data, of signals and of client data: they are formats without control.
* The packet definitions that are a fixed list of fields: writer and reader are the same list, and the codecs of the fields are in
  `PacketIO`, `Nbt` and `Chunk`. `PacketLayouts` has those whose layout depends on values.
* Floats, beyond their width; the table of ANSI colours.
* `request_device_token` of `auth/xbox.py`, which nothing calls, and the Realms requests that are one HTTP call.
* The programs in `examples/`, except the chain of `place_block.py`: they build terrain and draw maps, and are not part of the library.
