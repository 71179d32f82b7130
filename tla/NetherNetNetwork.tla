-------------------------- MODULE NetherNetNetwork --------------------------
(***************************************************************************)
(* How a NetherNet connection comes about (nethernet/network.py,           *)
(* nethernet/ldc_network.py, nethernet/signaling.py): connect() and its    *)
(* retries, the signaling connection of each attempt with its receive      *)
(* loop, queues and calls, the task that goes on reading signals after the *)
(* answer, and the connection (NetherNetConn) once its channel is open.    *)
(*                                                                         *)
(* The signaling server and the remote player are the environment: they    *)
(* answer, answer late, fail, or go away.                                  *)
(***************************************************************************)
EXTENDS NetherNetConn, FiniteSets

CONSTANTS
    max_retries,   \* attempts; 5 in the code
    MessageBound   \* messages the server sends of its own accord in an attempt

ASSUME RetriesAssumption == max_retries \in Nat \ {0} /\ MessageBound \in Nat

VARIABLES
    rpc,         \* JsonRpcSignaling, not WebSocketSignaling
    step,        \* what connect() is waiting for
    attempt,     \* of range(max_retries); also the connection id of its offer
    ws,          \* the WebSocket of the attempt
    inbound,     \* messages of the server on their way to _recv_loop
    futures,     \* results of calls, and credentials, that nobody has taken yet
    pending,     \* _pending: calls without an answer
    queue,       \* _signal_queue and _error_queue, in the order of arrival
    sent,        \* messages the server has sent in this attempt
    post,        \* _handle_post_answer_signals
    answerTo,    \* the offer that the answer taken is for, 0 before
    reason       \* of the failure

signaling == <<ws, inbound, futures, pending, queue, sent>>
dialing == <<step, attempt, post, answerTo, reason>>
vars == <<connVars, rpc, signaling, dialing>>

Attempt == 1..max_retries
Call == {"credentials", "offer", "delivery"}

\* Answers to calls: "Player not found" is a failure of its own.  Messages of the
\* server: signals of the remote player, and errors.
Answer(kind, call) == [kind |-> kind, call |-> call, id |-> 0]
AnswerKind == {"result", "failure", "notFound"}
Sig(type, a) == [kind |-> type, call |-> "none", id |-> a]
Signal == {Sig(t, a) : t \in {"CONNECTRESPONSE", "CANDIDATEADD", "CONNECTERROR"}, a \in Attempt}
Error == {Answer(k, "none") : k \in {"failure", "notFound"}}
Message == Signal \cup Error \cup {Answer(k, c) : k \in AnswerKind, c \in Call}

Init ==
    /\ ConnInit /\ rpc \in BOOLEAN
    /\ step = "start" /\ attempt = 1 /\ post = "none" /\ answerTo = 0 /\ reason = "none"
    /\ ws = "none" /\ inbound = <<>> /\ futures = {} /\ pending = {} /\ queue = <<>> /\ sent = 0

-----------------------------------------------------------------------------
(* The server and the remote player.                                       *)

Sends(m) ==
    /\ ws = "open" /\ inbound' = Append(inbound, m)
    /\ UNCHANGED <<connVars, rpc, ws, futures, pending, queue, dialing>>

Answering(call) == \E i \in DOMAIN inbound : inbound[i].call = call

\* Each call once; credentials also without a call.
ServerAnswers ==
    /\ \E c \in pending \cup (IF rpc \/ step # "credentials" THEN {} ELSE {"credentials"}),
          k \in AnswerKind :
          /\ ~Answering(c) /\ ~\E f \in futures : f.call = c
          /\ rpc \/ k = "result"
          /\ Sends(Answer(k, c))
    /\ UNCHANGED sent

\* Signals for this offer, or for one of an earlier attempt, and errors.
ServerSends ==
    /\ sent < MessageBound /\ sent' = sent + 1
    /\ \E m \in Signal \cup Error :
          /\ m \in Signal => m.id < attempt + (IF step \in {"credentials", "gathering"} THEN 0 ELSE 1)
          /\ Sends(m)

ServerDrops ==
    /\ ws = "open" /\ ws' = "lost"
    /\ UNCHANGED <<connVars, rpc, inbound, futures, pending, queue, sent, dialing>>

-----------------------------------------------------------------------------
(* _recv_loop.                                                             *)

Queues(m) ==
    /\ queue' = Append(queue, m)
    /\ pending' = IF rpc THEN pending \cup {"delivery"} ELSE pending
    /\ UNCHANGED futures

Resolves(m) ==
    /\ futures' = IF m.call = "delivery" THEN futures ELSE futures \cup {m}
    /\ pending' = pending \ {m.call}
    /\ UNCHANGED queue

\* Each message goes to the call that waits for it or into a queue; what arrived before
\* the connection was lost is still read.  The delivery notification of a message is
\* a call in a task of its own.
Dispatch ==
    /\ ws \in {"open", "lost"} /\ inbound # <<>>
    /\ inbound' = Tail(inbound)
    /\ IF Head(inbound).call \in Call THEN Resolves(Head(inbound)) ELSE Queues(Head(inbound))
    /\ UNCHANGED <<connVars, rpc, ws, sent, dialing>>

-----------------------------------------------------------------------------
(* connect() and _try_connect().                                           *)

\* close(): the receive loop and the calls are cancelled.
Closes == ws' = "closed" /\ inbound' = <<>> /\ pending' = {}

Fails(why) ==
    /\ step' = "failed" /\ reason' = why /\ Closes
    /\ UNCHANGED <<attempt, answerTo>>

\* "Player not found" is worth another attempt, any other error is not.
FailsNotFound ==
    IF attempt < max_retries
    THEN step' = "backoff" /\ Closes /\ UNCHANGED <<attempt, answerTo, reason>>
    ELSE Fails("notFound")

FailsFor(kind) == IF kind = "notFound" THEN FailsNotFound ELSE Fails("error")

Goes(to) ==
    /\ step' = to
    /\ UNCHANGED <<attempt, answerTo, reason, ws, inbound, pending>>

\* A new signaling connection; with JSON-RPC credentials are asked for.
Start ==
    /\ step = "start"
    /\ \/ /\ step' = "credentials" /\ ws' = "open"
          /\ pending' = IF rpc THEN {"credentials"} ELSE {}
          /\ UNCHANGED reason
       \/ step' = "failed" /\ reason' = "error" /\ UNCHANGED <<ws, pending>>
    /\ inbound' = <<>> /\ futures' = {} /\ queue' = <<>> /\ sent' = 0
    /\ UNCHANGED <<connVars, rpc, attempt, post, answerTo>>

Wake ==
    /\ step = "backoff" /\ step' = "start" /\ attempt' = attempt + 1
    /\ UNCHANGED <<connVars, rpc, signaling, post, answerTo, reason>>

TakesCredentials ==
    /\ step = "credentials"
    /\ \E f \in futures :
          /\ f.call = "credentials" /\ futures' = futures \ {f}
          /\ IF f.kind = "result" THEN Goes("gathering") ELSE FailsFor(f.kind)
    /\ UNCHANGED <<connVars, rpc, queue, sent, post>>

\* Candidates are gathered, and the offer is sent: with JSON-RPC in a call.
Offers ==
    /\ step = "gathering"
    /\ IF ws # "open" THEN Fails("error")
       ELSE IF ~rpc THEN Goes("answer")
       ELSE /\ step' = "offering" /\ pending' = pending \cup {"offer"}
            /\ UNCHANGED <<attempt, answerTo, reason, ws, inbound>>
    /\ UNCHANGED <<connVars, rpc, futures, queue, sent, post>>

OfferAnswered ==
    /\ step = "offering"
    /\ \E f \in futures :
          /\ f.call = "offer" /\ futures' = futures \ {f}
          /\ IF f.kind = "result" THEN Goes("answer") ELSE FailsFor(f.kind)
    /\ UNCHANGED <<connVars, rpc, queue, sent, post>>

Places(S) == {i \in DOMAIN queue : queue[i] \in S}
Least(S) == CHOOSE i \in S : \A j \in S : i <= j
Without(S) == [i \in 1..(Len(queue) - Cardinality(S)) |->
                  queue[CHOOSE j \in DOMAIN queue \ S :
                           Cardinality({k \in DOMAIN queue \ S : k <= j}) = i]]

\* receive(): two tasks, one on each queue.  Both may have something when they run:
\* then both have taken it, and the error is raised.
FirstError == Least(Places(Error))
Received == {Least(Places(S)) : S \in {T \in {Signal, Error} : Places(T) # {}}}
Receives == queue # <<>> /\ queue' = Without(Received)
Raises == Places(Error) # {}

\* setRemoteDescription with the answer, which may be none; then the task that reads on.
TakesAnswer(s) ==
    \/ /\ step' = "opening" /\ answerTo' = s.id /\ post' = "running"
       /\ UNCHANGED <<attempt, reason, ws, inbound, pending>>
    \/ Fails("error") /\ UNCHANGED post

\* Mutant: an answer is an answer.
ReceiveAnswerAny ==
    /\ step = "answer" /\ Receives
    /\ IF Raises THEN FailsFor(queue[FirstError].kind) /\ UNCHANGED post
       ELSE LET s == Head(queue) IN
            CASE s.kind = "CONNECTRESPONSE" -> TakesAnswer(s)
              [] s.kind = "CONNECTERROR" /\ s.id = attempt -> Fails("remote") /\ UNCHANGED post
              [] OTHER -> Goes("answer") /\ UNCHANGED post
    /\ UNCHANGED <<connVars, rpc, futures, sent>>

\* Signals with another connection id are passed over, candidates change nothing here.
ReceiveAnswer ==
    /\ step = "answer" /\ Receives
    /\ IF Raises THEN FailsFor(queue[FirstError].kind) /\ UNCHANGED post
       ELSE LET s == Head(queue) IN
            CASE s = Sig("CONNECTRESPONSE", attempt) -> TakesAnswer(s)
              [] s = Sig("CONNECTERROR", attempt) -> Fails("remote") /\ UNCHANGED post
              [] OTHER -> Goes("answer") /\ UNCHANGED post
    /\ UNCHANGED <<connVars, rpc, futures, sent>>

\* The reliable channel opens, and connect() returns.
Opened ==
    /\ step = "opening" /\ Goes("connected")
    /\ UNCHANGED <<connVars, rpc, futures, queue, sent, post>>

Ready == \/ step = "credentials" /\ \E f \in futures : f.call = "credentials"
         \/ step = "answer" /\ queue # <<>>

\* Mutant: the wait for the channel has no limit.
TimeoutSignaling ==
    /\ step \in {"credentials", "gathering", "answer"} /\ ~Ready
    /\ Fails("timeout")
    /\ UNCHANGED <<connVars, rpc, futures, queue, sent, post>>

\* Every wait has a limit, but the one for the answer to the offer's call.
Timeout ==
    /\ step \in {"credentials", "gathering", "answer", "opening"} /\ ~Ready
    /\ Fails("timeout")
    /\ UNCHANGED <<connVars, rpc, futures, queue, sent, post>>

-----------------------------------------------------------------------------
(* _handle_post_answer_signals, in a task that nobody cancels.             *)

\* Mutant: the signaling connection is left open.
PostEndsOpen == post' = "ended" /\ UNCHANGED <<ws, inbound, pending>>
PostEnds == post' = "ended" /\ Closes
PostGoesOn == UNCHANGED <<post, ws, inbound, pending>>

\* An error of the server ends the task, one of the remote player the connection too.
PostReceives ==
    /\ post = "running" /\ Receives
    /\ IF Raises THEN PostEnds /\ UNCHANGED connVars
       ELSE IF Head(queue) = Sig("CONNECTERROR", attempt) THEN PostEnds /\ Close("near")
       ELSE PostGoesOn /\ UNCHANGED connVars
    /\ UNCHANGED <<rpc, futures, sent, step, attempt, answerTo, reason>>

\* What the connection does once connect() has returned it.
Transfer == step = "connected" /\ ConnNext /\ UNCHANGED <<rpc, signaling, dialing>>

-----------------------------------------------------------------------------

Dialing == Start \/ Wake \/ TakesCredentials \/ Offers \/ OfferAnswered \/ ReceiveAnswer

Next ==
    \/ Dialing \/ Opened \/ Timeout \/ Dispatch \/ PostReceives \/ Transfer
    \/ ServerAnswers \/ ServerSends \/ ServerDrops

Spec == Init /\ [][Next]_vars

\* The event loop runs what can run, and timers expire; the server, the remote player
\* and the network need not do anything.
Fairness ==
    /\ WF_vars(Dialing) /\ WF_vars(Timeout) /\ WF_vars(Dispatch) /\ WF_vars(PostReceives)
    /\ WF_vars(Transfer /\ OnMessage) /\ WF_vars(Transfer /\ RunCall)
    /\ WF_vars(Transfer /\ OnClose) /\ WF_vars(Transfer /\ ReadPacket)

FairSpec == Spec /\ Fairness

-----------------------------------------------------------------------------
(* Properties.                                                             *)

Step == {"start", "credentials", "gathering", "offering", "answer", "opening", "connected",
         "failed", "backoff"}

\* Types of the variables.
TypeOK ==
    /\ ConnTypeOK /\ rpc \in BOOLEAN
    /\ step \in Step /\ attempt \in Attempt
    /\ post \in {"none", "running", "ended"} /\ answerTo \in Attempt \cup {0}
    /\ reason \in {"none", "error", "notFound", "remote", "timeout"}
    /\ ws \in {"none", "open", "lost", "closed"}
    /\ inbound \in Seq(Message) /\ queue \in Seq(Signal \cup Error)
    /\ futures \subseteq Message /\ pending \subseteq Call /\ sent \in 0..MessageBound

\* However late the signals of earlier attempts arrive, the channel is set up with the
\* answer to the offer of this one; and a player who is not there is looked for in every
\* attempt, also when the error comes in the answer to the offer and not as a message.
AttemptsKeptApart ==
    /\ answerTo \in {0, attempt}
    /\ reason = "notFound" => attempt = max_retries

\* connect() that fails leaves no signaling connection and no call behind, wherever in an
\* attempt it fails, none while it waits to try again, and none when the task that reads
\* signals after the answer has ended.
SignalingReleased ==
    step \in {"failed", "backoff"} \/ post = "ended" => ws \in {"none", "closed"} /\ pending = {}

\* connect() comes to an end whatever the server and the remote player do, unless the
\* server does not answer the call with the offer, which nothing limits.
ConnectEnds ==
    <>(step \in {"connected", "failed"}) \/ <>[](step = "offering" /\ ~Answering("offer"))

\* A reader of the connection is told when either end closes it, when the remote player
\* gives it up by a signal, or when the network is lost.
ReaderIsTold == step = "connected" /\ channel # "open" ~> reader = "raised"
=============================================================================
