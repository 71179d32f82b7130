-------------------------- MODULE NetherNetProofs --------------------------
(***************************************************************************)
(* Theorems about NetherNetNetwork, for any number of attempts and of      *)
(* messages of the server: the answer belongs to the offer of the attempt, *)
(* an attempt that has failed leaves nothing open, the error of a closed   *)
(* channel comes after every packet, and what is read is what was written. *)
(***************************************************************************)
EXTENDS NetherNetNetwork, SequenceTheorems, TLAPS

Answered == {"opening", "connected", "failed"}
Over == {"start", "failed", "backoff"}

Released == ws \in {"none", "closed"} /\ pending = {}

\* An answer ends the waiting of its attempt, and only the last attempt ends without a player.
AttemptInv ==
    /\ attempt \in Attempt
    /\ answerTo \in {0, attempt}
    /\ answerTo # 0 => step \in Answered
    /\ reason = "notFound" => attempt = max_retries /\ step = "failed"
    /\ step = "backoff" => attempt < max_retries

\* The task that reads signals after the answer starts with the answer; between attempts,
\* and when that task has ended, nothing is open.
ReleaseInv ==
    /\ post # "none" => step \in Answered
    /\ step \in Over \/ post = "ended" => Released

\* The inductive invariant.
ConnectInv == AttemptInv /\ ReleaseInv

-----------------------------------------------------------------------------

\* connect() starts with nothing open.
LEMMA ConnectStarts == Init => ConnectInv
BY RetriesAssumption DEF Init, ConnectInv, AttemptInv, ReleaseInv, Released, Attempt, Answered

\* A failure closes the signaling connection, or waits for the next attempt.
LEMMA FailingKeeps ==
    ASSUME ConnectInv, NEW why \in {"error", "remote", "timeout"},
           step \notin Over \cup {"connected"}, post' = post, Fails(why)
    PROVE  ConnectInv'
BY DEF ConnectInv, AttemptInv, ReleaseInv, Released, Answered, Over, Fails, Closes

\* An error is final, but for a player who was not found.
LEMMA ErrorKeeps ==
    ASSUME ConnectInv, NEW kind, step \in {"credentials", "offering", "answer"}, post' = post,
           FailsFor(kind)
    PROVE  ConnectInv'
<1>1. CASE kind = "notFound" /\ attempt < max_retries
  BY <1>1 DEF FailsFor, FailsNotFound, Closes, ConnectInv, AttemptInv, ReleaseInv, Released,
              Answered, Over
<1>2. CASE kind = "notFound" /\ ~(attempt < max_retries)
  <2>1. attempt = max_retries
    BY <1>2, RetriesAssumption DEF ConnectInv, AttemptInv, Attempt
  <2>2. Fails("notFound")
    BY <1>2 DEF FailsFor, FailsNotFound
  <2>3. QED
    BY <2>1, <2>2 DEF Fails, Closes, ConnectInv, AttemptInv, ReleaseInv, Released, Answered, Over
<1>3. CASE kind # "notFound"
  <2>1. Fails("error") /\ step \notin Over \cup {"connected"}
    BY <1>3 DEF FailsFor, Over
  <2>2. QED
    BY <2>1, FailingKeeps
<1>4. QED
  BY <1>1, <1>2, <1>3

\* A step within an attempt: nothing is opened, answered or given up.
LEMMA GoingKeeps ==
    ASSUME ConnectInv, NEW to, step \notin Over, Goes(to), post' = post,
           \/ to \in {"gathering", "answer"} /\ step \notin Answered
           \/ to = "connected" /\ step = "opening"
    PROVE  ConnectInv'
BY DEF ConnectInv, AttemptInv, ReleaseInv, Released, Answered, Over, Goes

\* A step of the server, of the receive loop or of the connection.
LEMMA OthersKeep ==
    ASSUME ConnectInv, UNCHANGED dialing,
           \/ ws' = ws /\ pending' = pending
           \/ ws \in {"open", "lost"} /\ ws' \in {"open", "lost"}
    PROVE  ConnectInv'
BY DEF ConnectInv, AttemptInv, ReleaseInv, Released, dialing

-----------------------------------------------------------------------------
(* The steps of connect().                                                 *)

\* A new attempt.
LEMMA StartKeeps ==
    ASSUME ConnectInv, Start
    PROVE  ConnectInv'
BY DEF Start, ConnectInv, AttemptInv, ReleaseInv, Released, Answered, Over

\* The wait between attempts is over.
LEMMA WakeKeeps ==
    ASSUME ConnectInv, Wake
    PROVE  ConnectInv'
<1>1. attempt < max_retries /\ attempt \in Attempt
  BY DEF Wake, ConnectInv, AttemptInv
<1>2. attempt' = attempt + 1 /\ attempt' \in Attempt
  BY <1>1, RetriesAssumption DEF Wake, Attempt
<1>3. AttemptInv'
  BY <1>2 DEF Wake, ConnectInv, AttemptInv, Answered
<1>4. ReleaseInv'
  BY DEF Wake, signaling, ConnectInv, ReleaseInv, Released, Answered, Over
<1>5. QED
  BY <1>3, <1>4 DEF ConnectInv

\* The credentials.
LEMMA TakesCredentialsKeeps ==
    ASSUME ConnectInv, TakesCredentials
    PROVE  ConnectInv'
<1>1. step = "credentials" /\ post' = post
  BY DEF TakesCredentials
<1>2. PICK f \in futures : IF f.kind = "result" THEN Goes("gathering") ELSE FailsFor(f.kind)
  BY DEF TakesCredentials
<1>3. CASE f.kind = "result"
  BY <1>1, <1>2, <1>3, GoingKeeps DEF Over, Answered
<1>4. CASE f.kind # "result"
  BY <1>1, <1>2, <1>4, ErrorKeeps
<1>5. QED
  BY <1>3, <1>4

\* The offer.
LEMMA OffersKeeps ==
    ASSUME ConnectInv, Offers
    PROVE  ConnectInv'
<1>1. step = "gathering" /\ post' = post
  BY DEF Offers
<1>2. CASE ws # "open" /\ Fails("error")
  BY <1>1, <1>2, FailingKeeps DEF Over
<1>3. CASE Goes("answer")
  BY <1>1, <1>3, GoingKeeps DEF Over, Answered
<1>4. CASE step' = "offering" /\ UNCHANGED <<attempt, answerTo, reason, ws>>
  BY <1>1, <1>4 DEF ConnectInv, AttemptInv, ReleaseInv, Released, Answered, Over
<1>5. QED
  BY <1>2, <1>3, <1>4 DEF Offers

\* The answer to the call with the offer.
LEMMA OfferAnsweredKeeps ==
    ASSUME ConnectInv, OfferAnswered
    PROVE  ConnectInv'
<1>1. step = "offering" /\ post' = post
  BY DEF OfferAnswered
<1>2. PICK f \in futures : IF f.kind = "result" THEN Goes("answer") ELSE FailsFor(f.kind)
  BY DEF OfferAnswered
<1>3. CASE f.kind = "result"
  BY <1>1, <1>2, <1>3, GoingKeeps DEF Over, Answered
<1>4. CASE f.kind # "result"
  BY <1>1, <1>2, <1>4, ErrorKeeps
<1>5. QED
  BY <1>3, <1>4

\* The answer of the remote player.
LEMMA ReceiveAnswerKeeps ==
    ASSUME ConnectInv, ReceiveAnswer
    PROVE  ConnectInv'
<1> DEFINE s == Head(queue)
<1>1. step = "answer"
  BY DEF ReceiveAnswer
<1>2. CASE FailsFor(queue[FirstError].kind) /\ post' = post
  BY <1>1, <1>2, ErrorKeeps
<1>3. CASE /\ s = Sig("CONNECTRESPONSE", attempt)
           /\ step' = "opening" /\ answerTo' = s.id /\ post' = "running"
           /\ UNCHANGED <<attempt, reason, ws, inbound, pending>>
  <2>1. answerTo' = attempt
    BY <1>3 DEF Sig
  <2>2. QED
    BY <1>1, <1>3, <2>1 DEF ConnectInv, AttemptInv, ReleaseInv, Released, Answered, Over
<1>4. CASE (Fails("remote") \/ Fails("error")) /\ post' = post
  BY <1>1, <1>4, FailingKeeps DEF Over
<1>5. CASE Goes("answer") /\ post' = post
  BY <1>1, <1>5, GoingKeeps DEF Over, Answered
<1>6. QED
  BY <1>2, <1>3, <1>4, <1>5 DEF ReceiveAnswer, TakesAnswer

\* A limit of connect().
LEMMA TimeoutKeeps ==
    ASSUME ConnectInv, Timeout
    PROVE  ConnectInv'
<1>1. step \notin Over \cup {"connected"} /\ post' = post /\ Fails("timeout")
  BY DEF Timeout, Over
<1>2. QED
  BY <1>1, FailingKeeps

\* A signal after the answer.
LEMMA PostReceivesKeeps ==
    ASSUME ConnectInv, PostReceives
    PROVE  ConnectInv'
<1>1. post = "running" /\ UNCHANGED <<step, attempt, answerTo, reason>>
  BY DEF PostReceives
<1>2. CASE PostEnds
  BY <1>1, <1>2 DEF PostEnds, Closes, ConnectInv, AttemptInv, ReleaseInv, Released, Answered, Over
<1>3. CASE PostGoesOn
  BY <1>1, <1>3 DEF PostGoesOn, ConnectInv, AttemptInv, ReleaseInv, Released
<1>4. QED
  BY <1>2, <1>3 DEF PostReceives

-----------------------------------------------------------------------------
(* The theorems.                                                           *)

\* Every step keeps the invariant.
LEMMA ConnectGoesOn == ConnectInv /\ [Next]_vars => ConnectInv'
<1> SUFFICES ASSUME ConnectInv, [Next]_vars
             PROVE  ConnectInv'
  OBVIOUS
<1>1. CASE Dialing
  BY <1>1, StartKeeps, WakeKeeps, TakesCredentialsKeeps, OffersKeeps, OfferAnsweredKeeps,
     ReceiveAnswerKeeps DEF Dialing
<1>2. CASE Opened
  <2>1. step = "opening" /\ Goes("connected") /\ post' = post
    BY <1>2 DEF Opened
  <2>2. QED
    BY <2>1, GoingKeeps DEF Over
<1>3. CASE Timeout \/ PostReceives
  BY <1>3, TimeoutKeeps, PostReceivesKeeps
<1>4. CASE Dispatch
  BY <1>4, OthersKeep DEF Dispatch
<1>5. CASE Transfer
  BY <1>5, OthersKeep DEF Transfer, signaling
<1>6. CASE ServerAnswers \/ ServerSends
  BY <1>6, OthersKeep DEF ServerAnswers, ServerSends, Sends
<1>7. CASE ServerDrops
  BY <1>7, OthersKeep DEF ServerDrops
<1>8. CASE UNCHANGED vars
  BY <1>8, OthersKeep DEF vars, signaling
<1>9. QED
  BY <1>1, <1>2, <1>3, <1>4, <1>5, <1>6, <1>7, <1>8 DEF Next

\* The inductive invariant holds in every state.
LEMMA ConnectInvariant == Spec => []ConnectInv
BY ConnectStarts, ConnectGoesOn, PTL DEF Spec

\* The answer that a channel is set up with is one to the offer of this attempt, however late
\* the others arrive, and "Player not found" ends connect() in the last attempt only.
THEOREM AttemptsStayApart == Spec => []AttemptsKeptApart
<1>1. ConnectInv => AttemptsKeptApart
  BY DEF ConnectInv, AttemptInv, AttemptsKeptApart
<1>2. QED
  BY <1>1, ConnectInvariant, PTL

\* Wherever an attempt fails, it leaves no signaling connection and no call behind.
THEOREM SignalingIsReleased == Spec => []SignalingReleased
<1>1. ConnectInv => SignalingReleased
  BY DEF ConnectInv, ReleaseInv, Released, Over, SignalingReleased
<1>2. QED
  BY <1>1, ConnectInvariant, PTL

-----------------------------------------------------------------------------
(* The end of a connection comes after its packets.                        *)

\* What the steps need to know of a segment.
Piece == [of : Int, place : Int, size : Int, remaining : Int]

QueuesInv ==
    /\ threads \in BOOLEAN /\ closed \in [End -> BOOLEAN]
    /\ wire \in Seq(Piece) /\ recvBuf \in Seq(Piece) /\ written \in Seq(Int)
    /\ calls \in Seq(Seq(Piece)) /\ packets \in Seq(Seq(Piece))
    /\ ~threads => calls = <<>>

\* The end is put once, when the channel has closed, behind everything.
EndInv ==
    /\ channel # "closed" => /\ reader = "reading"
                             /\ \A i \in 1..Len(packets) : packets[i] # EOF
                             /\ \A i \in 1..Len(calls) : calls[i] # EOF
    /\ channel = "closed" => closed["far"]
    /\ \A i \in 1..Len(calls) : calls[i] = EOF => i = Len(calls)
    /\ \A i \in 1..Len(packets) : packets[i] = EOF => i = Len(packets) /\ calls = <<>>

EndComesLast == QueuesInv /\ EndInv /\ ErrorAfterPackets

\* The first of a sequence, and the others.
LEMMA FirstAndRest ==
    ASSUME NEW S, NEW s \in Seq(S), s # <<>>
    PROVE  /\ Head(s) = s[1] /\ Head(s) \in S /\ Len(s) \in Nat /\ Len(s) >= 1
           /\ Tail(s) \in Seq(S) /\ Len(Tail(s)) = Len(s) - 1
           /\ \A i \in 1..Len(Tail(s)) : Tail(s)[i] = s[i + 1] /\ i + 1 \in 1..Len(s)
BY HeadTailProperties

\* A sequence with one more at its end.
LEMMA OneMore ==
    ASSUME NEW S, NEW s \in Seq(S), NEW e \in S
    PROVE  /\ Append(s, e) \in Seq(S) /\ Len(Append(s, e)) = Len(s) + 1 /\ Append(s, e) # <<>>
           /\ Len(s) \in Nat /\ Append(s, e)[Len(s) + 1] = e
           /\ \A i \in 1..Len(s) : Append(s, e)[i] = s[i]
           /\ \A i \in 1..Len(s) + 1 : i \in 1..Len(s) \/ i = Len(s) + 1
<1>1. Len(s) \in Nat
  BY LenProperties
<1>2. /\ Append(s, e) \in Seq(S) /\ Len(Append(s, e)) = Len(s) + 1
      /\ Append(s, e)[Len(s) + 1] = e
      /\ \A i \in 1..Len(s) : Append(s, e)[i] = s[i]
  BY AppendProperties
<1>3. Append(s, e) # <<>>
  BY <1>1, <1>2, EmptySeq
<1>4. \A i \in 1..Len(s) + 1 : i \in 1..Len(s) \/ i = Len(s) + 1
  BY <1>1
<1> QED BY <1>1, <1>2, <1>3, <1>4

\* What Put does to what waits for the loop, and for the reader.
LEMMA PutKeeps ==
    ASSUME QueuesInv, NEW e \in Seq(Piece), Put(e), UNCHANGED threads
    PROVE  calls' \in Seq(Seq(Piece)) /\ packets' \in Seq(Seq(Piece)) /\ (~threads => calls' = <<>>)
<1>1. calls \in Seq(Seq(Piece)) /\ packets \in Seq(Seq(Piece)) /\ (~threads => calls = <<>>)
  BY DEF QueuesInv
<1>2. Append(calls, e) \in Seq(Seq(Piece))
  BY <1>1, OneMore
<1>3. Append(packets, e) \in Seq(Seq(Piece))
  BY <1>1, OneMore
<1> QED BY <1>1, <1>2, <1>3 DEF Put

LEMMA EndStarts == Init => EndComesLast
BY DEF Init, ConnInit, EndComesLast, QueuesInv, EndInv, ErrorAfterPackets, Piece, End

\* A step that puts nothing where the reader waits, and reads nothing.
LEMMA NothingPut ==
    ASSUME EndComesLast, QueuesInv', UNCHANGED <<calls, packets, reader>>,
           channel' = "closed" <=> channel = "closed", closed["far"] => closed'["far"]
    PROVE  EndComesLast'
BY DEF EndComesLast, EndInv, ErrorAfterPackets

\* One that puts a packet, before the channel has closed.
LEMMA PacketPut ==
    ASSUME EndComesLast, QueuesInv', NEW e \in Seq(Piece), e # EOF, Put(e), channel # "closed",
           UNCHANGED <<channel, closed, reader>>
    PROVE  EndComesLast'
<1>1. CASE threads
  <2>1. calls' = Append(calls, e) /\ packets' = packets
    BY <1>1 DEF Put
  <2>2. \A i \in 1..Len(calls') : calls'[i] # EOF
    BY <2>1, OneMore DEF EndComesLast, QueuesInv, EndInv
  <2> QED BY <2>1, <2>2 DEF EndComesLast, EndInv, ErrorAfterPackets
<1>2. CASE ~threads
  <2>1. packets' = Append(packets, e) /\ calls' = calls
    BY <1>2 DEF Put
  <2>2. \A i \in 1..Len(packets') : packets'[i] # EOF
    BY <2>1, OneMore DEF EndComesLast, QueuesInv, EndInv
  <2> QED BY <2>1, <2>2 DEF EndComesLast, EndInv, ErrorAfterPackets
<1> QED BY <1>1, <1>2

LEMMA OnMessageKeeps ==
    ASSUME EndComesLast, OnMessage
    PROVE  EndComesLast'
<1> DEFINE s == Head(wire)
<1>1. /\ s \in Piece /\ wire' = Tail(wire) /\ Tail(wire) \in Seq(Piece) /\ channel # "closed"
      /\ UNCHANGED <<threads, channel, written, closed, reader>>
  BY FirstAndRest DEF OnMessage, EndComesLast, QueuesInv
<1> DEFINE more == Append(recvBuf, s)
<1>2. more \in Seq(Piece) /\ more # EOF
  <2>1. recvBuf \in Seq(Piece)
    BY DEF EndComesLast, QueuesInv
  <2> HIDE DEF s
  <2> QED BY <1>1, <2>1, OneMore DEF EOF
<1>3. \/ recvBuf' \in {recvBuf, <<>>, more} /\ UNCHANGED <<calls, packets>>
      \/ recvBuf' = <<>> /\ Put(more)
  BY DEF OnMessage, Forget, buffers
<1> HIDE DEF more, s
<1>4. <<>> \in Seq(Piece)
  OBVIOUS
<1>5. CASE recvBuf' \in {recvBuf, <<>>, more} /\ UNCHANGED <<calls, packets>>
  <2>1. QueuesInv'
    BY <1>1, <1>2, <1>4, <1>5 DEF EndComesLast, QueuesInv
  <2> QED BY <1>1, <1>5, <2>1, NothingPut
<1>6. CASE recvBuf' = <<>> /\ Put(more)
  <2>1. calls' \in Seq(Seq(Piece)) /\ packets' \in Seq(Seq(Piece)) /\ (~threads => calls' = <<>>)
    BY <1>1, <1>2, <1>6, PutKeeps DEF EndComesLast
  <2>2. QueuesInv'
    BY <1>1, <1>4, <1>6, <2>1 DEF EndComesLast, QueuesInv
  <2> QED BY <1>1, <1>2, <1>6, <2>2, PacketPut
<1> QED BY <1>3, <1>5, <1>6

\* The loop runs what the thread gave it, in order.
LEMMA RunCallKeeps ==
    ASSUME EndComesLast, RunCall
    PROVE  EndComesLast'
<1> DEFINE e == Head(calls)
<1>1. /\ calls # <<>> /\ packets' = Append(packets, e) /\ calls' = Tail(calls)
      /\ UNCHANGED <<threads, channel, written, wire, recvBuf, closed, reader>>
  BY DEF RunCall
<1>2. /\ e = calls[1] /\ e \in Seq(Piece) /\ Len(calls) \in Nat /\ Len(calls) >= 1
      /\ calls' \in Seq(Seq(Piece)) /\ Len(calls') = Len(calls) - 1
      /\ \A i \in 1..Len(calls') : calls'[i] = calls[i + 1] /\ i + 1 \in 1..Len(calls)
  BY <1>1, FirstAndRest DEF EndComesLast, QueuesInv
<1>3. /\ packets' \in Seq(Seq(Piece)) /\ Len(packets') = Len(packets) + 1 /\ Len(packets) \in Nat
      /\ packets'[Len(packets) + 1] = e
      /\ \A i \in 1..Len(packets) : packets'[i] = packets[i]
      /\ \A i \in 1..Len(packets) + 1 : i \in 1..Len(packets) \/ i = Len(packets) + 1
  BY <1>1, <1>2, OneMore DEF EndComesLast, QueuesInv
<1> HIDE DEF e
<1>4. QueuesInv'
  BY <1>1, <1>2, <1>3 DEF EndComesLast, QueuesInv
<1>5. \A i \in 1..Len(packets) : packets[i] # EOF
  BY <1>1 DEF EndComesLast, EndInv
<1>6. e = EOF => Len(calls) = 1 /\ calls' = <<>>
  <2>1. 1 \in 1..Len(calls)
    BY <1>2
  <2>2. e = EOF => Len(calls) = 1
    BY <1>2, <2>1 DEF EndComesLast, EndInv
  <2>3. Len(calls') = 0 => calls' = <<>>
    BY <1>2, EmptySeq
  <2> QED BY <1>2, <2>2, <2>3
<1>7. \A i \in 1..Len(packets') : packets'[i] = EOF => i = Len(packets') /\ calls' = <<>>
  BY <1>3, <1>5, <1>6
<1>8. \A i \in 1..Len(calls') : calls'[i] = EOF => i = Len(calls')
  BY <1>2 DEF EndComesLast, EndInv
<1>9. channel # "closed" => /\ \A i \in 1..Len(packets') : packets'[i] # EOF
                            /\ \A i \in 1..Len(calls') : calls'[i] # EOF
  <2> SUFFICES ASSUME channel # "closed"
               PROVE  /\ \A i \in 1..Len(packets') : packets'[i] # EOF
                      /\ \A i \in 1..Len(calls') : calls'[i] # EOF
    OBVIOUS
  <2>1. \A i \in 1..Len(calls) : calls[i] # EOF
    BY DEF EndComesLast, EndInv
  <2>2. 1 \in 1..Len(calls)
    BY <1>2
  <2>3. e # EOF
    BY <1>2, <2>1, <2>2
  <2>4. \A i \in 1..Len(packets') : packets'[i] # EOF
    BY <1>3, <1>5, <2>3
  <2>5. \A i \in 1..Len(calls') : calls'[i] # EOF
    BY <1>2, <2>1
  <2> QED BY <2>4, <2>5
<1>10. reader # "raised"
  BY <1>1 DEF EndComesLast, ErrorAfterPackets
<1>11. EndInv'
  BY <1>1, <1>7, <1>8, <1>9 DEF EndComesLast, EndInv
<1> QED BY <1>1, <1>4, <1>10, <1>11 DEF EndComesLast, ErrorAfterPackets

\* _on_dc_close puts the end.
LEMMA OnCloseKeeps ==
    ASSUME EndComesLast, OnClose
    PROVE  EndComesLast'
<1>1. /\ channel # "closed" /\ channel' = "closed" /\ closed' = [e \in End |-> TRUE] /\ Put(EOF)
      /\ UNCHANGED <<threads, written, wire, recvBuf, reader>>
  BY DEF OnClose
<1>2. reader = "reading" /\ (\A i \in 1..Len(packets) : packets[i] # EOF)
      /\ (\A i \in 1..Len(calls) : calls[i] # EOF)
  BY <1>1 DEF EndComesLast, EndInv
<1>3. EOF \in Seq(Piece)
  BY DEF EOF
<1>4. calls' \in Seq(Seq(Piece)) /\ packets' \in Seq(Seq(Piece)) /\ (~threads => calls' = <<>>)
  BY <1>1, <1>3, PutKeeps DEF EndComesLast
<1>5. QueuesInv'
  BY <1>1, <1>4 DEF EndComesLast, QueuesInv
<1>6. closed'["far"]
  BY <1>1 DEF End
<1>7. CASE threads
  <2>1. calls' = Append(calls, EOF) /\ packets' = packets
    BY <1>1, <1>7 DEF Put
  <2>2. \A i \in 1..Len(calls') : calls'[i] = EOF => i = Len(calls')
    BY <1>2, <1>3, <2>1, OneMore DEF EndComesLast, QueuesInv
  <2> QED BY <1>1, <1>2, <1>5, <1>6, <2>1, <2>2 DEF EndComesLast, EndInv, ErrorAfterPackets
<1>8. CASE ~threads
  <2>1. packets' = Append(packets, EOF) /\ calls' = calls /\ calls = <<>>
    BY <1>1, <1>8 DEF Put, EndComesLast, QueuesInv
  <2>2. \A i \in 1..Len(packets') : packets'[i] = EOF => i = Len(packets')
    BY <1>2, <1>3, <2>1, OneMore DEF EndComesLast, QueuesInv
  <2> QED BY <1>1, <1>2, <1>5, <1>6, <2>1, <2>2 DEF EndComesLast, EndInv, ErrorAfterPackets
<1> QED BY <1>7, <1>8

\* read_packet raises when it takes the end, and nothing is behind the end.
LEMMA ReadPacketKeeps ==
    ASSUME EndComesLast, ReadPacket
    PROVE  EndComesLast'
<1>1. /\ packets # <<>> /\ packets' = Tail(packets) /\ reader = "reading"
      /\ UNCHANGED <<threads, channel, written, wire, recvBuf, calls, closed>>
  BY DEF ReadPacket
<1>2. /\ Head(packets) = packets[1] /\ Len(packets) \in Nat /\ Len(packets) >= 1
      /\ packets' \in Seq(Seq(Piece)) /\ Len(packets') = Len(packets) - 1
      /\ \A i \in 1..Len(packets') : packets'[i] = packets[i + 1] /\ i + 1 \in 1..Len(packets)
  BY <1>1, FirstAndRest DEF EndComesLast, QueuesInv
<1>3. QueuesInv'
  BY <1>1, <1>2 DEF EndComesLast, QueuesInv
<1>4. \A i \in 1..Len(packets') : packets'[i] = EOF => i = Len(packets') /\ calls' = <<>>
  <2> SUFFICES ASSUME NEW i \in 1..Len(packets'), packets'[i] = EOF
               PROVE  i = Len(packets') /\ calls' = <<>>
    OBVIOUS
  <2>1. i + 1 \in 1..Len(packets) /\ packets[i + 1] = EOF
    BY <1>2
  <2>2. i + 1 = Len(packets) /\ calls = <<>>
    BY <2>1 DEF EndComesLast, EndInv
  <2>3. calls' = <<>>
    BY <1>1, <2>2
  <2>4. Len(packets') = Len(packets) - 1 /\ Len(packets) \in Nat
    BY <1>2
  <2>5. i = Len(packets')
    BY <2>2, <2>4
  <2> QED BY <2>3, <2>5
<1>5. channel # "closed" => \A i \in 1..Len(packets') : packets'[i] # EOF
  BY <1>2 DEF EndComesLast, EndInv
<1>6. CASE packets[1] = EOF
  <2>1. Len(packets) = 1 /\ calls = <<>> /\ channel = "closed"
    BY <1>2, <1>6 DEF EndComesLast, EndInv
  <2>2. packets' = <<>>
    BY <1>2, <2>1
  <2> QED BY <1>1, <1>3, <1>4, <2>1, <2>2 DEF EndComesLast, EndInv, ErrorAfterPackets
<1>7. CASE packets[1] # EOF
  <2>1. reader' = "reading"
    BY <1>1, <1>2, <1>7 DEF ReadPacket
  <2> QED BY <1>1, <1>3, <1>4, <1>5, <2>1 DEF EndComesLast, EndInv, ErrorAfterPackets
<1> QED BY <1>6, <1>7

\* write_packet cuts a packet into segments.
LEMMA CutIs ==
    ASSUME NEW of \in Int, NEW size \in Int
    PROVE  /\ Segments(size) \in Int
           /\ Cut(of, size) \in Seq(Piece)
           /\ \A k \in Int : k < Segments(size) => SubSeq(Cut(of, size), 1, k) \in Seq(Piece)
<1>1. Segments(size) \in Int /\ \A i \in Int : SegmentSize(size, i) \in Int
  BY SizesAssumption DEF Segments, SegmentSize
<1> DEFINE n == IF Segments(size) > 0 THEN Segments(size) ELSE 0
           piece(i) == [of |-> of, place |-> i, size |-> SegmentSize(size, i),
                        remaining |-> Segments(size) - i]
<1>2. n \in Nat /\ 1..Segments(size) = 1..n
  BY <1>1, SMTT(60)
<1>3. \A i \in Int : piece(i) \in Piece
  BY <1>1 DEF Piece
<1>4. Cut(of, size) = [i \in 1..n |-> piece(i)]
  BY <1>2 DEF Cut
<1> HIDE DEF n, piece
<1>5. \A i \in 1..n : piece(i) \in Piece
  BY <1>2, <1>3
<1>6. Cut(of, size) \in Seq(Piece)
  BY <1>2, <1>4, <1>5
<1>7. ASSUME NEW k \in Int, k < Segments(size)
      PROVE  SubSeq(Cut(of, size), 1, k) \in Seq(Piece)
  <2>1. \A i \in 1..k : i \in 1..n
    BY <1>1, <1>2, <1>7
  <2>2. \A i \in 1..k : Cut(of, size)[i] \in Piece
    BY <1>4, <1>5, <2>1
  <2> QED BY <2>2, SubSeqProperties
<1> QED BY <1>1, <1>6, <1>7

LEMMA WriteKeeps ==
    ASSUME EndComesLast, Write \/ WriteCutShort
    PROVE  EndComesLast'
<1>1. UNCHANGED <<threads, recvBuf, calls, packets, closed, reader>> /\ channel = "open"
      /\ channel' \in {"open", "closing"}
  BY DEF Write, WriteCutShort, buffers
<1>2. /\ written \in Seq(Int) /\ wire \in Seq(Piece) /\ Len(written) \in Nat
      /\ \A size \in Int : Append(written, size) \in Seq(Int)
      /\ \A cut \in Seq(Piece) : wire \o cut \in Seq(Piece)
  <2>1. written \in Seq(Int) /\ wire \in Seq(Piece)
    BY DEF EndComesLast, QueuesInv
  <2>2. Len(written) \in Nat /\ \A size \in Int : Append(written, size) \in Seq(Int)
    BY <2>1, LenProperties, AppendProperties
  <2>3. \A cut \in Seq(Piece) : wire \o cut \in Seq(Piece)
    BY <2>1, ConcatProperties
  <2> QED BY <2>1, <2>2, <2>3
<1>3. \A size \in Sizes : size \in Int
  BY SizesAssumption DEF Sizes
<1>4. ASSUME Write
      PROVE  wire' \in Seq(Piece) /\ written' \in Seq(Int)
  <2>1. PICK size \in Sizes : /\ written' = Append(written, size)
                              /\ wire' = wire \o Cut(Len(written) + 1, size)
    BY <1>4 DEF Write
  <2>2. size \in Int /\ Len(written) + 1 \in Int
    BY <1>2, <1>3
  <2>3. Cut(Len(written) + 1, size) \in Seq(Piece)
    BY <2>2, CutIs
  <2> QED BY <1>2, <2>1, <2>2, <2>3
<1>5. ASSUME WriteCutShort
      PROVE  wire' \in Seq(Piece) /\ written' \in Seq(Int)
  <2>1. PICK size \in Sizes, gone \in 1..MAX_SEGMENTS :
           /\ gone < Segments(size)
           /\ wire' = wire \o SubSeq(Cut(Len(written) + 1, size), 1, gone)
           /\ written' = Append(written, size)
    BY <1>5 DEF WriteCutShort
  <2>2. size \in Int /\ Len(written) + 1 \in Int /\ gone \in Int
    BY <1>2, <1>3
  <2>3. SubSeq(Cut(Len(written) + 1, size), 1, gone) \in Seq(Piece)
    BY <2>1, <2>2, CutIs
  <2> QED BY <1>2, <2>1, <2>2, <2>3
<1>6. wire' \in Seq(Piece) /\ written' \in Seq(Int)
  BY <1>4, <1>5
<1>7. QueuesInv'
  BY <1>1, <1>6 DEF EndComesLast, QueuesInv
<1> QED BY <1>1, <1>7, NothingPut

\* close() closes the channel in order; the network may go first.
LEMMA ClosingKeeps ==
    ASSUME EndComesLast, Lost \/ \E e \in End : Close(e)
    PROVE  EndComesLast'
<1>1. CASE Lost
  <2>1. QueuesInv'
    BY <1>1 DEF Lost, buffers, EndComesLast, QueuesInv
  <2> QED BY <1>1, <2>1, NothingPut DEF Lost, buffers
<1>2. CASE \E e \in End : Close(e)
  <2>1. PICK e \in End : Close(e)
    BY <1>2
  <2>2. closed' \in [End -> BOOLEAN] /\ (closed["far"] => closed'["far"])
    BY <2>1 DEF Close, EndComesLast, QueuesInv, End
  <2>3. QueuesInv'
    BY <2>1, <2>2 DEF Close, buffers, EndComesLast, QueuesInv
  <2>4. channel' = "closed" <=> channel = "closed"
    BY <2>1 DEF Close
  <2> QED BY <2>1, <2>2, <2>3, <2>4, NothingPut DEF Close, buffers
<1> QED BY <1>1, <1>2

LEMMA EndGoesOn == EndComesLast /\ [Next]_vars => EndComesLast'
<1> SUFFICES ASSUME EndComesLast, [Next]_vars
             PROVE  EndComesLast'
  OBVIOUS
<1>1. CASE UNCHANGED connVars
  <2>1. QueuesInv'
    BY <1>1 DEF connVars, buffers, EndComesLast, QueuesInv
  <2> QED BY <1>1, <2>1, NothingPut DEF connVars, buffers
<1>2. CASE Transfer
  BY <1>2, WriteKeeps, OnMessageKeeps, RunCallKeeps, ClosingKeeps, OnCloseKeeps, ReadPacketKeeps
  DEF Transfer, ConnNext
<1>3. CASE PostReceives
  BY <1>1, <1>3, ClosingKeeps DEF PostReceives, End
<1>4. CASE Dialing \/ Opened \/ Timeout \/ Dispatch \/ ServerAnswers \/ ServerSends \/ ServerDrops
           \/ UNCHANGED vars
  BY <1>1, <1>4
  DEF Dialing, Start, Wake, TakesCredentials, Offers, OfferAnswered, ReceiveAnswer, Opened, Timeout,
      Dispatch, ServerAnswers, ServerSends, ServerDrops, Sends, vars
<1> QED BY <1>2, <1>3, <1>4 DEF Next

\* _closed is set before the last packets are in the queue, in a thread; a reader gets the error
\* after all of them nevertheless.
THEOREM ErrorComesAfterPackets == Spec => []ErrorAfterPackets
<1>1. EndComesLast => ErrorAfterPackets
  BY DEF EndComesLast
<1> QED BY <1>1, EndStarts, EndGoesOn, PTL DEF Spec

-----------------------------------------------------------------------------
(* What is read is what was written.                                       *)

\* Multiples of a segment are in the order of their factors.
LEMMA Multiples ==
    ASSUME NEW m \in Nat \ {0}, NEW i \in Int, NEW j \in Int, m * i < m * j
    PROVE  i < j
<1> SUFFICES ASSUME j <= i PROVE FALSE
  OBVIOUS
<1>1. i - j \in Nat
  OBVIOUS
<1>2. m * (i - j) \in Nat
  BY <1>1
<1>3. m * i = m * j + m * (i - j)
  OBVIOUS
<1>4. m * i \in Int /\ m * j \in Int
  OBVIOUS
<1> QED BY <1>2, <1>3, <1>4

\* The segments of a packet hold all of its bytes, and each holds some.
LEMMA SegmentsAre ==
    ASSUME NEW size \in Nat \ {0}, NEW n, n = Segments(size)
    PROVE  /\ n \in Nat \ {0}
           /\ size = MAX_MESSAGE_SIZE * (n - 1) + SegmentSize(size, n)
           /\ \A place \in 1..n : SegmentSize(size, place) > 0
<1> DEFINE m == MAX_MESSAGE_SIZE
           q == (size + m - 1) \div m
<1>1. m \in Nat \ {0}
  BY SizesAssumption
<1>2. n = q /\ \A place : SegmentSize(size, place) = IF place * m <= size THEN m ELSE size % m
  BY DEF Segments, SegmentSize
<1> HIDE DEF m
<1>3. q \in Int /\ m * q <= size + m - 1 /\ size + m - 1 < m * q + m
  <2>1. /\ size + m - 1 \in Nat
    BY <1>1
  <2>2. \A x \in Nat : x \div m \in Int /\ x % m \in 0..(m - 1) /\ x = m * (x \div m) + (x % m)
    BY <1>1
  <2>3. /\ q \in Int /\ (size + m - 1) % m \in 0..(m - 1)
        /\ size + m - 1 = m * q + ((size + m - 1) % m)
    BY <2>1, <2>2
  <2>4. m * q \in Int
    BY <1>1, <2>3
  <2> HIDE DEF q
  <2> QED BY <1>1, <2>3, <2>4
<1> HIDE DEF q
<1>4. m * q \in Int /\ m * (q - 1) = m * q - m /\ m * (q - 1) < size /\ size <= m * q
  BY <1>1, <1>3
<1>5. q \in Nat \ {0}
  <2>1. m * 0 = 0
    BY <1>1
  <2>2. m * 0 < m * q
    BY <1>4, <2>1
  <2> QED BY <1>1, <1>3, <2>2, Multiples
<1>6. size % m \in 0..(m - 1) /\ size \div m \in Int /\ size = m * (size \div m) + (size % m)
  BY <1>1
<1> DEFINE d == size \div m
           r == size % m
<1>7. r \in Nat /\ r < m /\ d \in Int /\ size = m * d + r /\ m * d \in Int
  BY <1>1, <1>6
<1> HIDE DEF d, r
<1>8. m * (d + 1) = m * d + m
  BY <1>1, <1>7
<1>9. ASSUME size < m * q
      PROVE  size = m * (q - 1) + r /\ r > 0
  <2>1. m * d < m * q /\ m * (q - 1) < m * (d + 1)
    BY <1>1, <1>4, <1>7, <1>8, <1>9
  <2>2. d < q /\ q - 1 < d + 1
    BY <1>1, <1>3, <1>7, <2>1, Multiples
  <2>3. d = q - 1
    BY <1>3, <1>7, <2>2
  <2> QED BY <1>4, <1>7, <2>3
<1>10. m * q = q * m /\ (size < m * q \/ q * m <= size)
  BY <1>1, <1>3, <1>4
<1>11. size = m * (q - 1) + SegmentSize(size, q)
  <2>1. CASE q * m <= size
    BY <1>1, <1>2, <1>4, <1>10, <2>1
  <2>2. CASE ~(q * m <= size)
    BY <1>2, <1>9, <1>10, <2>2 DEF r
  <2> QED BY <2>1, <2>2
<1>12. \A place \in 1..q : SegmentSize(size, place) > 0
  <2> SUFFICES ASSUME NEW place \in 1..q, ~(place * m <= size)
               PROVE  size % m > 0
    BY <1>1, <1>2
  <2>1. place * m = m * place /\ m * place \in Int /\ m * (q - place) \in Nat
    BY <1>1, <1>3
  <2>2. m * q = m * place + m * (q - place)
    BY <1>1, <1>3
  <2>3. size < m * q
    BY <1>4, <2>1, <2>2
  <2> QED BY <1>9, <2>3 DEF r
<1> QED BY <1>2, <1>5, <1>11, <1>12 DEF m

\* An empty packet is one segment with nothing in it.
LEMMA EmptySegment == Segments(0) = 1 /\ SegmentSize(0, 1) = 0
<1>1. MAX_MESSAGE_SIZE \in Nat \ {0}
  BY SizesAssumption
<1>2. 0 % MAX_MESSAGE_SIZE = 0
  BY <1>1
<1> QED BY <1>1, <1>2 DEF Segments, SegmentSize

\* What goes from the head of one sequence to the end of another stays where it is in both.
LEMMA HandOver ==
    ASSUME NEW S, NEW s \in Seq(S), NEW t \in Seq(S), t # <<>>
    PROVE  Append(s, Head(t)) \o Tail(t) = s \o t
<1> DEFINE a == Append(s, Head(t))
           b == Tail(t)
<1>1. /\ Head(t) = t[1] /\ Head(t) \in S /\ b \in Seq(S) /\ Len(b) = Len(t) - 1
      /\ Len(t) \in Nat \ {0} /\ \A i \in 1..Len(b) : b[i] = t[i + 1]
  BY EmptySeq, HeadTailProperties
<1>2. /\ a \in Seq(S) /\ Len(a) = Len(s) + 1 /\ a[Len(s) + 1] = t[1]
      /\ \A i \in 1..Len(s) : a[i] = s[i]
  BY <1>1, AppendProperties
<1> HIDE DEF a, b
<1>3. /\ a \o b \in Seq(S) /\ Len(a \o b) = Len(a) + Len(b)
      /\ \A i \in 1..Len(a) + Len(b) : (a \o b)[i] = IF i <= Len(a) THEN a[i] ELSE b[i - Len(a)]
  BY <1>1, <1>2, ConcatProperties, ZenonT(60)
<1>4. /\ s \o t \in Seq(S) /\ Len(s \o t) = Len(s) + Len(t)
      /\ \A i \in 1..Len(s) + Len(t) : (s \o t)[i] = IF i <= Len(s) THEN s[i] ELSE t[i - Len(s)]
  BY ConcatProperties
<1>5. Len(s) \in Nat
  BY LenProperties
<1>6. Len(a \o b) = Len(s \o t) /\ Len(a) + Len(b) = Len(s) + Len(t)
  BY <1>1, <1>2, <1>3, <1>4, <1>5
<1>7. ASSUME NEW i \in 1..Len(a \o b)
      PROVE  (a \o b)[i] = (s \o t)[i]
  <2>1. CASE i <= Len(s)
    BY <1>1, <1>2, <1>3, <1>4, <1>5, <1>6, <2>1
  <2>2. CASE i = Len(s) + 1
    <3>1. i - Len(s) = 1
      BY <1>5, <2>2
    <3>2. (s \o t)[i] = t[1]
      BY <1>4, <1>5, <1>6, <1>7, <2>2, <3>1
    <3>3. (a \o b)[i] = a[i]
      BY <1>2, <1>3, <1>5, <1>7, <2>2
    <3> QED BY <1>2, <2>2, <3>2, <3>3
  <2>3. CASE i > Len(s) + 1
    <3>1. i - Len(a) \in 1..Len(b) /\ (i - Len(a)) + 1 = i - Len(s)
      BY <1>1, <1>2, <1>3, <1>5, <1>7, <2>3
    <3>2. (a \o b)[i] = b[i - Len(a)]
      BY <1>2, <1>3, <1>5, <1>7, <2>3
    <3>3. (s \o t)[i] = t[i - Len(s)]
      BY <1>4, <1>5, <1>6, <1>7, <2>3
    <3> QED BY <1>1, <3>1, <3>2, <3>3
  <2>4. i \in Int /\ Len(s) \in Int
    BY <1>5, <1>7
  <2>5. \A x, y \in Int : x <= y \/ x = y + 1 \/ x > y + 1
    OBVIOUS
  <2>6. i <= Len(s) \/ i = Len(s) + 1 \/ i > Len(s) + 1
    BY <2>4, <2>5
  <2> QED BY <2>1, <2>2, <2>3, <2>6
<1>8. a \o b = s \o t
  BY <1>3, <1>4, <1>6, <1>7, SeqEqual
<1> QED BY <1>8 DEF a, b

\* What is put at the end of the second is put at the end of both.
LEMMA PutBehind ==
    ASSUME NEW S, NEW s \in Seq(S), NEW t \in Seq(S), NEW e \in S
    PROVE  s \o Append(t, e) = Append(s \o t, e)
<1>1. <<e>> \in Seq(S) /\ s \o t \in Seq(S)
  BY ConcatProperties
<1>2. Append(t, e) = t \o <<e>> /\ Append(s \o t, e) = (s \o t) \o <<e>>
  BY <1>1, AppendIsConcat
<1> QED BY <1>1, <1>2, ConcatAssociative

\* A segment of the n-th of the packets w.
Nth(n, place, w) ==
    [of |-> n, place |-> place, size |-> SegmentSize(w[n], place),
     remaining |-> Segments(w[n]) - place]

Follows(s, t, w) ==
    IF s.place < Segments(w[s.of]) THEN t.of = s.of /\ t.place = s.place + 1
    ELSE t.of = s.of + 1 /\ t.place = 1

\* x are segments of w, one after the other; d packets and k segments are before them.
OnWire(x, w, d, k) ==
    /\ \A i \in 1..Len(x) : /\ x[i].of \in 1..Len(w) /\ x[i].place \in 1..Segments(w[x[i].of])
                            /\ x[i] = Nth(x[i].of, x[i].place, w)
    /\ \A i \in 1..Len(x) : i + 1 \in 1..Len(x) => Follows(x[i], x[i + 1], w)
    /\ x # <<>> => x[1].of = d + 1 /\ x[1].place = k + 1

\* They are all there is.
AllSent(x, w, d, k) ==
    IF x = <<>> THEN d = Len(w) /\ k = 0
    ELSE x[Len(x)].of = Len(w) /\ x[Len(x)].place = Segments(w[Len(w)])

\* The k segments before them, of a packet that is not complete, and what is waited for.
InBuffer(b, e, w, d, k) ==
    /\ Len(b) = k /\ \A i \in 1..k : b[i] = Nth(d + 1, i, w)
    /\ k > 0 => d < Len(w) /\ k < Segments(w[d + 1])
    /\ e = IF k = 0 THEN -1 ELSE Segments(w[d + 1]) - k

\* The packets of s are those of w that can be read, in order.
Filled(n, w) == {i \in 1..n : w[i] > 0}
NumbersTo(s, i) == {Number(s[j]) : j \in 1..i}
Whole(p, w) ==
    /\ Number(p) \in 1..Len(w) /\ w[Number(p)] > 0 /\ Len(p) = Segments(w[Number(p)])
    /\ \A i \in 1..Len(p) : p[i] = Nth(Number(p), i, w)
InTurn(s, w) ==
    \A i \in 1..Len(s) : s[i] # EOF =>
        /\ Whole(s[i], w)
        /\ NumbersTo(s, i) = Filled(Number(s[i]), w)
        /\ \A j \in 1..(i - 1) : Number(s[j]) < Number(s[i])

\* What has been written stays as it was.
Extends(w, v) == Len(w) <= Len(v) /\ \A n \in 1..Len(w) : v[n] = w[n]

LEMMA MoreWritten ==
    ASSUME NEW w \in Seq(Nat), NEW v \in Seq(Nat), Extends(w, v)
    PROVE  /\ Len(w) \in Nat /\ Len(v) \in Nat
           /\ \A n \in 1..Len(w) : n \in 1..Len(v) /\ v[n] = w[n]
           /\ \A n \in 1..Len(w) : \A place : Nth(n, place, v) = Nth(n, place, w)
           /\ \A n \in 0..Len(w) : Filled(n, v) = Filled(n, w)
<1>1. Len(w) \in Nat /\ Len(v) \in Nat
  BY LenProperties
<1>2. \A n \in 1..Len(w) : n \in 1..Len(v) /\ v[n] = w[n]
  BY <1>1 DEF Extends
<1>3. \A n \in 1..Len(w) : \A place : Nth(n, place, v) = Nth(n, place, w)
  BY <1>2 DEF Nth
<1>4. ASSUME NEW n \in 0..Len(w)
      PROVE  Filled(n, v) = Filled(n, w)
  <2>1. \A i \in 1..n : v[i] = w[i]
    BY <1>1, <1>2
  <2> QED BY <2>1 DEF Filled
<1> QED BY <1>1, <1>2, <1>3, <1>4

LEMMA MoreInTurn ==
    ASSUME NEW w \in Seq(Nat), NEW v \in Seq(Nat), Extends(w, v), NEW s, InTurn(s, w)
    PROVE  InTurn(s, v)
<1> SUFFICES ASSUME NEW i \in 1..Len(s), s[i] # EOF
             PROVE  /\ Whole(s[i], v)
                    /\ NumbersTo(s, i) = Filled(Number(s[i]), v)
                    /\ \A j \in 1..(i - 1) : Number(s[j]) < Number(s[i])
  BY DEF InTurn
<1>1. /\ Whole(s[i], w) /\ NumbersTo(s, i) = Filled(Number(s[i]), w)
      /\ \A j \in 1..(i - 1) : Number(s[j]) < Number(s[i])
  BY DEF InTurn
<1> DEFINE n == Number(s[i])
<1>2. n \in 1..Len(w)
  BY <1>1 DEF Whole
<1> HIDE DEF n
<1>3. /\ n \in 1..Len(v) /\ v[n] = w[n] /\ n \in 0..Len(w)
      /\ \A place : Nth(n, place, v) = Nth(n, place, w)
  BY <1>2, MoreWritten
<1>4. Filled(n, v) = Filled(n, w)
  BY <1>3, MoreWritten
<1>5. Whole(s[i], v)
  BY <1>1, <1>3 DEF Whole, n
<1> QED BY <1>1, <1>4, <1>5 DEF n

LEMMA MoreOnWire ==
    ASSUME NEW w \in Seq(Nat), NEW v \in Seq(Nat), Extends(w, v), NEW x, NEW d, NEW k,
           OnWire(x, w, d, k)
    PROVE  OnWire(x, v, d, k)
<1>1. ASSUME NEW i \in 1..Len(x)
      PROVE  /\ x[i].of \in 1..Len(v) /\ x[i].place \in 1..Segments(v[x[i].of])
             /\ x[i] = Nth(x[i].of, x[i].place, v)
             /\ i + 1 \in 1..Len(x) => Follows(x[i], x[i + 1], v)
  <2> DEFINE n == x[i].of
  <2>1. n \in 1..Len(w) /\ x[i].place \in 1..Segments(w[n]) /\ x[i] = Nth(n, x[i].place, w)
    BY DEF OnWire
  <2>2. i + 1 \in 1..Len(x) => Follows(x[i], x[i + 1], w)
    BY DEF OnWire
  <2> HIDE DEF n
  <2>3. /\ n \in 1..Len(v) /\ v[n] = w[n] /\ \A place : Nth(n, place, v) = Nth(n, place, w)
    BY <2>1, MoreWritten
  <2> QED BY <2>1, <2>2, <2>3 DEF Follows, n
<1> QED BY <1>1 DEF OnWire

LEMMA MoreInBuffer ==
    ASSUME NEW w \in Seq(Nat), NEW v \in Seq(Nat), Extends(w, v), NEW d \in 0..Len(w),
           NEW k \in Nat, NEW b, NEW e, InBuffer(b, e, w, d, k)
    PROVE  InBuffer(b, e, v, d, k)
<1>1. CASE k = 0
  BY <1>1 DEF InBuffer
<1>2. CASE k > 0
  <2>1. d < Len(w) /\ Len(w) \in Nat /\ Len(v) \in Nat
    BY <1>2, MoreWritten DEF InBuffer
  <2>2. d + 1 \in 1..Len(w)
    BY <2>1
  <2>3. d + 1 \in 1..Len(v) /\ v[d + 1] = w[d + 1]
        /\ \A place : Nth(d + 1, place, v) = Nth(d + 1, place, w)
    BY <2>2, MoreWritten
  <2>4. d < Len(v)
    BY <2>1, <2>3
  <2> QED BY <1>2, <2>3, <2>4 DEF InBuffer
<1> QED BY <1>1, <1>2

\* The first segment is taken off the wire.
LEMMA TakenOff ==
    ASSUME NEW w \in Seq(Nat), NEW d \in Nat, NEW k \in Nat, NEW x \in Seq(Piece), x # <<>>,
           OnWire(x, w, d, k)
    PROVE  /\ d + 1 \in 1..Len(w) /\ k + 1 \in 1..Segments(w[d + 1])
           /\ Head(x) = Nth(d + 1, k + 1, w)
           /\ k + 1 < Segments(w[d + 1]) =>
                 /\ OnWire(Tail(x), w, d, k + 1)
                 /\ AllSent(x, w, d, k) => AllSent(Tail(x), w, d, k + 1)
           /\ k + 1 = Segments(w[d + 1]) =>
                 /\ OnWire(Tail(x), w, d + 1, 0)
                 /\ AllSent(x, w, d, k) => AllSent(Tail(x), w, d + 1, 0)
<1> DEFINE t == Tail(x)
<1>1. /\ Head(x) = x[1] /\ Len(x) \in Nat /\ Len(x) >= 1 /\ t \in Seq(Piece)
      /\ Len(t) = Len(x) - 1 /\ \A i \in 1..Len(t) : t[i] = x[i + 1] /\ i + 1 \in 1..Len(x)
  BY FirstAndRest
<1>2. x[1].of = d + 1 /\ x[1].place = k + 1 /\ 1 \in 1..Len(x)
  BY <1>1 DEF OnWire
<1>3. /\ d + 1 \in 1..Len(w) /\ k + 1 \in 1..Segments(w[d + 1]) /\ x[1] = Nth(d + 1, k + 1, w)
  BY <1>2 DEF OnWire
<1>4. t = <<>> => Len(x) = 1
  <2>1. t = <<>> => Len(t) = 0
    BY EmptySeq
  <2> HIDE DEF t
  <2> QED BY <1>1, <2>1
<1>5. t # <<>> => Len(t) \in Nat \ {0} /\ t[Len(t)] = x[Len(x)] /\ t[1] = x[2] /\ 2 \in 1..Len(x)
  <2> SUFFICES ASSUME t # <<>>
               PROVE  Len(t) \in Nat \ {0} /\ t[Len(t)] = x[Len(x)] /\ t[1] = x[2] /\ 2 \in 1..Len(x)
    OBVIOUS
  <2>1. Len(t) \in Nat \ {0}
    BY <1>1, EmptySeq
  <2>2. 1 \in 1..Len(t) /\ Len(t) \in 1..Len(t) /\ Len(t) + 1 = Len(x) /\ 1 + 1 = 2
    BY <1>1, <2>1
  <2> QED BY <1>1, <2>1, <2>2
<1> HIDE DEF t
<1>6. \A i \in 1..Len(t) : /\ t[i].of \in 1..Len(w) /\ t[i].place \in 1..Segments(w[t[i].of])
                           /\ t[i] = Nth(t[i].of, t[i].place, w)
  BY <1>1 DEF OnWire
<1>7. \A i \in 1..Len(t) : i + 1 \in 1..Len(t) => Follows(t[i], t[i + 1], w)
  <2> SUFFICES ASSUME NEW i \in 1..Len(t), i + 1 \in 1..Len(t)
               PROVE  Follows(t[i], t[i + 1], w)
    OBVIOUS
  <2>1. t[i] = x[i + 1] /\ t[i + 1] = x[(i + 1) + 1] /\ (i + 1) + 1 \in 1..Len(x)
        /\ i + 1 \in 1..Len(x)
    BY <1>1
  <2> QED BY <2>1 DEF OnWire
<1>8. t # <<>> => Follows(x[1], x[2], w)
  <2>1. \A i \in 1..Len(x) : i + 1 \in 1..Len(x) => Follows(x[i], x[i + 1], w)
    BY DEF OnWire
  <2>2. 1 + 1 = 2
    OBVIOUS
  <2> QED BY <1>2, <1>5, <2>1, <2>2
<1>9. ASSUME k + 1 < Segments(w[d + 1])
      PROVE  OnWire(t, w, d, k + 1) /\ (AllSent(x, w, d, k) => AllSent(t, w, d, k + 1))
  <2>1. t # <<>> => t[1].of = d + 1 /\ t[1].place = (k + 1) + 1
    BY <1>2, <1>5, <1>8, <1>9 DEF Follows
  <2>2. OnWire(t, w, d, k + 1)
    BY <1>6, <1>7, <2>1 DEF OnWire
  <2>3. ASSUME AllSent(x, w, d, k), t = <<>>
        PROVE  FALSE
    <3>1. x[1].of = Len(w) /\ x[1].place = Segments(w[Len(w)])
      BY <1>4, <2>3 DEF AllSent
    <3> QED BY <1>2, <1>9, <3>1
  <2>4. AllSent(x, w, d, k) => AllSent(t, w, d, k + 1)
    BY <1>5, <2>3 DEF AllSent
  <2> QED BY <2>2, <2>4
<1>10. ASSUME k + 1 = Segments(w[d + 1])
       PROVE  OnWire(t, w, d + 1, 0) /\ (AllSent(x, w, d, k) => AllSent(t, w, d + 1, 0))
  <2>1. ~(x[1].place < Segments(w[x[1].of]))
    BY <1>2, <1>3, <1>10
  <2>2. t # <<>> => t[1].of = (d + 1) + 1 /\ t[1].place = 0 + 1
    BY <1>2, <1>5, <1>8, <2>1, SMTT(60) DEF Follows
  <2>3. OnWire(t, w, d + 1, 0)
    BY <1>6, <1>7, <2>2 DEF OnWire
  <2>4. ASSUME AllSent(x, w, d, k), t = <<>>
        PROVE  d + 1 = Len(w)
    BY <1>2, <1>4, <2>4 DEF AllSent
  <2>5. AllSent(x, w, d, k) => AllSent(t, w, d + 1, 0)
    BY <1>5, <2>4 DEF AllSent
  <2> QED BY <2>3, <2>5
<1> QED BY <1>1, <1>3, <1>9, <1>10 DEF t

\* Segments of one more packet are put on the wire.
LEMMA PutOn ==
    ASSUME NEW w \in Seq(Nat), NEW size \in Nat, NEW v, v = Append(w, size),
           NEW d \in Nat, NEW k \in Nat, NEW x \in Seq(Piece), OnWire(x, w, d, k),
           AllSent(x, w, d, k), NEW c \in Seq(Piece), Len(c) >= 1, Len(c) <= Segments(size),
           \A i \in 1..Len(c) : c[i] = Nth(Len(w) + 1, i, v)
    PROVE  /\ v \in Seq(Nat) /\ Extends(w, v) /\ OnWire(x \o c, v, d, k)
           /\ Len(c) = Segments(size) => AllSent(x \o c, v, d, k)
<1> DEFINE y == x \o c
           n == Len(w) + 1
<1>1. /\ v \in Seq(Nat) /\ Len(v) = n /\ v[n] = size /\ Len(w) \in Nat
      /\ \A i \in 1..Len(w) : v[i] = w[i]
  BY AppendProperties, LenProperties
<1>2. n \in 1..Len(v) /\ Extends(w, v)
  BY <1>1 DEF Extends
<1>3. OnWire(x, v, d, k)
  BY <1>1, <1>2, MoreOnWire
<1>4. /\ y \in Seq(Piece) /\ Len(y) = Len(x) + Len(c)
      /\ \A i \in 1..Len(y) : y[i] = IF i <= Len(x) THEN x[i] ELSE c[i - Len(x)]
  BY ConcatProperties
<1>5. Len(x) \in Nat /\ Len(c) \in Nat /\ (x = <<>> <=> Len(x) = 0)
  BY LenProperties, EmptySeq
<1> HIDE DEF y, n
<1>6. \A i \in 1..Len(c) : c[i] = Nth(n, i, v) /\ c[i].of = n /\ c[i].place = i
  BY DEF Nth, n
<1>7. Segments(v[n]) = Segments(size) /\ Segments(size) \in Int
  BY <1>1, CutIs
<1>8. \A i \in 1..Len(x) : /\ y[i] = x[i] /\ i \in 1..Len(y)
                           /\ i + 1 <= Len(x) => y[i + 1] = x[i + 1] /\ i + 1 \in 1..Len(x)
  BY <1>4, <1>5
<1>9. \A i \in 1..Len(y) : i <= Len(x) \/ (i - Len(x) \in 1..Len(c) /\ y[i] = c[i - Len(x)])
  BY <1>4, <1>5
<1>10. ASSUME NEW i \in 1..Len(y)
       PROVE  /\ y[i].of \in 1..Len(v) /\ y[i].place \in 1..Segments(v[y[i].of])
              /\ y[i] = Nth(y[i].of, y[i].place, v)
  <2>1. CASE i <= Len(x)
    <3>1. i \in 1..Len(x) /\ y[i] = x[i]
      BY <1>5, <1>8, <2>1
    <3> QED BY <1>3, <3>1 DEF OnWire
  <2>2. CASE i - Len(x) \in 1..Len(c) /\ y[i] = c[i - Len(x)]
    <3>1. y[i] = Nth(n, i - Len(x), v) /\ y[i].of = n /\ y[i].place = i - Len(x)
      BY <1>6, <2>2
    <3>2. i - Len(x) \in 1..Segments(size)
      BY <1>5, <1>7, <2>2
    <3> QED BY <1>2, <1>7, <3>1, <3>2
  <2> QED BY <1>9, <2>1, <2>2
<1>11. 1 \in 1..Len(c) /\ c[1].of = n /\ c[1].place = 1
  <2>1. 1 \in 1..Len(c)
    BY <1>5
  <2> QED BY <1>6, <2>1
<1>12. x # <<>> => Follows(x[Len(x)], c[1], v)
  <2> SUFFICES ASSUME x # <<>>
               PROVE  Follows(x[Len(x)], c[1], v)
    OBVIOUS
  <2>1. Len(x) \in 1..Len(x)
    BY <1>5
  <2>2. /\ x[Len(x)].of = Len(w) /\ x[Len(x)].place = Segments(w[Len(w)])
        /\ x[Len(x)].of \in 1..Len(w)
    BY <2>1 DEF AllSent, OnWire
  <2>3. v[Len(w)] = w[Len(w)]
    BY <1>1, <2>2
  <2>4. x[Len(x)].place = Segments(v[x[Len(x)].of]) /\ Segments(v[x[Len(x)].of]) \in Int
    <3>1. w[Len(w)] \in Int
      BY <2>2, ElementOfSeq
    <3> QED BY <2>2, <2>3, <3>1, CutIs
  <2>5. c[1].of = x[Len(x)].of + 1
    BY <1>11, <2>2 DEF n
  <2>6. ~(x[Len(x)].place < Segments(v[x[Len(x)].of]))
    <3>1. \A i, j \in Int : i = j => ~(i < j)
      OBVIOUS
    <3> QED BY <2>4, <3>1
  <2> QED BY <1>11, <2>5, <2>6 DEF Follows
<1>13. ASSUME NEW i \in 1..Len(y), i + 1 \in 1..Len(y)
       PROVE  Follows(y[i], y[i + 1], v)
  <2>1. CASE i + 1 <= Len(x)
    <3>1. i \in 1..Len(x) /\ i + 1 \in 1..Len(x) /\ y[i] = x[i] /\ y[i + 1] = x[i + 1]
      BY <1>5, <1>8, <2>1
    <3> QED BY <1>3, <3>1 DEF OnWire
  <2>2. CASE i = Len(x)
    <3>1. i \in 1..Len(x) /\ ~(i + 1 <= Len(x)) /\ (i + 1) - Len(x) = 1
      BY <1>5, <2>2
    <3>2. y[i] = x[Len(x)] /\ y[i + 1] = c[1] /\ x # <<>>
      BY <1>5, <1>8, <1>9, <1>13, <2>2, <3>1
    <3> QED BY <1>12, <3>2
  <2>3. CASE i > Len(x)
    <3> DEFINE j == i - Len(x)
    <3>1. j \in 1..Len(c) /\ j + 1 \in 1..Len(c) /\ y[i] = c[j] /\ (i + 1) - Len(x) = j + 1
      BY <1>4, <1>5, <1>9, <1>13, <2>3
    <3>2. y[i + 1] = c[j + 1]
      <4>1. ~(i + 1 <= Len(x))
        BY <1>5, <2>3
      <4>2. y[i + 1] = c[(i + 1) - Len(x)]
        BY <1>9, <1>13, <4>1
      <4> QED BY <3>1, <4>2
    <3> HIDE DEF j
    <3>3. y[i].of = n /\ y[i].place = j /\ y[i + 1].of = n /\ y[i + 1].place = j + 1
      BY <1>6, <3>1, <3>2, SMTT(60)
    <3>4. j < Segments(v[y[i].of])
      <4>1. j + 1 <= Len(c) /\ j \in Int
        BY <3>1
      <4>2. j < Segments(size)
        BY <1>5, <1>7, <4>1
      <4> QED BY <1>7, <3>3, <4>2
    <3> QED BY <3>3, <3>4 DEF Follows
  <2> QED BY <1>5, <2>1, <2>2, <2>3
<1>14. y # <<>> /\ Len(y) \in 1..Len(y) /\ y[Len(y)] = c[Len(c)] /\ Len(c) \in 1..Len(c)
  <2>1. Len(y) \in 1..Len(y) /\ Len(y) - Len(x) = Len(c) /\ ~(Len(y) <= Len(x))
        /\ Len(c) \in 1..Len(c) /\ Len(y) # 0
    BY <1>4, <1>5
  <2>2. y # <<>>
    BY <2>1
  <2> QED BY <1>9, <2>1, <2>2
<1>15. y[1].of = d + 1 /\ y[1].place = k + 1
  <2>1. CASE x = <<>>
    <3>1. d = Len(w) /\ k = 0 /\ 1 \in 1..Len(y) /\ ~(1 <= Len(x)) /\ 1 - Len(x) = 1
      BY <1>4, <1>5, <2>1 DEF AllSent
    <3>2. y[1] = c[1]
      BY <1>9, <3>1
    <3> QED BY <1>11, <3>1, <3>2 DEF n
  <2>2. CASE x # <<>>
    <3>1. 1 \in 1..Len(x)
      BY <1>5, <2>2
    <3> QED BY <1>8, <2>2, <3>1 DEF OnWire
  <2> QED BY <2>1, <2>2
<1>16. OnWire(y, v, d, k)
  BY <1>10, <1>13, <1>15 DEF OnWire
<1>17. Len(c) = Segments(size) => AllSent(y, v, d, k)
  BY <1>1, <1>6, <1>7, <1>14 DEF AllSent
<1> QED BY <1>1, <1>2, <1>16, <1>17 DEF y

\* The next packet that can be read is put behind the others.
LEMMA OneMoreInTurn ==
    ASSUME NEW w \in Seq(Nat), NEW s \in Seq(Seq(Piece)), InTurn(s, w), NEW d \in Nat,
           NumbersTo(s, Len(s)) = Filled(d, w), \A i \in 1..Len(s) : s[i] # EOF,
           NEW p \in Seq(Piece), Whole(p, w), Number(p) = d + 1
    PROVE  /\ InTurn(Append(s, p), w)
           /\ NumbersTo(Append(s, p), Len(Append(s, p))) = Filled(d + 1, w)
<1> DEFINE t == Append(s, p)
           n == Len(s)
<1>1. /\ n \in Nat /\ Len(t) = n + 1 /\ t[n + 1] = p /\ \A i \in 1..n : t[i] = s[i]
      /\ \A i \in 1..n + 1 : i \in 1..n \/ i = n + 1
  BY OneMore
<1> HIDE DEF t
<1>2. \A i \in 1..n : NumbersTo(t, i) = NumbersTo(s, i)
  <2> SUFFICES ASSUME NEW i \in 1..n
               PROVE  NumbersTo(t, i) = NumbersTo(s, i)
    OBVIOUS
  <2>1. \A j \in 1..i : t[j] = s[j]
    BY <1>1
  <2> QED BY <2>1 DEF NumbersTo
<1>3. NumbersTo(t, n + 1) = NumbersTo(s, n) \cup {d + 1}
  <2>1. 1..n + 1 = (1..n) \cup {n + 1}
    BY <1>1
  <2>2. NumbersTo(t, n + 1) = {Number(t[j]) : j \in 1..n} \cup {Number(t[n + 1])}
    BY <2>1 DEF NumbersTo
  <2>3. {Number(t[j]) : j \in 1..n} = NumbersTo(s, n)
    BY <1>1 DEF NumbersTo
  <2> QED BY <1>1, <2>2, <2>3
<1>4. Filled(d + 1, w) = Filled(d, w) \cup {d + 1}
  <2>1. 1..d + 1 = (1..d) \cup {d + 1} /\ w[d + 1] > 0
    BY SMTT(60) DEF Whole
  <2> QED BY <2>1 DEF Filled
<1>5. NumbersTo(t, n + 1) = Filled(d + 1, w)
  BY <1>3, <1>4
<1>6. \A j \in 1..n : Number(t[j]) < d + 1
  <2> SUFFICES ASSUME NEW j \in 1..n
               PROVE  Number(t[j]) < d + 1
    OBVIOUS
  <2>1. Number(s[j]) \in NumbersTo(s, n)
    BY DEF NumbersTo
  <2>2. Number(s[j]) \in 1..d
    BY <2>1 DEF Filled
  <2> QED BY <1>1, <2>2
<1>7. ASSUME NEW i \in 1..Len(t), t[i] # EOF
      PROVE  /\ Whole(t[i], w)
             /\ NumbersTo(t, i) = Filled(Number(t[i]), w)
             /\ \A j \in 1..(i - 1) : Number(t[j]) < Number(t[i])
  <2>1. CASE i = n + 1
    <3>1. t[i] = p /\ \A j \in 1..(i - 1) : j \in 1..n
      BY <1>1, <2>1
    <3> QED BY <1>5, <1>6, <2>1, <3>1
  <2>2. CASE i \in 1..n
    <3>1. t[i] = s[i] /\ s[i] # EOF
      BY <1>1, <1>7, <2>2
    <3>2. \A j \in 1..(i - 1) : t[j] = s[j]
      BY <1>1, <2>2
    <3> QED BY <1>2, <2>2, <3>1, <3>2 DEF InTurn
  <2> QED BY <1>1, <1>7, <2>1, <2>2
<1>8. InTurn(t, w)
  BY <1>7 DEF InTurn
<1> QED BY <1>1, <1>5, <1>8 DEF t

\* The end may come behind them, and what is without its last is still in order.
LEMMA EndInTurn ==
    ASSUME NEW w, NEW s \in Seq(Seq(Piece)), NEW p \in Seq(Piece)
    PROVE  /\ InTurn(s, w) => InTurn(Append(s, EOF), w)
           /\ InTurn(Append(s, p), w) => InTurn(s, w)
<1>1. ASSUME NEW e \in Seq(Piece)
      PROVE  /\ Len(Append(s, e)) = Len(s) + 1 /\ Len(s) \in Nat /\ Append(s, e)[Len(s) + 1] = e
             /\ \A i \in 1..Len(s) : /\ Append(s, e)[i] = s[i] /\ i \in 1..Len(Append(s, e))
                                     /\ NumbersTo(Append(s, e), i) = NumbersTo(s, i)
                                     /\ \A j \in 1..(i - 1) : Append(s, e)[j] = s[j]
  <2>1. /\ Len(Append(s, e)) = Len(s) + 1 /\ Len(s) \in Nat /\ Append(s, e)[Len(s) + 1] = e
        /\ \A i \in 1..Len(s) : Append(s, e)[i] = s[i]
    BY OneMore
  <2>2. ASSUME NEW i \in 1..Len(s)
        PROVE  NumbersTo(Append(s, e), i) = NumbersTo(s, i)
    <3>1. \A j \in 1..i : Append(s, e)[j] = s[j]
      BY <2>1
    <3> QED BY <3>1 DEF NumbersTo
  <2> QED BY <2>1, <2>2
<1>2. EOF \in Seq(Piece)
  BY DEF EOF
<1>3. InTurn(s, w) => InTurn(Append(s, EOF), w)
  <2> DEFINE t == Append(s, EOF)
  <2>1. \A i \in 1..Len(t) : t[i] # EOF => i \in 1..Len(s)
    <3>1. \A i \in 1..Len(t) : i \in 1..Len(s) \/ i = Len(s) + 1
      BY <1>1, <1>2
    <3> QED BY <1>1, <1>2, <3>1
  <2> QED BY <1>1, <1>2, <2>1, ZenonT(60) DEF InTurn
<1>4. InTurn(Append(s, p), w) => InTurn(s, w)
  BY <1>1, ZenonT(60) DEF InTurn
<1> QED BY <1>3, <1>4

\* What write_packet cuts are the segments of its packet.
LEMMA CutParts ==
    ASSUME NEW n \in Nat, NEW size \in Nat, NEW v, v[n] = size
    PROVE  /\ Segments(size) \in Nat \ {0} /\ Cut(n, size) \in Seq(Piece)
           /\ Len(Cut(n, size)) = Segments(size)
           /\ \A i \in 1..Segments(size) : Cut(n, size)[i] = Nth(n, i, v)
<1>1. Segments(size) \in Nat \ {0}
  BY SegmentsAre, EmptySegment
<1>2. Cut(n, size) \in Seq(Piece)
  BY CutIs
<1>3. Cut(n, size) = [i \in 1..Segments(size) |-> Nth(n, i, v)]
  BY DEF Cut, Nth
<1>4. DOMAIN Cut(n, size) = 1..Segments(size) /\ DOMAIN Cut(n, size) = 1..Len(Cut(n, size))
  BY <1>2, <1>3, LenProperties
<1>5. Len(Cut(n, size)) \in Nat
  BY <1>2, LenProperties
<1>6. Len(Cut(n, size)) = Segments(size)
  <2>1. \A i, j \in Nat : 1..i = 1..j => i = j
    <3> SUFFICES ASSUME NEW i \in Nat, NEW j \in Nat, 1..i = 1..j
                 PROVE  i = j
      OBVIOUS
    <3>1. i <= j
      <4>1. i = 0 \/ i \in 1..j
        OBVIOUS
      <4> QED BY <4>1
    <3>2. j <= i
      <4>1. j = 0 \/ j \in 1..i
        OBVIOUS
      <4> QED BY <4>1
    <3> QED BY <3>1, <3>2
  <2> QED BY <1>1, <1>4, <1>5, <2>1
<1> QED BY <1>1, <1>2, <1>3, <1>6

\* What has been read, what the reader will find, and what the loop will put there.
Delivered == (got \o packets) \o calls

\* d packets have been received, and k segments of the next one; of those d, the ones that
\* can be read have been delivered.
Stands(d, k) ==
    /\ OnWire(wire, written, d, k)
    /\ channel = "open" => AllSent(wire, written, d, k)
    /\ InBuffer(recvBuf, expected, written, d, k)
    /\ InTurn(Delivered, written)
    /\ channel # "closed" => NumbersTo(Delivered, Len(Delivered)) = Filled(d, written)

GotInv == got \in Seq(Seq(Piece)) /\ \A i \in 1..Len(got) : got[i] # EOF

ReadInv ==
    /\ EndComesLast /\ GotInv /\ written \in Seq(Nat)
    /\ \E d \in 0..Len(written), k \in Nat : Stands(d, k)

LEMMA DeliveredIs ==
    ASSUME EndComesLast, GotInv
    PROVE  /\ Delivered \in Seq(Seq(Piece))
           /\ \A i \in 1..Len(got) : i \in 1..Len(Delivered) /\ Delivered[i] = got[i]
           /\ channel # "closed" => \A i \in 1..Len(Delivered) : Delivered[i] # EOF
<1> DEFINE P == Seq(Piece)
           f == got \o packets
           g == f \o calls
<1>1. got \in Seq(P) /\ packets \in Seq(P) /\ calls \in Seq(P)
  BY DEF EndComesLast, QueuesInv, GotInv
<1>2. channel # "closed" => /\ \A i \in 1..Len(packets) : packets[i] # EOF
                            /\ \A i \in 1..Len(calls) : calls[i] # EOF
  BY DEF EndComesLast, EndInv
<1>3. \A i \in 1..Len(got) : got[i] # EOF
  BY DEF GotInv
<1> HIDE DEF P
<1>4. /\ f \in Seq(P) /\ Len(f) = Len(got) + Len(packets)
      /\ \A i \in 1..Len(got) + Len(packets) :
            f[i] = IF i <= Len(got) THEN got[i] ELSE packets[i - Len(got)]
  BY <1>1, ConcatProperties
<1> HIDE DEF f
<1>5. /\ g \in Seq(P) /\ Len(g) = Len(f) + Len(calls)
      /\ \A i \in 1..Len(f) + Len(calls) : g[i] = IF i <= Len(f) THEN f[i] ELSE calls[i - Len(f)]
  <2>1. f \in Seq(P) /\ calls \in Seq(P)
    BY <1>1, <1>4
  <2> QED BY <2>1, ConcatProperties
<1> HIDE DEF g
<1>6. Len(got) \in Nat /\ Len(packets) \in Nat /\ Len(calls) \in Nat
  BY <1>1, LenProperties
<1>7. \A i \in 1..Len(got) : i \in 1..Len(g) /\ g[i] = got[i]
  BY <1>4, <1>5, <1>6
<1>8. ASSUME channel # "closed", NEW i \in 1..Len(g)
      PROVE  g[i] # EOF
  <2>1. CASE i <= Len(got)
    BY <1>3, <1>7, <2>1
  <2>2. CASE i > Len(got) /\ i <= Len(f)
    <3>1. i - Len(got) \in 1..Len(packets) /\ g[i] = packets[i - Len(got)]
      BY <1>4, <1>5, <1>6, <2>2
    <3> QED BY <1>2, <1>8, <3>1
  <2>3. CASE i > Len(f)
    <3>1. i - Len(f) \in 1..Len(calls) /\ g[i] = calls[i - Len(f)]
      BY <1>4, <1>5, <1>6, <1>8, <2>3
    <3> QED BY <1>2, <1>8, <3>1
  <2> QED BY <1>4, <1>6, <1>8, <2>1, <2>2, <2>3
<1> QED BY <1>5, <1>7, <1>8 DEF g, f, P, Delivered

\* What is put is delivered behind the rest.
LEMMA PutDelivers ==
    ASSUME EndComesLast, GotInv, NEW e \in Seq(Piece), Put(e), UNCHANGED <<threads, got>>
    PROVE  Delivered' = Append(Delivered, e)
<1>1. /\ got \in Seq(Seq(Piece)) /\ packets \in Seq(Seq(Piece)) /\ calls \in Seq(Seq(Piece))
      /\ ~threads => calls = <<>>
  BY DEF EndComesLast, QueuesInv, GotInv
<1>2. got \o packets \in Seq(Seq(Piece)) /\ Append(packets, e) \in Seq(Seq(Piece))
  BY <1>1, ConcatProperties, AppendProperties
<1>3. CASE threads
  <2>1. calls' = Append(calls, e) /\ packets' = packets /\ got' = got
    BY <1>3 DEF Put
  <2>2. (got \o packets) \o Append(calls, e) = Append((got \o packets) \o calls, e)
    BY <1>1, <1>2, PutBehind, SMTT(60)
  <2> QED BY <2>1, <2>2 DEF Delivered
<1>4. CASE ~threads
  <2>1. packets' = Append(packets, e) /\ calls' = calls /\ got' = got /\ calls = <<>>
    BY <1>1, <1>4 DEF Put
  <2>2. got \o Append(packets, e) = Append(got \o packets, e)
    BY <1>1, PutBehind, SMTT(60)
  <2>3. Append(got \o packets, e) \in Seq(Seq(Piece))
    BY <1>2, AppendProperties
  <2>4. Append(got \o packets, e) \o <<>> = Append(got \o packets, e)
        /\ (got \o packets) \o <<>> = got \o packets
    BY <1>2, <2>3, ConcatEmptySeq
  <2> QED BY <2>1, <2>2, <2>4 DEF Delivered
<1> QED BY <1>3, <1>4

\* The loop and the reader change only where a packet is.
LEMMA RunCallDelivers ==
    ASSUME EndComesLast, GotInv, RunCall
    PROVE  Delivered' = Delivered
<1> DEFINE P == Seq(Piece)
<1>1. got \in Seq(P) /\ packets \in Seq(P) /\ calls \in Seq(P)
  BY DEF EndComesLast, QueuesInv, GotInv
<1>2. /\ calls # <<>> /\ packets' = Append(packets, Head(calls)) /\ calls' = Tail(calls)
      /\ got' = got
  BY DEF RunCall
<1> HIDE DEF P
<1>3. packets' \in Seq(P) /\ calls' \in Seq(P)
  BY <1>1, <1>2, HeadTailProperties, AppendProperties
<1>4. packets' \o calls' = packets \o calls
  BY <1>1, <1>2, HandOver
<1>5. (got \o packets') \o calls' = got \o (packets' \o calls')
  <2>1. PICK s \in Seq(P), t \in Seq(P) : s = packets' /\ t = calls'
    BY <1>3
  <2>2. (got \o s) \o t = got \o (s \o t)
    BY <1>1, ConcatAssociative, SMTT(60)
  <2> QED BY <2>1, <2>2
<1>6. (got \o packets) \o calls = got \o (packets \o calls)
  BY <1>1, ConcatAssociative
<1> QED BY <1>2, <1>4, <1>5, <1>6 DEF Delivered

LEMMA ReadDelivers ==
    ASSUME EndComesLast, GotInv, ReadPacket
    PROVE  /\ GotInv'
           /\ \/ Delivered' = Delivered
              \/ channel = "closed" /\ Delivered = Append(got, EOF) /\ Delivered' = got
<1> DEFINE P == Seq(Piece)
<1>1. got \in Seq(P) /\ packets \in Seq(P) /\ calls \in Seq(P)
  BY DEF EndComesLast, QueuesInv, GotInv
<1>2. packets # <<>> /\ packets' = Tail(packets) /\ calls' = calls
  BY DEF ReadPacket
<1>3. /\ Head(packets) = packets[1] /\ Head(packets) \in P /\ Len(packets) \in Nat
      /\ Len(packets) >= 1 /\ 1 \in 1..Len(packets) /\ Len(Tail(packets)) = Len(packets) - 1
      /\ Tail(packets) \in Seq(P)
  BY <1>1, <1>2, FirstAndRest
<1>4. EOF \in P
  BY DEF EOF
<1>5. channel # "closed" => Head(packets) # EOF
  BY <1>3, ZenonT(60) DEF EndComesLast, EndInv
<1>6. Head(packets) = EOF => Len(packets) = 1 /\ calls = <<>>
  BY <1>3 DEF EndComesLast, EndInv
<1>7. channel = "closed" => closed["far"]
  BY DEF EndComesLast, EndInv
<1>8. \A i \in 1..Len(got) : got[i] # EOF
  BY DEF GotInv
<1> HIDE DEF P
<1>9. CASE Head(packets) = EOF
  <2>1. channel = "closed" /\ got' = got
    BY <1>5, <1>7, <1>9 DEF ReadPacket
  <2>2. packets' = <<>> /\ calls' = <<>> /\ calls = <<>>
    BY <1>2, <1>3, <1>6, <1>9, EmptySeq
  <2>3. got \o packets = Append(got, EOF)
    <3>1. <<EOF>> \in Seq(P) /\ Len(<<EOF>>) = 1 /\ <<EOF>>[1] = EOF
      BY <1>4
    <3>2. packets = <<EOF>>
      BY <1>1, <1>3, <1>6, <1>9, <3>1, SeqEqual
    <3> QED BY <1>1, <1>4, <3>2, AppendIsConcat
  <2>4. Append(got, EOF) \o <<>> = Append(got, EOF) /\ got \o <<>> = got
    BY <1>1, <1>4, AppendProperties, ConcatEmptySeq
  <2> QED BY <2>1, <2>2, <2>3, <2>4 DEF Delivered, GotInv
<1>10. CASE Head(packets) # EOF
  <2>1. got' = Append(got, Head(packets))
    BY <1>10 DEF ReadPacket
  <2>2. got' \in Seq(P) /\ \A i \in 1..Len(got') : got'[i] # EOF
    <3>1. /\ got' \in Seq(P) /\ Len(got') = Len(got) + 1 /\ got'[Len(got) + 1] = Head(packets)
          /\ \A i \in 1..Len(got) : got'[i] = got[i]
          /\ \A i \in 1..Len(got) + 1 : i \in 1..Len(got) \/ i = Len(got) + 1
      BY <1>1, <1>3, <2>1, OneMore
    <3> QED BY <1>8, <1>10, <3>1
  <2>3. got' \o packets' = got \o packets
    BY <1>1, <1>2, <2>1, HandOver
  <2> QED BY <1>2, <2>2, <2>3 DEF Delivered, GotInv, P
<1> QED BY <1>9, <1>10

\* A step that writes nothing, receives nothing, and leaves in order what is delivered.
LEMMA StandsStill ==
    ASSUME ReadInv, EndComesLast', GotInv', UNCHANGED <<written, recvBuf, expected>>,
           wire' = wire \/ wire' = <<>>,
           channel' = "open" => channel = "open" /\ wire' = wire,
           \/ Delivered' = Delivered /\ (channel' # "closed" => channel # "closed")
           \/ InTurn(Delivered', written) /\ channel' = "closed"
    PROVE  ReadInv'
<1>1. PICK d \in 0..Len(written), k \in Nat : Stands(d, k)
  BY DEF ReadInv
<1>2. OnWire(wire', written, d, k)
  <2>1. CASE wire' = wire
    BY <1>1, <2>1 DEF Stands
  <2>2. CASE wire' = <<>>
    <3>1. Len(wire') = 0
      BY <2>2, EmptySeq
    <3>2. \A i \in 1..Len(wire') : FALSE
      BY <3>1
    <3> QED BY <2>2, <3>2 DEF OnWire
  <2> QED BY <2>1, <2>2
<1>3. channel' = "open" => AllSent(wire', written, d, k)
  BY <1>1 DEF Stands
<1>4. InBuffer(recvBuf', expected', written', d, k)
  BY <1>1 DEF Stands
<1>5. InTurn(Delivered', written)
  BY <1>1 DEF Stands
<1>6. channel' # "closed" => NumbersTo(Delivered', Len(Delivered')) = Filled(d, written)
  BY <1>1 DEF Stands
<1>7. Stands(d, k)'
  BY <1>2, <1>3, <1>4, <1>5, <1>6 DEF Stands
<1> QED BY <1>7 DEF ReadInv

LEMMA WriteReads ==
    ASSUME ReadInv, Write \/ WriteCutShort
    PROVE  ReadInv'
<1>1. /\ UNCHANGED <<recvBuf, expected, calls, packets, got>> /\ channel = "open"
      /\ channel' \in {"open", "closing"}
  BY DEF Write, WriteCutShort, buffers
<1>2. EndComesLast' /\ GotInv'
  BY <1>1, WriteKeeps DEF ReadInv, GotInv
<1>3. PICK d \in 0..Len(written), k \in Nat : Stands(d, k)
  BY DEF ReadInv
<1>4. /\ written \in Seq(Nat) /\ Len(written) \in Nat /\ d \in Nat /\ wire \in Seq(Piece)
      /\ OnWire(wire, written, d, k) /\ AllSent(wire, written, d, k)
  BY <1>1, <1>3, LenProperties DEF ReadInv, EndComesLast, QueuesInv, Stands
<1>5. PICK size \in Nat, c \in Seq(Piece) :
         /\ written' = Append(written, size) /\ wire' = wire \o c
         /\ Len(c) >= 1 /\ Len(c) <= Segments(size)
         /\ channel' = "open" => Len(c) = Segments(size)
         /\ \A i \in 1..Len(c) : c[i] = Nth(Len(written) + 1, i, written')
  <2>1. \A size \in Sizes : size \in Nat
    BY SizesAssumption DEF Sizes
  <2>2. \A size \in Nat : Append(written, size)[Len(written) + 1] = size
    BY <1>4, AppendProperties
  <2> DEFINE n == Len(written) + 1
  <2>3. n \in Nat
    BY <1>4
  <2> HIDE DEF n
  <2>4. ASSUME NEW size \in Nat, NEW v, v[n] = size
        PROVE  /\ Segments(size) \in Nat \ {0} /\ Cut(n, size) \in Seq(Piece)
               /\ Len(Cut(n, size)) = Segments(size)
               /\ \A i \in 1..Segments(size) : Cut(n, size)[i] = Nth(n, i, v)
    BY <2>3, <2>4, CutParts
  <2>5. CASE Write
    <3>1. PICK size \in Sizes : written' = Append(written, size) /\ wire' = wire \o Cut(n, size)
      BY <2>5 DEF Write, n
    <3>2. size \in Nat /\ written'[n] = size
      BY <2>1, <2>2, <3>1 DEF n
    <3>3. /\ Segments(size) \in Nat \ {0} /\ Cut(n, size) \in Seq(Piece)
          /\ Len(Cut(n, size)) = Segments(size)
          /\ \A i \in 1..Segments(size) : Cut(n, size)[i] = Nth(n, i, written')
      BY <2>4, <3>2
    <3> DEFINE c == Cut(n, size)
    <3>4. /\ c \in Seq(Piece) /\ wire' = wire \o c /\ Len(c) >= 1 /\ Len(c) <= Segments(size)
          /\ Len(c) = Segments(size) /\ \A i \in 1..Len(c) : c[i] = Nth(n, i, written')
      BY <3>1, <3>3
    <3> HIDE DEF c
    <3> QED BY <3>1, <3>2, <3>4 DEF n
  <2>6. CASE WriteCutShort
    <3>1. PICK size \in Sizes, gone \in 1..MAX_SEGMENTS :
             /\ written' = Append(written, size) /\ gone < Segments(size)
             /\ wire' = wire \o SubSeq(Cut(n, size), 1, gone) /\ channel' = "closing"
      BY <2>6 DEF WriteCutShort, n
    <3>2. size \in Nat /\ written'[n] = size /\ gone \in Nat \ {0} /\ gone \in Int
      BY <2>1, <2>2, <3>1 DEF n
    <3>3. /\ Segments(size) \in Nat \ {0} /\ Cut(n, size) \in Seq(Piece)
          /\ Len(Cut(n, size)) = Segments(size)
          /\ \A i \in 1..Segments(size) : Cut(n, size)[i] = Nth(n, i, written')
      BY <2>4, <3>2
    <3> DEFINE all == Cut(n, size)
               c == SubSeq(all, 1, gone)
    <3>4. \A i \in 1..gone : i \in 1..Len(all) /\ i \in 1..Segments(size)
      BY <3>1, <3>2, <3>3
    <3>5. all \in Seq(Piece) /\ \A i \in 1..Len(all) : all[i] \in Piece
      BY <3>3, ElementOfSeq
    <3> HIDE DEF all
    <3>6. \A i \in 1..gone : all[i] \in Piece
      BY <3>4, <3>5
    <3>7. /\ c \in Seq(Piece) /\ Len(c) = IF 1 <= gone THEN gone - 1 + 1 ELSE 0
          /\ \A i \in 1..gone - 1 + 1 : c[i] = all[1 + i - 1]
      BY <3>2, <3>6, SubSeqProperties, 1 \in Int
    <3>8. Len(c) = gone /\ \A i \in 1..gone : c[i] = all[i]
      <4>1. gone - 1 + 1 = gone /\ 1 <= gone /\ \A i \in 1..gone : 1 + i - 1 = i
        BY <3>2
      <4> QED BY <3>7, <4>1
    <3> HIDE DEF c
    <3>9. \A i \in 1..Len(c) : c[i] = Nth(n, i, written')
      BY <3>3, <3>4, <3>8 DEF all
    <3>10. wire' = wire \o c /\ channel' # "open"
      BY <3>1 DEF c, all
    <3>11. Len(c) >= 1 /\ Len(c) <= Segments(size)
      BY <3>1, <3>2, <3>3, <3>8
    <3> QED BY <3>1, <3>2, <3>7, <3>9, <3>10, <3>11 DEF n
  <2> QED BY <2>5, <2>6
<1>6. /\ written' \in Seq(Nat) /\ Extends(written, written') /\ OnWire(wire', written', d, k)
      /\ Len(c) = Segments(size) => AllSent(wire', written', d, k)
  BY <1>4, <1>5, PutOn
<1>7. InBuffer(recvBuf', expected', written', d, k)
  BY <1>1, <1>3, <1>4, <1>6, MoreInBuffer DEF Stands
<1>8. Delivered' = Delivered
  BY <1>1 DEF Delivered
<1>9. InTurn(Delivered', written')
  BY <1>3, <1>4, <1>6, <1>8, MoreInTurn DEF Stands
<1>10. Filled(d, written') = Filled(d, written)
  BY <1>4, <1>6, MoreWritten
<1>11. Stands(d, k)'
  <2>1. NumbersTo(Delivered', Len(Delivered')) = Filled(d, written')
    BY <1>1, <1>3, <1>8, <1>10 DEF Stands
  <2>2. channel' = "open" => AllSent(wire', written', d, k)
    BY <1>5, <1>6
  <2> QED BY <1>6, <1>7, <1>9, <2>1, <2>2 DEF Stands
<1>12. d \in 0..Len(written')
  BY <1>4, <1>5, <1>6, LenProperties DEF Extends
<1> QED BY <1>2, <1>6, <1>11, <1>12 DEF ReadInv

LEMMA OnMessageReads ==
    ASSUME ReadInv, OnMessage
    PROVE  ReadInv'
<1> DEFINE s == Head(wire)
           more == Append(recvBuf, s)
<1>1. /\ wire # <<>> /\ channel # "closed" /\ wire' = Tail(wire)
      /\ UNCHANGED <<threads, channel, written, closed, got, reader>>
  BY DEF OnMessage
<1>2. EndComesLast' /\ GotInv' /\ EndComesLast /\ GotInv
  BY <1>1, OnMessageKeeps DEF ReadInv, GotInv
<1>3. PICK d \in 0..Len(written), k \in Nat : Stands(d, k)
  BY DEF ReadInv
<1> DEFINE w == written
           size == w[d + 1]
           n == Segments(size)
<1>4. /\ w \in Seq(Nat) /\ Len(w) \in Nat /\ d \in Nat /\ wire \in Seq(Piece)
      /\ OnWire(wire, w, d, k) /\ InBuffer(recvBuf, expected, w, d, k) /\ recvBuf \in Seq(Piece)
      /\ InTurn(Delivered, w) /\ NumbersTo(Delivered, Len(Delivered)) = Filled(d, w)
      /\ channel = "open" => AllSent(wire, w, d, k)
  BY <1>1, <1>3, LenProperties DEF ReadInv, EndComesLast, QueuesInv, Stands
<1>5. /\ d + 1 \in 1..Len(w) /\ k + 1 \in 1..n /\ s = Nth(d + 1, k + 1, w)
      /\ k + 1 < n => /\ OnWire(wire', w, d, k + 1)
                      /\ AllSent(wire, w, d, k) => AllSent(wire', w, d, k + 1)
      /\ k + 1 = n => /\ OnWire(wire', w, d + 1, 0)
                      /\ AllSent(wire, w, d, k) => AllSent(wire', w, d + 1, 0)
  BY <1>1, <1>4, TakenOff
<1>6. size \in Nat /\ n \in Int /\ d + 1 \in 0..Len(w)
  <2>1. size \in Nat
    BY <1>4, <1>5, ElementOfSeq
  <2>2. size \in Int
    BY <2>1
  <2>3. n \in Int
    BY <2>2, CutIs, 1 \in Int
  <2> QED BY <1>4, <1>5, <2>1, <2>3
<1>7. s.size = SegmentSize(size, k + 1) /\ s.remaining = n - (k + 1) /\ s.of = d + 1
  BY <1>5 DEF Nth
<1>8. Len(recvBuf) = k /\ (\A i \in 1..k : recvBuf[i] = Nth(d + 1, i, w))
      /\ expected = IF k = 0 THEN -1 ELSE n - k
  BY <1>4 DEF InBuffer
<1>9. s \in Piece
  BY <1>1, <1>4, FirstAndRest
<1> HIDE DEF s, n, size, w
<1>10. CASE size = 0
  <2>1. n = 1
    BY <1>10, EmptySegment DEF n
  <2>2. k = 0 /\ k + 1 = n /\ k + 1 = 1
    BY <1>5, <2>1
  <2>3. s.size = 0
    BY <1>7, <1>10, <2>2, EmptySegment
  <2>4. UNCHANGED buffers
    BY <2>3 DEF OnMessage, s
  <2>5. InBuffer(recvBuf', expected', w, d + 1, 0)
    BY <1>8, <2>2, <2>4 DEF InBuffer, buffers
  <2>6. Delivered' = Delivered
    BY <1>1, <2>4 DEF Delivered, buffers
  <2>7. Filled(d + 1, w) = Filled(d, w)
    <3>1. 1..d + 1 = (1..d) \cup {d + 1} /\ ~(w[d + 1] > 0)
      BY <1>4, <1>10, SMTT(60) DEF size
    <3> QED BY <3>1 DEF Filled
  <2>8. Stands(d + 1, 0)'
    BY <1>1, <1>4, <1>5, <2>2, <2>5, <2>6, <2>7 DEF Stands, w
  <2> QED BY <1>1, <1>2, <1>4, <1>6, <2>8 DEF ReadInv, w
<1>11. CASE size > 0
  <2>1. n \in Nat \ {0} /\ s.size > 0
    <3>1. size \in Nat \ {0}
      BY <1>6, <1>11
    <3> QED BY <1>5, <1>7, <3>1, SegmentsAre, SMTT(60) DEF n
  <2>2. /\ more \in Seq(Piece) /\ Len(more) = k + 1 /\ more[k + 1] = s /\ more # EOF
        /\ \A i \in 1..k : more[i] = recvBuf[i]
        /\ \A i \in 1..k + 1 : i \in 1..k \/ i = k + 1
    <3>1. /\ more \in Seq(Piece) /\ Len(more) = Len(recvBuf) + 1 /\ more # <<>>
          /\ more[Len(recvBuf) + 1] = s
          /\ \A i \in 1..Len(recvBuf) : more[i] = recvBuf[i]
          /\ \A i \in 1..Len(recvBuf) + 1 : i \in 1..Len(recvBuf) \/ i = Len(recvBuf) + 1
      BY <1>4, <1>9, OneMore
    <3> QED BY <1>8, <3>1 DEF EOF
  <2>3. \A i \in 1..k + 1 : more[i] = Nth(d + 1, i, w)
    BY <1>5, <1>8, <2>2
  <2>4. s.size # 0 /\ ~(expected # -1 /\ s.remaining # expected - 1)
    <3>1. k # 0 => s.remaining = expected - 1
      BY <1>7, <1>8, <2>1
    <3>2. k = 0 => expected = -1
      BY <1>8
    <3>3. s.size # 0
      BY <2>1
    <3> QED BY <3>1, <3>2, <3>3
  <2>5. /\ s.remaining = 0 => Forget /\ Put(more)
        /\ s.remaining # 0 =>
              recvBuf' = more /\ expected' = s.remaining /\ UNCHANGED <<calls, packets>>
    BY <2>4 DEF OnMessage, s
  <2> HIDE DEF more
  <2>6. CASE k + 1 = n
    <3>1. s.remaining = 0
      BY <1>7, <2>1, <2>6
    <3>2. recvBuf' = <<>> /\ expected' = -1 /\ Put(more)
      BY <2>5, <3>1 DEF Forget
    <3>3. Delivered' = Append(Delivered, more)
      BY <1>1, <1>2, <2>2, <3>2, PutDelivers
    <3>4. Number(more) = d + 1
      <4>1. 1 \in 1..k + 1
        OBVIOUS
      <4>2. more[1] = Nth(d + 1, 1, w)
        BY <2>3, <4>1
      <4> QED BY <4>2 DEF Number, Nth
    <3>5. Whole(more, w)
      BY <1>5, <1>11, <2>2, <2>3, <2>6, <3>4 DEF Whole, n, size
    <3>6. Delivered \in Seq(Seq(Piece)) /\ \A i \in 1..Len(Delivered) : Delivered[i] # EOF
      BY <1>1, <1>2, DeliveredIs
    <3>7. /\ InTurn(Delivered', w)
          /\ NumbersTo(Delivered', Len(Delivered')) = Filled(d + 1, w)
      BY <1>4, <2>2, <3>3, <3>4, <3>5, <3>6, OneMoreInTurn
    <3>8. InBuffer(recvBuf', expected', w, d + 1, 0)
      <4>1. Len(recvBuf') = 0 /\ \A i \in 1..0 : FALSE
        BY <3>2, EmptySeq
      <4> QED BY <3>2, <4>1 DEF InBuffer
    <3>9. Stands(d + 1, 0)'
      BY <1>1, <1>4, <1>5, <2>6, <3>7, <3>8 DEF Stands, w
    <3> QED BY <1>1, <1>2, <1>4, <1>6, <3>9 DEF ReadInv, w
  <2>7. CASE k + 1 < n
    <3>1. s.remaining # 0
      BY <1>7, <2>1, <2>7
    <3>2. recvBuf' = more /\ expected' = n - (k + 1) /\ UNCHANGED <<calls, packets>>
      BY <1>7, <2>5, <3>1
    <3>3. Delivered' = Delivered
      BY <1>1, <3>2 DEF Delivered
    <3>4. d < Len(w) /\ k + 1 # 0
      BY <1>4, <1>5
    <3>5. InBuffer(recvBuf', expected', w, d, k + 1)
      BY <2>2, <2>3, <2>7, <3>2, <3>4 DEF InBuffer, n, size
    <3>6. Stands(d, k + 1)'
      BY <1>1, <1>4, <1>5, <2>7, <3>3, <3>5 DEF Stands, w
    <3>7. k + 1 \in Nat
      OBVIOUS
    <3> QED BY <1>1, <1>2, <1>3, <1>4, <3>6, <3>7 DEF ReadInv, w
  <2> QED BY <1>5, <2>1, <2>6, <2>7
<1> QED BY <1>6, <1>10, <1>11

LEMMA ReadsGoOn == ReadInv /\ [Next]_vars => ReadInv'
<1> SUFFICES ASSUME ReadInv, [Next]_vars
             PROVE  ReadInv'
  OBVIOUS
<1>1. EndComesLast /\ GotInv /\ EndComesLast'
  BY EndGoesOn DEF ReadInv
<1>2. CASE UNCHANGED connVars
  <2>1. Delivered' = Delivered /\ GotInv'
    BY <1>1, <1>2 DEF connVars, buffers, Delivered, GotInv
  <2> QED BY <1>1, <1>2, <2>1, StandsStill DEF connVars, buffers
<1>3. ASSUME NEW e \in End, Close(e)
      PROVE  ReadInv'
  <2>1. /\ UNCHANGED <<written, wire, recvBuf, expected, calls, packets, got>>
        /\ channel' = channel \/ (channel = "open" /\ channel' = "closing")
    BY <1>3 DEF Close, buffers
  <2>2. Delivered' = Delivered /\ GotInv'
    BY <1>1, <2>1 DEF Delivered, GotInv
  <2> QED BY <1>1, <2>1, <2>2, StandsStill
<1>4. CASE Transfer
  <2>1. CASE Write \/ WriteCutShort
    BY <2>1, WriteReads
  <2>2. CASE OnMessage
    BY <2>2, OnMessageReads
  <2>3. CASE RunCall
    <3>1. UNCHANGED <<written, wire, recvBuf, expected, got, channel>>
      BY <2>3 DEF RunCall
    <3>2. Delivered' = Delivered /\ GotInv'
      BY <1>1, <2>3, <3>1, RunCallDelivers DEF GotInv
    <3> QED BY <1>1, <3>1, <3>2, StandsStill
  <2>4. CASE Lost
    <3>1. /\ UNCHANGED <<written, recvBuf, expected, calls, packets, got>> /\ wire' = <<>>
          /\ channel # "closed" /\ channel' = "lost"
      BY <2>4 DEF Lost, buffers
    <3>2. Delivered' = Delivered /\ GotInv'
      BY <1>1, <3>1 DEF Delivered, GotInv
    <3> QED BY <1>1, <3>1, <3>2, StandsStill
  <2>5. CASE OnClose
    <3>1. /\ UNCHANGED <<threads, written, wire, recvBuf, expected, got>> /\ channel' = "closed"
          /\ Put(EOF)
      BY <2>5 DEF OnClose
    <3>2. EOF \in Seq(Piece)
      BY DEF EOF
    <3>3. Delivered' = Append(Delivered, EOF)
      BY <1>1, <3>1, <3>2, PutDelivers
    <3>4. Delivered \in Seq(Seq(Piece)) /\ InTurn(Delivered, written)
      BY <1>1, DeliveredIs DEF ReadInv, Stands
    <3>5. InTurn(Delivered', written) /\ GotInv'
      BY <1>1, <3>1, <3>2, <3>3, <3>4, EndInTurn DEF GotInv
    <3> QED BY <1>1, <3>1, <3>5, StandsStill
  <2>6. CASE ReadPacket
    <3>1. UNCHANGED <<written, wire, recvBuf, expected, channel>>
      BY <2>6 DEF ReadPacket
    <3>2. GotInv' /\ (Delivered' = Delivered
                      \/ (channel = "closed" /\ Delivered = Append(got, EOF) /\ Delivered' = got))
      BY <1>1, <2>6, ReadDelivers
    <3>3. CASE Delivered' = Delivered
      BY <1>1, <3>1, <3>2, <3>3, StandsStill
    <3>4. CASE channel = "closed" /\ Delivered = Append(got, EOF) /\ Delivered' = got
      <4>1. EOF \in Seq(Piece) /\ got \in Seq(Seq(Piece)) /\ InTurn(Delivered, written)
        BY <1>1 DEF EOF, GotInv, ReadInv, Stands
      <4>2. InTurn(Delivered', written)
        BY <3>4, <4>1, EndInTurn
      <4> QED BY <1>1, <3>1, <3>2, <3>4, <4>2, StandsStill
    <3> QED BY <3>2, <3>3, <3>4
  <2> QED BY <1>3, <1>4, <2>1, <2>2, <2>3, <2>4, <2>5, <2>6 DEF Transfer, ConnNext
<1>5. CASE PostReceives
  BY <1>2, <1>3, <1>5 DEF PostReceives, End
<1>6. CASE Dialing \/ Opened \/ Timeout \/ Dispatch \/ ServerAnswers \/ ServerSends \/ ServerDrops
           \/ UNCHANGED vars
  BY <1>2, <1>6
  DEF Dialing, Start, Wake, TakesCredentials, Offers, OfferAnswered, ReceiveAnswer, Opened, Timeout,
      Dispatch, ServerAnswers, ServerSends, ServerDrops, Sends, vars
<1> QED BY <1>4, <1>5, <1>6 DEF Next

LEMMA ReadsStart == Init => ReadInv
<1> SUFFICES ASSUME Init PROVE ReadInv
  OBVIOUS
<1>1. /\ written = <<>> /\ wire = <<>> /\ got = <<>> /\ recvBuf = <<>> /\ expected = -1
      /\ calls = <<>> /\ packets = <<>>
  BY DEF Init, ConnInit
<1> DEFINE none == <<>>
<1>2. Len(none) = 0 /\ none \in Seq(Nat) /\ none \in Seq(Seq(Piece)) /\ none \o none = none
      /\ \A i \in 1..Len(none) : FALSE
  BY EmptySeq, ConcatEmptySeq
<1>3. /\ written = none /\ wire = none /\ got = none /\ recvBuf = none
      /\ calls = none /\ packets = none
  BY <1>1
<1> HIDE DEF none
<1>4. Delivered = none
  BY <1>2, <1>3 DEF Delivered
<1>5. NumbersTo(none, Len(none)) = {} /\ Filled(0, none) = {}
  BY <1>2 DEF NumbersTo, Filled
<1>6. /\ OnWire(none, none, 0, 0) /\ AllSent(none, none, 0, 0)
      /\ InBuffer(none, -1, none, 0, 0) /\ InTurn(none, none)
  BY <1>2 DEF OnWire, AllSent, InBuffer, InTurn, none
<1>7. Stands(0, 0)
  BY <1>1, <1>3, <1>4, <1>5, <1>6 DEF Stands
<1>8. GotInv /\ written \in Seq(Nat) /\ Len(written) = 0
  BY <1>2, <1>3 DEF GotInv
<1> QED BY <1>7, <1>8, EndStarts DEF ReadInv

\* Nothing that was written to an open channel is lost on the way to the reader, in a thread
\* of the library or not: of what has been received all that can be read is delivered, and
\* with the channel empty all that was written has been received.
LEMMA NothingStaysBehind == ReadInv => QuietIsRead
<1>1. ASSUME ReadInv, channel = "open", wire = <<>>, calls = <<>>, packets = <<>>
      PROVE  recvBuf = <<>> /\ {Number(got[i]) : i \in DOMAIN got} = Readable(Len(written))
  <2>1. PICK d \in 0..Len(written), k \in Nat : Stands(d, k)
    BY <1>1 DEF ReadInv
  <2>2. /\ AllSent(wire, written, d, k) /\ InBuffer(recvBuf, expected, written, d, k)
        /\ NumbersTo(Delivered, Len(Delivered)) = Filled(d, written)
    BY <1>1, <2>1 DEF Stands
  <2>3. d = Len(written) /\ k = 0
    BY <1>1, <2>2 DEF AllSent
  <2>4. recvBuf = <<>>
    <3>1. Len(recvBuf) = 0
      BY <2>2, <2>3 DEF InBuffer
    <3>2. recvBuf \in Seq(Piece)
      BY <1>1 DEF ReadInv, EndComesLast, QueuesInv
    <3> QED BY <3>1, <3>2, EmptySeq
  <2>5. got \in Seq(Seq(Piece)) /\ DOMAIN got = 1..Len(got)
    BY <1>1, LenProperties DEF ReadInv, GotInv
  <2>6. Delivered = got
    <3> DEFINE none == <<>>
    <3>1. got \o none = got
      BY <2>5, ConcatEmptySeq
    <3>2. packets = none /\ calls = none
      BY <1>1
    <3> HIDE DEF none
    <3> QED BY <3>1, <3>2 DEF Delivered
  <2>7. NumbersTo(got, Len(got)) = Filled(Len(written), written)
    BY <2>2, <2>3, <2>6
  <2>8. {Number(got[i]) : i \in DOMAIN got} = Readable(Len(written))
    BY <2>5, <2>7 DEF NumbersTo, Filled, Readable
  <2> QED BY <2>4, <2>8
<1> QED BY <1>1 DEF QuietIsRead

\* Whatever closes first, and in whichever thread the library calls back: the reader gets the
\* packets that were written, whole, none twice, none out of order and none left out before
\* one that it gets, and all of them once an open channel is quiet.
THEOREM ReadIsWritten == Spec => []ReadAsWritten
<1>1. ASSUME ReadInv, NEW i \in DOMAIN got
      PROVE  LET n == Number(got[i]) IN
             /\ IsWhole(got[i], n)
             /\ {Number(got[j]) : j \in 1..i} = Readable(n)
             /\ \A j \in 1..(i - 1) : Number(got[j]) < n
  <2>1. EndComesLast /\ GotInv /\ written \in Seq(Nat) /\ InTurn(Delivered, written)
    BY <1>1 DEF ReadInv, Stands
  <2>2. got \in Seq(Seq(Piece)) /\ DOMAIN got = 1..Len(got) /\ Len(got) \in Nat
    BY <2>1, LenProperties DEF GotInv
  <2>3. \A j \in 1..Len(got) : j \in 1..Len(Delivered) /\ Delivered[j] = got[j]
    BY <2>1, DeliveredIs
  <2>4. i \in 1..Len(got) /\ got[i] # EOF /\ Delivered[i] = got[i] /\ i \in 1..Len(Delivered)
        /\ got[i] \in Seq(Piece)
    BY <2>1, <2>2, <2>3, ElementOfSeq DEF GotInv
  <2> DEFINE p == got[i]
             n == Number(p)
  <2>5. /\ Whole(p, written) /\ NumbersTo(Delivered, i) = Filled(n, written)
        /\ \A j \in 1..(i - 1) : Number(Delivered[j]) < n
    BY <2>1, <2>4 DEF InTurn
  <2>6. \A j \in 1..i : j \in 1..Len(got) /\ Delivered[j] = got[j]
    <3>1. \A j \in 1..i : j \in 1..Len(got)
      BY <2>2, <2>4
    <3> QED BY <2>3, <3>1
  <2>7. {Number(got[j]) : j \in 1..i} = Readable(n)
    BY <2>5, <2>6 DEF NumbersTo, Filled, Readable
  <2>8. \A j \in 1..(i - 1) : Number(got[j]) < n
    <3>1. \A j \in 1..(i - 1) : j \in 1..i
      BY <2>2
    <3> QED BY <2>5, <2>6, <3>1
  <2>9. p \in Seq(Piece) /\ DOMAIN p = 1..Len(p)
    BY <2>4, LenProperties
  <2> HIDE DEF p
  <2>10. IsWhole(p, n)
    <3>1. /\ n \in 1..Len(written) /\ written[n] > 0 /\ Len(p) = Segments(written[n])
          /\ \A j \in 1..Len(p) : p[j] = Nth(n, j, written)
      BY <2>5 DEF Whole
    <3> HIDE DEF n
    <3>2. written[n] \in Nat \ {0}
      BY <2>1, <3>1, ElementOfSeq
    <3>3. /\ Len(p) \in Nat \ {0}
          /\ written[n] = MAX_MESSAGE_SIZE * (Len(p) - 1) + SegmentSize(written[n], Len(p))
      BY <3>1, <3>2, SegmentsAre
    <3>4. Len(p) \in 1..Len(p)
      BY <3>3
    <3>5. \A j \in 1..Len(p) : /\ p[j].of = n /\ p[j].place = j
                               /\ p[j].size = SegmentSize(written[n], j)
      BY <3>1 DEF Nth
    <3>6. Last(p).size = SegmentSize(written[n], Len(p))
      BY <3>4, <3>5 DEF Last
    <3> QED BY <2>9, <3>3, <3>5, <3>6 DEF IsWhole
  <2> QED BY <2>7, <2>8, <2>10 DEF p
<1>2. ReadInv => ReadAsWritten
  BY <1>1, NothingStaysBehind DEF ReadAsWritten
<1> QED BY <1>2, ReadsStart, ReadsGoOn, PTL DEF Spec

=============================================================================
