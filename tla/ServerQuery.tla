---------------------------- MODULE ServerQuery ----------------------------
(***************************************************************************)
(* The query of a server (query/query.py): two requests over one UDP       *)
(* socket, each answered by the next datagram, whatever it is.             *)
(***************************************************************************)
EXTENDS Integers, Sequences, TLC

Empty == ""
Timeout == [result |-> "TimeoutError"]
Garbage == [result |-> "ValueError"]

\* The datagrams of the server: strings that end in a null each.
Handshake(number) == [type |-> "handshake", strings |-> <<number>>]
Information(strings) == [type |-> "information", strings |-> strings]

\* Mutant: an empty value is skipped like an empty key.
ParseInfoDense(strings) ==
    LET full == SelectSeq(strings, LAMBDA t : t # Empty) IN
    [k \in {full[2 * i - 1] : i \in 1..(Len(full) \div 2)} |->
        full[2 * (CHOOSE i \in 1..(Len(full) \div 2) : full[2 * i - 1] = k)]]

\* _parse_info_response: keys and values in turn, an empty string is no key.
ParseInfo(strings) ==
    LET After[i \in 0..Len(strings)] ==
            IF i = 0 THEN [info |-> <<>>, key |-> Empty]
            ELSE LET a == After[i - 1] IN
                 IF a.key = Empty THEN [a EXCEPT !.key = strings[i]]
                 ELSE [info |-> (a.key :> strings[i]) @@ a.info, key |-> Empty]
        done == After[Len(strings)]
    IN IF done.key = Empty THEN done.info ELSE (done.key :> Empty) @@ done.info

\* query: what it returns when these datagrams come.  Their types are not looked at: in the
\* place of the information a handshake is too short to have any, in the place of the handshake
\* information has no number.
Query(datagrams) ==
    IF datagrams = <<>> THEN Timeout
    ELSE IF datagrams[1].type # "handshake" THEN Garbage
    ELSE IF Len(datagrams) = 1 THEN Timeout
    ELSE [result |-> "information",
          info |-> IF datagrams[2].type = "handshake" THEN <<>> ELSE ParseInfo(datagrams[2].strings)]
=============================================================================
